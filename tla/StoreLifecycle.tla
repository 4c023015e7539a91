--------------------------- MODULE StoreLifecycle ---------------------------
(***************************************************************************)
(* The life of a pattern store: the sessions `logcov extract`, `scan` and  *)
(* `analyze` that open it one after the other, the code base changing in   *)
(* between, and processes that die half way (cmd/, storage/, reporter/).   *)
(*                                                                         *)
(* LevelDB locks an open database, so sessions do not overlap, and every   *)
(* Store.write is one atomic put.  A session is seen here by its puts;     *)
(* ScanPipeline models the inside of a scan.                               *)
(***************************************************************************)
EXTENDS Integers, FiniteSets

CONSTANTS
    Sites,    \* positions of log calls: what the keys of the store encode
    Levels,   \* the levels of log calls
    NoRule,   \* no rule in the store
    Absent,   \* no log call, no pattern, no coverage
    Counts    \* the counts of a scan: of an int32, which may have wrapped to 0

ASSUME SiteAssumption == IsFiniteSet(Sites)
ASSUME LevelAssumption == Absent \notin Levels
ASSUME RuleAssumption == \A r \in SUBSET Levels : r # NoRule
ASSUME CountAssumption == Counts \subseteq Int /\ Absent \notin Counts

VARIABLES
    source,    \* per site, the level of the call in the code base
    rule,      \* the entry "rule:": a set of levels, {} for any
    patterns,  \* the entries "log:": per site, the level of the pattern
    coverage,  \* the entries "cov:": per site, CovCount
    session,   \* the process that has the store open
    wanted,    \* extract: the rule of this session
    toWrite,   \* extract: the patterns not written yet; scan: likewise
    hits,      \* scan: the final count per site, Absent without a hit
    lost,      \* extract: patterns that were given up with a log message
    extracted, \* a history: the last extract ended and nothing changed since
    scanned,   \* a history: the last session that wrote was a complete scan
    report     \* what the last analyze printed

store == <<rule, patterns, coverage>>
vars == <<source, store, session, wanted, toWrite, hits, lost, extracted, scanned, report>>

Calls == Levels \cup {Absent}
Rules == SUBSET Levels
Coverages == [Sites -> Counts \cup {Absent}]

(* MatchLogPatternRule: a rule without levels takes any.                   *)
Matches(r, level) == r = {} \/ level \in r

Present(f) == {s \in Sites : f[s] # Absent}
Covered == Present(coverage)

NoReport == [total |-> 0, covered |-> 0, fatal |-> FALSE]

Init ==
    /\ source \in [Sites -> Calls]
    /\ rule = NoRule
    /\ patterns = [s \in Sites |-> Absent]
    /\ coverage = [s \in Sites |-> Absent]
    /\ session = "none"
    /\ wanted = {}
    /\ toWrite = {}
    /\ hits = [s \in Sites |-> Absent]
    /\ lost = {}
    /\ extracted = FALSE
    /\ scanned = FALSE
    /\ report = NoReport

(* The code base moves on to another version.                              *)
EditSource(new) ==
    /\ session = "none" /\ new # source
    /\ source' = new
    /\ extracted' = FALSE
    /\ UNCHANGED <<store, session, wanted, toWrite, hits, lost, scanned, report>>

---------------------------------------------------------------------------
(* logcov extract.                                                         *)

StartExtract(r) ==
    /\ session = "none"
    /\ session' = "rule" /\ wanted' = r
    /\ lost' = {} /\ extracted' = FALSE /\ scanned' = FALSE
    /\ UNCHANGED <<source, store, toWrite, hits, report>>

(* The patterns go first: breaks RuleFirst.                                *)
WriteRuleLast ==
    /\ session = "rule"
    /\ session' = "extract"
    /\ toWrite' = {s \in Present(source) : Matches(wanted, source[s])}
    /\ UNCHANGED <<source, store, wanted, hits, lost, extracted, scanned, report>>

(* WriteLogPatternRule, then Build and the analysis find the calls that    *)
(* match the rule.                                                         *)
WriteRule ==
    /\ session = "rule"
    /\ rule' = wanted
    /\ session' = "extract"
    /\ toWrite' = {s \in Present(source) : Matches(wanted, source[s])}
    /\ UNCHANGED <<source, patterns, coverage, wanted, hits, lost, extracted,
                   scanned, report>>

(* A pattern already stored is left alone: breaks ExtractComplete.         *)
WritePatternOnce(s) ==
    /\ session = "extract" /\ s \in toWrite
    /\ patterns' = [patterns EXCEPT ![s] = IF @ = Absent THEN source[s] ELSE @]
    /\ toWrite' = toWrite \ {s}
    /\ UNCHANGED <<source, rule, coverage, session, wanted, hits, lost, extracted,
                   scanned, report>>

(* WriteLogPattern replaces what is under the key of the call's position.  *)
WritePattern(s) ==
    /\ session = "extract" /\ s \in toWrite
    /\ patterns' = [patterns EXCEPT ![s] = source[s]]
    /\ toWrite' = toWrite \ {s}
    /\ UNCHANGED <<source, rule, coverage, session, wanted, hits, lost, extracted,
                   scanned, report>>

(* extract goes on without some of the patterns, with no more than a log     *)
(* message: WriteLogPattern failed for one, or Build could not compile the *)
(* package that they are in.                                               *)
Skip(missed) ==
    /\ session = "extract" /\ missed # {}
    /\ toWrite' = toWrite \ missed
    /\ lost' = lost \cup missed
    /\ UNCHANGED <<source, store, session, wanted, hits, extracted, scanned, report>>

EndExtract ==
    /\ session = "extract" /\ toWrite = {}
    /\ session' = "none" /\ extracted' = TRUE
    /\ UNCHANGED <<source, store, wanted, toWrite, hits, lost, scanned, report>>

---------------------------------------------------------------------------
(* logcov scan.                                                            *)

(* Logs of a call that is in the code count as well: breaks                *)
(* CoverageHasPattern.                                                     *)
StartScanAny(found) ==
    /\ session = "none"
    /\ session' = "scan"
    /\ hits' = found
    /\ toWrite' = Present(found)
    /\ scanned' = FALSE
    /\ UNCHANGED <<source, store, wanted, lost, extracted, report>>

(* The matcher knows the patterns of the store and no others; the coverage *)
(* that exists already is not read.                                        *)
StartScan(found) ==
    /\ session = "none"
    /\ Present(found) \subseteq Present(patterns)
    /\ session' = "scan"
    /\ hits' = found
    /\ toWrite' = Present(found)
    /\ scanned' = FALSE
    /\ UNCHANGED <<source, store, wanted, lost, extracted, report>>

(* An entry that exists is left alone: breaks ScanComplete.                *)
WriteCoverageOnce(s) ==
    /\ session = "scan" /\ s \in toWrite
    /\ coverage' = [coverage EXCEPT ![s] = IF @ = Absent THEN hits[s] ELSE @]
    /\ toWrite' = toWrite \ {s}
    /\ UNCHANGED <<source, rule, patterns, session, wanted, hits, lost, extracted,
                   scanned, report>>

(* The counts of two scans added up: breaks TypeOK.                        *)
WriteCoverageSum(s) ==
    /\ session = "scan" /\ s \in toWrite
    /\ coverage' = [coverage EXCEPT ![s] = IF @ = Absent THEN hits[s] ELSE @ + hits[s]]
    /\ toWrite' = toWrite \ {s}
    /\ UNCHANGED <<source, rule, patterns, session, wanted, hits, lost, extracted,
                   scanned, report>>

(* WriteLogCoverage replaces what an earlier scan left.                    *)
WriteCoverage(s) ==
    /\ session = "scan" /\ s \in toWrite
    /\ coverage' = [coverage EXCEPT ![s] = hits[s]]
    /\ toWrite' = toWrite \ {s}
    /\ UNCHANGED <<source, rule, patterns, session, wanted, hits, lost, extracted,
                   scanned, report>>

EndScan ==
    /\ session = "scan" /\ toWrite = {}
    /\ session' = "none" /\ scanned' = TRUE
    /\ UNCHANGED <<source, store, wanted, toWrite, hits, lost, extracted, report>>

---------------------------------------------------------------------------
(* logcov analyze: it counts the patterns, then looks the pattern of every *)
(* coverage entry up and ends the process with log.Fatalf without one.     *)
Analyze ==
    /\ session = "none"
    /\ report' = [total   |-> Cardinality(Present(patterns)),
                  covered |-> Cardinality(Covered \cap Present(patterns)),
                  fatal   |-> ~(Covered \subseteq Present(patterns))]
    /\ UNCHANGED <<source, store, session, wanted, toWrite, hits, lost, extracted, scanned>>

(* A session dies: killed, or by log.Fatalf after a write error in scan or *)
(* in WriteLogPatternRule, or when the analysis fails.                     *)
Die ==
    /\ session # "none"
    /\ session' = "none" /\ toWrite' = {}
    /\ UNCHANGED <<source, store, wanted, hits, lost, extracted, scanned, report>>

Next ==
    \/ \E new \in [Sites -> Calls] : EditSource(new)
    \/ \E r \in Rules : StartExtract(r)
    \/ WriteRule
    \/ \E s \in Sites : WritePattern(s)
    \/ \E missed \in SUBSET toWrite : Skip(missed)
    \/ EndExtract
    \/ \E found \in Coverages : StartScan(found)
    \/ \E s \in Sites : WriteCoverage(s)
    \/ EndScan
    \/ Analyze
    \/ Die

Spec == Init /\ [][Next]_vars

---------------------------------------------------------------------------
(* Properties.                                                             *)

(* Every variable keeps its type; a count in the store is one that a       *)
(* single scan can reach.                                                  *)
TypeOK ==
    /\ source \in [Sites -> Calls]
    /\ rule = NoRule \/ rule \in Rules
    /\ patterns \in [Sites -> Calls]
    /\ coverage \in Coverages
    /\ session \in {"none", "rule", "extract", "scan"}
    /\ wanted \in Rules
    /\ toWrite \subseteq Sites /\ lost \subseteq Sites
    /\ hits \in Coverages
    /\ extracted \in BOOLEAN /\ scanned \in BOOLEAN
    /\ report \in [total : Nat, covered : Nat, fatal : BOOLEAN]

(* analyze never ends with "not found reference log": whatever sessions    *)
(* ran or died, every coverage entry has its pattern.                      *)
CoverageHasPattern ==
    /\ Covered \subseteq Present(patterns)
    /\ ~report.fatal
    /\ report.covered <= report.total

(* A store with a pattern has a rule, so that scan never takes a missing   *)
(* rule for "any level".                                                   *)
RuleFirst == Present(patterns) # {} => rule # NoRule

(* After an extract that was not interrupted the store holds every call of *)
(* the code that the rule takes, at its present level, but for those whose *)
(* write failed or whose package did not compile: older entries at the     *)
(* same position do not survive.                                           *)
ExtractComplete ==
    extracted =>
        \A s \in Present(source) \ lost :
            Matches(rule, source[s]) => patterns[s] = source[s]

(* After a scan that was not interrupted every pattern it found has that   *)
(* scan's count, whatever earlier scans left.                              *)
ScanComplete == scanned => \A s \in Present(hits) : coverage[s] = hits[s]
=============================================================================
