-------------------------- MODULE ExtractPipeline --------------------------
(***************************************************************************)
(* One `logcov extract` session from the inside (cmd/extract.go,           *)
(* extractor/go/log/build.go, extractor/go/analyzer/analyzer.go).          *)
(*                                                                         *)
(*   worker[p]   the goroutine of Build that compiles package p            *)
(*   main        ExtractLogPattern: the rule, Build, the walk over the     *)
(*               compiled packages, which sends patterns to a channel      *)
(*   writer      the goroutine that writes them to the store               *)
(*                                                                         *)
(* A file is the sequence of its log calls in the order of the walk; what  *)
(* the Go compiler and the AST say is data.  StoreLifecycle sees the same  *)
(* session by its puts only, and this module implements it.                *)
(***************************************************************************)
EXTENDS Integers, Sequences, FiniteSets

CONSTANTS
    Packages,  \* the packages of the code base
    Files,     \* per package, the set of its files: sequences of sites
    Sites,     \* positions of log calls, what the keys of the store encode
    Source,    \* per site, the level of the call there, or Absent
    Levels,    \* the levels of log calls
    Capacity,  \* size of the channel of patterns (256 in the code)
    NoRule,    \* no rule in the store
    Absent     \* no log call, no pattern

ASSUME PackageAssumption == IsFiniteSet(Packages)
ASSUME SiteAssumption == IsFiniteSet(Sites)
ASSUME LevelAssumption == Absent \notin Levels
ASSUME RuleAssumption == \A r \in SUBSET Levels : r # NoRule
ASSUME SourceAssumption == Source \in [Sites -> Levels \cup {Absent}]
ASSUME CapacityAssumption == Capacity \in Nat \ {0}

(* Where the log calls of package p are.                                   *)
SitesOf(p) == UNION {{f[i] : i \in 1 .. Len(f)} : f \in Files[p]}

ASSUME FilesAssumption ==
    /\ \A p \in Packages : \A f \in Files[p] : f \in Seq(Sites)
    /\ {s \in Sites : Source[s] # Absent} = UNION {SitesOf(p) : p \in Packages}

(* A position names a byte of one file, and a directory is one package:    *)
(* there is one log call at it, in one file of one package.                *)
ASSUME PositionAssumption ==
    \A p, q \in Packages : \A f \in Files[p], g \in Files[q] :
        \A i \in 1 .. Len(f), j \in 1 .. Len(g) :
            f[i] = g[j] => p = q /\ f = g /\ i = j

VARIABLES
    rule,      \* the entry "rule:" of the store
    patterns,  \* the entries "log:" of the store
    wanted,    \* the rule of this session
    main,      \* the program counter of the main goroutine
    worker,    \* per package, the program counter of its goroutine
    built,     \* Build's channel of compiled packages
    repo,      \* the packages that ForEach has not visited yet
    files,     \* the files of the current package not visited yet
    calls,     \* the rest of the current file
    logChan,   \* the channel of patterns
    closed,    \* whether it is closed
    writer,    \* the program counter of the writing goroutine
    pattern,   \* the pattern it works on
    written,   \* a history: the sites written in this session
    lost       \* a history: the sites given up with a log message

storeVars  == <<rule, patterns, wanted, written, lost>>
buildVars  == <<worker, built>>
walkVars   == <<repo, files, calls>>
chanVars   == <<logChan, closed>>
writerVars == <<writer, pattern>>
vars == <<storeVars, main, buildVars, walkVars, chanVars, writerVars>>

(* MatchLogPatternRule, at the end of Filter.Filter.                       *)
Matches(level) == wanted = {} \/ level \in wanted

(* The process is alive.                                                   *)
Running == main \notin {"ended", "panicked", "died"}

Init ==
    /\ rule \in {NoRule} \cup SUBSET Levels
    /\ patterns \in [Sites -> Levels \cup {Absent}]
    /\ wanted = {}
    /\ main = "open"
    /\ worker = [p \in Packages |-> "compile"]
    /\ built = <<>>
    /\ repo = <<>>
    /\ files = {}
    /\ calls = <<>>
    /\ logChan = <<>>
    /\ closed = FALSE
    /\ writer = "none"
    /\ pattern = Absent
    /\ written = {}
    /\ lost = {}

---------------------------------------------------------------------------
(* The main goroutine up to Build.                                         *)

Open(r) ==
    /\ main = "open"
    /\ wanted' = r
    /\ main' = "rule"
    /\ UNCHANGED <<rule, patterns, written, lost, buildVars, walkVars, chanVars,
                   writerVars>>

(* WriteLogPatternRule; then Build starts a goroutine per package.         *)
WriteRule ==
    /\ main = "rule"
    /\ rule' = wanted
    /\ main' = "build"
    /\ UNCHANGED <<patterns, wanted, written, lost, buildVars, walkVars, chanVars,
                   writerVars>>

---------------------------------------------------------------------------
(* The goroutines of Build.                                                *)

CompileOK(p) ==
    /\ main = "build" /\ worker[p] = "compile" /\ Files[p] # {}
    /\ worker' = [worker EXCEPT ![p] = "send"]
    /\ UNCHANGED <<storeVars, main, built, walkVars, chanVars, writerVars>>

(* Compile returns an error: it is logged, and the package is skipped.     *)
CompileFails(p) ==
    /\ main = "build" /\ worker[p] = "compile"
    /\ worker' = [worker EXCEPT ![p] = "exit"]
    /\ lost' = lost \cup {s \in SitesOf(p) : Matches(Source[s])}
    /\ UNCHANGED <<rule, patterns, wanted, written, main, built, walkVars, chanVars,
                   writerVars>>

(* A directory that holds nothing but tests is a package without files:    *)
(* astFiles[0] panics, and a panic ends the process.                       *)
CompilePanics(p) ==
    /\ main = "build" /\ worker[p] = "compile" /\ Files[p] = {}
    /\ main' = "panicked"
    /\ UNCHANGED <<storeVars, buildVars, walkVars, chanVars, writerVars>>

(* ch <- compilation: the channel has room for every package.              *)
SendBuilt(p) ==
    /\ Running /\ worker[p] = "send" /\ Len(built) < Cardinality(Packages)
    /\ built' = Append(built, p)
    /\ worker' = [worker EXCEPT ![p] = "exit"]
    /\ UNCHANGED <<storeVars, main, walkVars, chanVars, writerVars>>

(* wg.Done()                                                               *)
WorkerDone(p) ==
    /\ Running /\ worker[p] = "exit"
    /\ worker' = [worker EXCEPT ![p] = "done"]
    /\ UNCHANGED <<storeVars, main, built, walkVars, chanVars, writerVars>>

Worker(p) ==
    \/ CompileOK(p)
    \/ CompileFails(p)
    \/ CompilePanics(p)
    \/ SendBuilt(p)
    \/ WorkerDone(p)

---------------------------------------------------------------------------
(* The main goroutine from there on.                                       *)

(* Build closes its channel once a single package is there: breaks         *)
(* NoSendOnClosed.                                                         *)
CollectEarly ==
    /\ main = "build" /\ \E p \in Packages : worker[p] = "done"
    /\ repo' = built
    /\ built' = <<>>
    /\ main' = "walk"
    /\ writer' = "receive"
    /\ UNCHANGED <<storeVars, worker, files, calls, chanVars, pattern>>

(* wg.Wait, close(ch), and all that is in the channel makes the repo.      *)
(* Then SetupOutput makes the channel of patterns, and the writing         *)
(* goroutine starts.                                                       *)
Collect ==
    /\ main = "build" /\ \A p \in Packages : worker[p] = "done"
    /\ repo' = built
    /\ built' = <<>>
    /\ main' = "walk"
    /\ writer' = "receive"
    /\ UNCHANGED <<storeVars, worker, files, calls, chanVars, pattern>>

(* Repo.ForEach visits the packages one after the other.                   *)
NextPackage ==
    /\ main = "walk" /\ calls = <<>> /\ files = {} /\ repo # <<>>
    /\ files' = Files[Head(repo)]
    /\ repo' = Tail(repo)
    /\ UNCHANGED <<storeVars, main, buildVars, calls, chanVars, writerVars>>

(* PackageCompilation.ForEach visits the files in any order (a Go map).    *)
NextFile(f) ==
    /\ main = "walk" /\ calls = <<>> /\ f \in files
    /\ calls' = f
    /\ files' = files \ {f}
    /\ UNCHANGED <<storeVars, main, buildVars, repo, chanVars, writerVars>>

(* matchLog for a call whose level the rule does not want.                 *)
IgnoreCall ==
    /\ main = "walk" /\ calls # <<>> /\ ~Matches(Source[Head(calls)])
    /\ calls' = Tail(calls)
    /\ UNCHANGED <<storeVars, main, buildVars, repo, files, chanVars, writerVars>>

(* A channel that takes whatever comes: breaks TypeOK.                     *)
SendUnbounded ==
    /\ main = "walk" /\ calls # <<>> /\ Matches(Source[Head(calls)])
    /\ logChan' = Append(logChan, Head(calls))
    /\ calls' = Tail(calls)
    /\ UNCHANGED <<storeVars, main, buildVars, repo, files, closed, writerVars>>

(* matchLog sends the pattern of the call; it blocks while the channel is  *)
(* full.                                                                   *)
SendPattern ==
    /\ main = "walk" /\ calls # <<>> /\ Matches(Source[Head(calls)])
    /\ Len(logChan) < Capacity
    /\ logChan' = Append(logChan, Head(calls))
    /\ calls' = Tail(calls)
    /\ UNCHANGED <<storeVars, main, buildVars, repo, files, closed, writerVars>>

(* No MarkDone at the end of the walk: breaks Termination.                 *)
NoMarkDone ==
    /\ main = "walk" /\ calls = <<>> /\ files = {} /\ repo = <<>>
    /\ main' = "wait"
    /\ UNCHANGED <<storeVars, buildVars, walkVars, chanVars, writerVars>>

(* The walk is over: MarkDone closes the channel.                          *)
MarkDone ==
    /\ main = "walk" /\ calls = <<>> /\ files = {} /\ repo = <<>>
    /\ closed' = TRUE
    /\ main' = "wait"
    /\ UNCHANGED <<storeVars, buildVars, walkVars, logChan, writerVars>>

(* extract returns without done.Wait: breaks RefinesSession.               *)
ReturnEarly ==
    /\ main = "wait"
    /\ main' = "ended"
    /\ UNCHANGED <<storeVars, buildVars, walkVars, chanVars, writerVars>>

(* done.Wait, and extract returns.                                         *)
Return ==
    /\ main = "wait" /\ writer = "done"
    /\ main' = "ended"
    /\ UNCHANGED <<storeVars, buildVars, walkVars, chanVars, writerVars>>

Main ==
    \/ \E r \in SUBSET Levels : Open(r)
    \/ WriteRule
    \/ Collect
    \/ NextPackage
    \/ \E f \in files : NextFile(f)
    \/ IgnoreCall
    \/ SendPattern
    \/ MarkDone
    \/ Return

---------------------------------------------------------------------------
(* The writing goroutine.                                                  *)

Receive ==
    /\ Running /\ writer = "receive" /\ logChan # <<>>
    /\ pattern' = Head(logChan)
    /\ logChan' = Tail(logChan)
    /\ writer' = "write"
    /\ UNCHANGED <<storeVars, main, buildVars, walkVars, closed>>

Put ==
    /\ Running /\ writer = "write"
    /\ patterns' = [patterns EXCEPT ![pattern] = Source[pattern]]
    /\ written' = written \cup {pattern}
    /\ writer' = "receive"
    /\ UNCHANGED <<rule, wanted, lost, main, buildVars, walkVars, chanVars, pattern>>

(* WriteLogPattern fails: only a log message.                              *)
PutFails ==
    /\ Running /\ writer = "write"
    /\ lost' = lost \cup {pattern}
    /\ writer' = "receive"
    /\ UNCHANGED <<rule, patterns, wanted, written, main, buildVars, walkVars, chanVars,
                   pattern>>

ReceiveClosed ==
    /\ Running /\ writer = "receive" /\ logChan = <<>> /\ closed
    /\ writer' = "done"
    /\ UNCHANGED <<storeVars, main, buildVars, walkVars, chanVars, pattern>>

Writer ==
    \/ Receive
    \/ Put
    \/ PutFails
    \/ ReceiveClosed

---------------------------------------------------------------------------
(* The process is killed, or log.Fatalf ends it: the rule could not be     *)
(* written, or Build found no packages.                                    *)
Die ==
    /\ Running /\ main # "open"
    /\ main' = "died"
    /\ UNCHANGED <<storeVars, buildVars, walkVars, chanVars, writerVars>>

Terminated == ~Running /\ UNCHANGED vars

Next ==
    \/ Main
    \/ \E p \in Packages : Worker(p)
    \/ Writer
    \/ Die
    \/ Terminated

(* The Go scheduler runs every goroutine that can take a step.             *)
Fairness ==
    /\ WF_vars(Main)
    /\ \A p \in Packages : WF_vars(Worker(p))
    /\ WF_vars(Writer)

Spec == Init /\ [][Next]_vars /\ Fairness

---------------------------------------------------------------------------
(* Properties.                                                             *)

(* Every variable keeps its type, and both channels their capacity.        *)
TypeOK ==
    /\ rule \in {NoRule} \cup SUBSET Levels
    /\ patterns \in [Sites -> Levels \cup {Absent}]
    /\ wanted \subseteq Levels
    /\ main \in {"open", "rule", "build", "walk", "wait", "ended", "panicked", "died"}
    /\ worker \in [Packages -> {"compile", "send", "exit", "done"}]
    /\ built \in Seq(Packages) /\ Len(built) <= Cardinality(Packages)
    /\ repo \in Seq(Packages)
    /\ files \subseteq UNION {Files[p] : p \in Packages}
    /\ calls \in Seq(Sites)
    /\ logChan \in Seq(Sites) /\ Len(logChan) <= Capacity
    /\ closed \in BOOLEAN
    /\ writer \in {"none", "receive", "write", "done"}
    /\ pattern \in Sites \cup {Absent}
    /\ written \subseteq Sites /\ lost \subseteq Sites

(* No goroutine is left that may send when a channel is closed: a send     *)
(* would panic and end the session (build.go:61-62, extract.go:142-143).   *)
(* And no goroutine of Build blocks on its channel, which nobody reads     *)
(* before all of them are done.                                            *)
NoSendOnClosed ==
    /\ main \in {"walk", "wait", "ended"} =>
         \A p \in Packages : worker[p] = "done"
    /\ closed => calls = <<>> /\ files = {} /\ repo = <<>>
    /\ main = "build" /\ (\E p \in Packages : worker[p] = "send") =>
         Len(built) < Cardinality(Packages)

(* extract ends: neither the walk nor the writer is left blocked on the    *)
(* channel or the wait group, whatever fails on the way.                   *)
Termination == <>~Running

(* This session as StoreLifecycle sees it.                                 *)
Wanted == {s \in Sites : Source[s] # Absent /\ Matches(Source[s])}

Session == INSTANCE StoreLifecycle WITH
    Counts    <- {},
    source    <- Source,
    coverage  <- [s \in Sites |-> Absent],
    session   <- IF main \in {"build", "walk", "wait"} THEN "extract"
                 ELSE IF main = "rule" THEN "rule" ELSE "none",
    toWrite   <- IF main \in {"build", "walk", "wait"}
                 THEN Wanted \ (written \cup lost) ELSE {},
    hits      <- [s \in Sites |-> Absent],
    extracted <- main = "ended",
    scanned   <- FALSE,
    report    <- [total |-> 0, covered |-> 0, fatal |-> FALSE]

(* Every step of the goroutines is a step of the session or leaves it as   *)
(* it is.  In particular nothing but this code's patterns is written, and  *)
(* nothing before the rule; and when extract returns every pattern the     *)
(* rule wants has been written or given up with a message.                 *)
RefinesSession == [][Session!Next]_(Session!vars)
=============================================================================
