----------------------- MODULE StoreLifecycleProofs -----------------------
(***************************************************************************)
(* The safety of the store over any sequence of sessions, for every set of *)
(* positions, levels and rules: proofs about StoreLifecycle.               *)
(***************************************************************************)
EXTENDS StoreLifecycle, FiniteSetTheorems, TLAPS

(* What a session still has to write, and what it has written.             *)
SessionInv ==
    /\ session \in {"none", "rule"} => toWrite = {}
    /\ session \in {"rule", "extract"} => ~extracted
    /\ session \in {"rule", "extract", "scan"} => ~scanned
    /\ session = "extract" =>
         /\ rule = wanted
         /\ toWrite \subseteq Present(source)
         /\ \A s \in Present(source) \ (lost \cup toWrite) :
              Matches(wanted, source[s]) => patterns[s] = source[s]
    /\ session = "scan" =>
         /\ toWrite \subseteq Present(patterns)
         /\ toWrite \subseteq Present(hits)
         /\ \A s \in Present(hits) \ toWrite : coverage[s] = hits[s]

Inv ==
    /\ TypeOK
    /\ SessionInv
    /\ CoverageHasPattern
    /\ RuleFirst
    /\ ExtractComplete
    /\ ScanComplete

---------------------------------------------------------------------------
(* The two sets that a report counts are finite and nested.                *)
LEMMA ReportCounts ==
    /\ Cardinality(Present(patterns)) \in Nat
    /\ Cardinality(Covered \cap Present(patterns)) \in Nat
    /\ Cardinality(Covered \cap Present(patterns)) <= Cardinality(Present(patterns))
<1>1. IsFiniteSet(Present(patterns))
  <2>1. Present(patterns) \subseteq Sites
    BY DEF Present
  <2> QED
    BY <2>1, FS_Subset, SiteAssumption
<1>2. Covered \cap Present(patterns) \subseteq Present(patterns)
  OBVIOUS
<1> QED
  BY <1>1, <1>2, FS_Subset, FS_CardinalityType

(* Only the store of an empty database is to be looked at.                 *)
LEMMA InitInv == Init => Inv
<1> SUFFICES ASSUME Init PROVE Inv
  OBVIOUS
<1>1. TypeOK
  <2>1. report \in [total : Nat, covered : Nat, fatal : BOOLEAN]
    BY DEF Init, NoReport
  <2>2. /\ source \in [Sites -> Calls]
        /\ patterns \in [Sites -> Calls]
        /\ coverage \in Coverages
        /\ hits \in Coverages
    BY DEF Init, Calls, Coverages
  <2>3. wanted \in Rules /\ toWrite \subseteq Sites /\ lost \subseteq Sites
    BY DEF Init, Rules
  <2> QED
    BY <2>1, <2>2, <2>3 DEF Init, TypeOK
<1>2. Present(patterns) = {} /\ Covered = {}
  BY DEF Init, Present, Covered
<1>3. CoverageHasPattern
  BY <1>2 DEF Init, CoverageHasPattern, NoReport
<1>4. SessionInv
  BY DEF Init, SessionInv
<1> QED
  BY <1>1, <1>2, <1>3, <1>4 DEF Init, Inv, RuleFirst, ExtractComplete, ScanComplete

(* Every step keeps the invariant.                                         *)
LEMMA NextInv == Inv /\ [Next]_vars => Inv'
<1> SUFFICES ASSUME Inv, [Next]_vars PROVE Inv'
  OBVIOUS
<1> USE RuleAssumption, LevelAssumption, CountAssumption
<1> USE DEF Inv, TypeOK, SessionInv, CoverageHasPattern, RuleFirst, ExtractComplete,
            ScanComplete, Calls, Rules, Coverages, store
<1>1. ASSUME NEW new \in [Sites -> Calls], EditSource(new) PROVE Inv'
  BY <1>1 DEF EditSource, Present, Covered, Matches
<1>2. ASSUME NEW r \in Rules, StartExtract(r) PROVE Inv'
  BY <1>2 DEF StartExtract, Present, Covered, Matches
<1>3. CASE WriteRule
  BY <1>3 DEF WriteRule, Present, Covered, Matches
<1>4. ASSUME NEW s \in Sites, WritePattern(s) PROVE Inv'
  BY <1>4 DEF WritePattern, Present, Covered, Matches
<1>5. ASSUME NEW missed \in SUBSET toWrite, Skip(missed) PROVE Inv'
  BY <1>5 DEF Skip, Present, Covered, Matches
<1>6. CASE EndExtract
  BY <1>6 DEF EndExtract, Present, Covered, Matches
<1>7. ASSUME NEW found \in Coverages, StartScan(found) PROVE Inv'
  BY <1>7 DEF StartScan, Present, Covered, Matches
<1>8. ASSUME NEW s \in Sites, WriteCoverage(s) PROVE Inv'
  BY <1>8 DEF WriteCoverage, Present, Covered, Matches
<1>9. CASE EndScan
  BY <1>9 DEF EndScan, Present, Covered, Matches
<1>10. CASE Analyze
  BY <1>10, ReportCounts DEF Analyze, Present, Covered
<1>11. CASE Die
  BY <1>11 DEF Die, Present, Covered, Matches
<1>12. CASE UNCHANGED vars
  BY <1>12 DEF vars, Present, Covered, Matches
<1> QED
  BY <1>1, <1>2, <1>3, <1>4, <1>5, <1>6, <1>7, <1>8, <1>9, <1>10, <1>11, <1>12 DEF Next

(* The inductive invariant holds in every reachable state.                 *)
THEOREM Invariance == Spec => []Inv
<1> QED
  BY InitInv, NextInv, PTL DEF Spec

(* Every variable keeps its type, and no count exceeds what one scan       *)
(* finds.                                                                  *)
THEOREM StoreTypes == Spec => []TypeOK
<1>1. Inv => TypeOK
  BY DEF Inv
<1> QED
  BY <1>1, Invariance, PTL

(* No history of sessions and crashes leaves coverage without its          *)
(* pattern.                                                                *)
THEOREM AnalyzeFinds == Spec => []CoverageHasPattern
<1>1. Inv => CoverageHasPattern
  BY DEF Inv
<1> QED
  BY <1>1, Invariance, PTL

(* A store with patterns has the rule they were extracted under.           *)
THEOREM RuleIsFirst == Spec => []RuleFirst
<1>1. Inv => RuleFirst
  BY DEF Inv
<1> QED
  BY <1>1, Invariance, PTL

(* An extract that ends has brought every position it could write up to    *)
(* date.                                                                   *)
THEOREM ExtractIsComplete == Spec => []ExtractComplete
<1>1. Inv => ExtractComplete
  BY DEF Inv
<1> QED
  BY <1>1, Invariance, PTL

(* A scan that ends has stored its own count for every pattern it found.   *)
THEOREM ScanIsComplete == Spec => []ScanComplete
<1>1. Inv => ScanComplete
  BY DEF Inv
<1> QED
  BY <1>1, Invariance, PTL
===========================================================================
