----------------------- MODULE ExtractPipelineProofs -----------------------
(***************************************************************************)
(* Proofs about ExtractPipeline, for any packages, files, rules and size   *)
(* of the channel: types, the channels and the refinement of the extract   *)
(* session of StoreLifecycle.                                              *)
(***************************************************************************)
EXTENDS ExtractPipeline, SequenceLemmas

(* The tuples that UNCHANGED clauses name.                                 *)
USE DEF storeVars, buildVars, walkVars, chanVars, writerVars

---------------------------------------------------------------------------
(* The inductive invariant.                                                *)

(* Packages that the walk has not come to, as far as they compile.         *)
Ahead(p) ==
    worker[p] \in {"compile", "send"} \/ p \in ToSet(built) \/ p \in ToSet(repo)

(* What is in the files that wait, and what is on its way to the store.    *)
InFiles == UNION {ToSet(f) : f \in files}
InPipe == ToSet(logChan) \cup (IF writer = "write" THEN {pattern} ELSE {})
Handled == written \cup lost

(* What each phase of the main goroutine leaves to the other goroutines.   *)
Phases ==
    /\ main \in {"open", "rule"} =>
         built = <<>> /\ lost = {} /\ \A p \in Packages : worker[p] = "compile"
    /\ main \in {"open", "rule", "build"} =>
         /\ repo = <<>> /\ files = {} /\ calls = <<>> /\ logChan = <<>>
         /\ ~closed /\ writer = "none" /\ written = {}
    /\ main \in {"walk", "wait"} =>
         built = <<>> /\ writer # "none" /\ \A p \in Packages : worker[p] = "done"
    /\ main = "ended" => \A p \in Packages : worker[p] = "done"
    /\ main \in {"walk", "wait"} => (closed <=> main = "wait")
    /\ closed => calls = <<>> /\ files = {} /\ repo = <<>>
    /\ writer = "done" => closed /\ logChan = <<>>
    /\ writer = "write" => pattern \in Sites

(* A compiled package is sent once.                                        *)
SentOnce ==
    /\ IsInjective(built) /\ IsInjective(repo)
    /\ \A p \in ToSet(built) : worker[p] \in {"exit", "done"}

(* Every log call is in one place, and only wanted ones in the pipe.       *)
OnePlace ==
    /\ IsInjective(calls) /\ IsInjective(logChan)
    /\ writer = "write" => pattern \notin ToSet(logChan)
    /\ \A p \in Packages : Ahead(p) =>
         SitesOf(p) \cap (InFiles \cup ToSet(calls) \cup InPipe \cup Handled) = {}
    /\ InFiles \cap (ToSet(calls) \cup InPipe \cup Handled) = {}
    /\ ToSet(calls) \cap (InPipe \cup Handled) = {}
    /\ InPipe \cap Handled = {}
    /\ \A s \in ToSet(calls) : Source[s] # Absent
    /\ InPipe \subseteq Wanted

(* No wanted call is in none.                                              *)
SomePlace ==
    main \in {"build", "walk", "wait"} =>
        \A s \in Wanted :
            \/ s \in Handled \cup InPipe \cup ToSet(calls) \cup InFiles
            \/ \E p \in Packages : Ahead(p) /\ s \in SitesOf(p)

IInv ==
    /\ TypeOK
    /\ Phases
    /\ SentOnce
    /\ OnePlace
    /\ SomePlace
---------------------------------------------------------------------------
(* The code base.                                                          *)

LEMMA FileSites ==
  ASSUME NEW p \in Packages, NEW f \in Files[p]
  PROVE  /\ f \in Seq(Sites) /\ IsInjective(f)
         /\ ToSet(f) \subseteq SitesOf(p)
<1>1. f \in Seq(Sites)
  BY FilesAssumption
<1>2. Len(f) \in Nat /\ DOMAIN f = 1 .. Len(f) /\ ToSet(f) = {f[i] : i \in 1 .. Len(f)}
  BY <1>1, ElementsType
<1>3. IsInjective(f)
  BY <1>2, PositionAssumption DEF IsInjective
<1> QED
  BY <1>1, <1>2, <1>3 DEF SitesOf

LEMMA PackageSites ==
  ASSUME NEW p \in Packages
  PROVE  /\ SitesOf(p) \subseteq {s \in Sites : Source[s] # Absent}
         /\ \A s \in SitesOf(p) : \E f \in Files[p] : s \in ToSet(f)
<1>1. SitesOf(p) \subseteq {s \in Sites : Source[s] # Absent}
  BY FilesAssumption
<1>2. ASSUME NEW s \in SitesOf(p)
      PROVE  \E f \in Files[p] : s \in ToSet(f)
  <2>1. PICK f \in Files[p] : s \in {f[i] : i \in 1 .. Len(f)}
    BY DEF SitesOf
  <2>2. f \in Seq(Sites)
    BY FilesAssumption
  <2> QED
    BY <2>1, <2>2, ElementsType
<1> QED
  BY <1>1, <1>2

LEMMA FilesApart ==
  ASSUME NEW p \in Packages, NEW q \in Packages, NEW f \in Files[p], NEW g \in Files[q],
         p # q \/ f # g
  PROVE  ToSet(f) \cap ToSet(g) = {}
<1>1. f \in Seq(Sites) /\ g \in Seq(Sites)
  BY FilesAssumption
<1>2. /\ ToSet(f) = {f[i] : i \in 1 .. Len(f)}
      /\ ToSet(g) = {g[i] : i \in 1 .. Len(g)}
  BY <1>1, ElementsType
<1> QED
  BY <1>2, PositionAssumption

LEMMA PackagesApart ==
  ASSUME NEW p \in Packages, NEW q \in Packages, p # q
  PROVE  SitesOf(p) \cap SitesOf(q) = {}
  BY PackageSites, FilesApart

---------------------------------------------------------------------------
(* Type correctness.                                                       *)

LEMMA TypeInit == Init => TypeOK
<1> SUFFICES ASSUME Init PROVE TypeOK
  OBVIOUS
<1>1. /\ built \in Seq(Packages) /\ Len(built) <= Cardinality(Packages)
      /\ logChan \in Seq(Sites) /\ Len(logChan) <= Capacity
  <2>1. Cardinality(Packages) \in Nat
    BY PackageAssumption, FS_CardinalityType
  <2> QED
    BY <2>1, CapacityAssumption DEF Init
<1> QED
  BY <1>1 DEF Init, TypeOK

LEMMA TypeStep == TypeOK /\ Phases /\ [Next]_vars => TypeOK'
<1> SUFFICES ASSUME TypeOK, Phases, [Next]_vars PROVE TypeOK'
  OBVIOUS
<1> USE DEF TypeOK
<1>1. ASSUME NEW r \in SUBSET Levels, Open(r) PROVE TypeOK'
  BY <1>1 DEF Open
<1>2. CASE WriteRule
  BY <1>2 DEF WriteRule
<1>3. CASE Collect
  BY <1>3, PackageAssumption, FS_CardinalityType DEF Collect
<1>4. CASE NextPackage
  <2>1. Head(repo) \in Packages /\ Tail(repo) \in Seq(Packages)
    BY <1>4 DEF NextPackage
  <2> QED
    BY <1>4, <2>1 DEF NextPackage
<1>5. ASSUME NEW f \in files, NextFile(f) PROVE TypeOK'
  <2>1. f \in Seq(Sites)
    BY FileSites
  <2> QED
    BY <1>5, <2>1 DEF NextFile
<1>6. CASE IgnoreCall
  <2>1. Tail(calls) \in Seq(Sites)
    BY <1>6 DEF IgnoreCall
  <2> QED
    BY <1>6, <2>1 DEF IgnoreCall
<1>7. CASE SendPattern
  <2>1. Tail(calls) \in Seq(Sites) /\ Head(calls) \in Sites
    BY <1>7 DEF SendPattern
  <2>2. /\ Append(logChan, Head(calls)) \in Seq(Sites)
        /\ Len(Append(logChan, Head(calls))) <= Capacity
    BY <1>7, <2>1, CapacityAssumption, AppendElement, ElementsType DEF SendPattern
  <2> QED
    BY <1>7, <2>1, <2>2 DEF SendPattern
<1>8. CASE MarkDone
  BY <1>8 DEF MarkDone
<1>9. CASE Return
  BY <1>9 DEF Return
<1>10. ASSUME NEW p \in Packages, Worker(p) PROVE TypeOK'
  <2>1. CASE CompileOK(p)
    BY <2>1 DEF CompileOK
  <2>2. CASE CompileFails(p)
    <3>1. SitesOf(p) \subseteq Sites
      BY PackageSites
    <3> QED
      BY <2>2, <3>1 DEF CompileFails
  <2>3. CASE CompilePanics(p)
    BY <2>3 DEF CompilePanics
  <2>4. CASE SendBuilt(p)
    <3>1. /\ Append(built, p) \in Seq(Packages)
          /\ Len(Append(built, p)) <= Cardinality(Packages)
      <4>1. Cardinality(Packages) \in Nat
        BY PackageAssumption, FS_CardinalityType
      <4> QED
        BY <2>4, <4>1, AppendElement, ElementsType DEF SendBuilt
    <3> QED
      BY <2>4, <3>1 DEF SendBuilt
  <2>5. CASE WorkerDone(p)
    BY <2>5 DEF WorkerDone
  <2> QED
    BY <1>10, <2>1, <2>2, <2>3, <2>4, <2>5 DEF Worker
<1>11. CASE Writer
  <2>1. CASE Receive
    <3>1. /\ Tail(logChan) \in Seq(Sites) /\ Head(logChan) \in Sites
          /\ Len(Tail(logChan)) <= Capacity
      BY <2>1, CapacityAssumption, TakeElement DEF Receive
    <3> QED
      BY <2>1, <3>1 DEF Receive
  <2>2. CASE Put
    <3>1. pattern \in Sites /\ Source[pattern] \in Levels \cup {Absent}
      BY <2>2, SourceAssumption DEF Put, Phases
    <3> QED
      BY <2>2, <3>1 DEF Put
  <2>3. CASE PutFails
    BY <2>3 DEF PutFails, Phases
  <2>4. CASE ReceiveClosed
    BY <2>4 DEF ReceiveClosed
  <2> QED
    BY <1>11, <2>1, <2>2, <2>3, <2>4 DEF Writer
<1>12. CASE Die
  BY <1>12 DEF Die
<1>13. CASE UNCHANGED vars
  BY <1>13 DEF vars
<1> QED
  BY <1>1, <1>2, <1>3, <1>4, <1>5, <1>6, <1>7, <1>8, <1>9, <1>10, <1>11, <1>12, <1>13
     DEF Next, Main, Terminated

---------------------------------------------------------------------------
(* The phases, and that a package is sent once.                            *)

LEMMA PhasesInit == Init => Phases /\ SentOnce /\ OnePlace /\ SomePlace
<1> SUFFICES ASSUME Init PROVE Phases /\ SentOnce /\ OnePlace /\ SomePlace
  OBVIOUS
<1>1. /\ InFiles = {} /\ InPipe = {} /\ Handled = {}
      /\ ToSet(calls) = {} /\ ToSet(built) = {}
      /\ IsInjective(built) /\ IsInjective(repo)
      /\ IsInjective(calls) /\ IsInjective(logChan)
  BY ElementsEmpty DEF Init, InFiles, InPipe, Handled
<1> QED
  BY <1>1 DEF Init, Phases, SentOnce, OnePlace, SomePlace

LEMMA PhasesStep == TypeOK /\ Phases /\ [Next]_vars => Phases'
<1> SUFFICES ASSUME TypeOK, Phases, [Next]_vars PROVE Phases'
  OBVIOUS
<1> USE DEF Phases, TypeOK
<1>1. ASSUME NEW r \in SUBSET Levels, Open(r) PROVE Phases'
  BY <1>1 DEF Open
<1>2. CASE WriteRule
  BY <1>2 DEF WriteRule
<1>3. CASE Collect
  BY <1>3 DEF Collect
<1>4. CASE NextPackage
  BY <1>4 DEF NextPackage
<1>5. ASSUME NEW f \in files, NextFile(f) PROVE Phases'
  BY <1>5 DEF NextFile
<1>6. CASE IgnoreCall
  BY <1>6 DEF IgnoreCall
<1>7. CASE SendPattern
  BY <1>7 DEF SendPattern
<1>8. CASE MarkDone
  BY <1>8 DEF MarkDone
<1>9. CASE Return
  BY <1>9 DEF Return
<1>10. ASSUME NEW p \in Packages, Worker(p) PROVE Phases'
  <2>1. CASE CompileOK(p)
    BY <2>1 DEF CompileOK
  <2>2. CASE CompileFails(p)
    BY <2>2 DEF CompileFails
  <2>3. CASE CompilePanics(p)
    BY <2>3 DEF CompilePanics
  <2>4. CASE SendBuilt(p)
    BY <2>4 DEF SendBuilt, Running
  <2>5. CASE WorkerDone(p)
    BY <2>5 DEF WorkerDone, Running
  <2> QED
    BY <1>10, <2>1, <2>2, <2>3, <2>4, <2>5 DEF Worker
<1>11. CASE Writer
  <2>1. CASE Receive
    BY <2>1, TakeElement DEF Receive, Running
  <2>2. CASE Put
    BY <2>2 DEF Put, Running
  <2>3. CASE PutFails
    BY <2>3 DEF PutFails, Running
  <2>4. CASE ReceiveClosed
    BY <2>4 DEF ReceiveClosed, Running
  <2> QED
    BY <1>11, <2>1, <2>2, <2>3, <2>4 DEF Writer
<1>12. CASE Die
  BY <1>12 DEF Die
<1>13. CASE UNCHANGED vars
  BY <1>13 DEF vars
<1> QED
  BY <1>1, <1>2, <1>3, <1>4, <1>5, <1>6, <1>7, <1>8, <1>9, <1>10, <1>11, <1>12, <1>13
     DEF Next, Main, Terminated

LEMMA SentOnceStep == TypeOK /\ Phases /\ SentOnce /\ [Next]_vars => SentOnce'
<1> SUFFICES ASSUME TypeOK, Phases, SentOnce, [Next]_vars PROVE SentOnce'
  OBVIOUS
<1> USE DEF SentOnce, TypeOK
<1>1. CASE Collect
  BY <1>1, ElementsEmpty DEF Collect
<1>2. CASE NextPackage
  BY <1>2, TakeElement DEF NextPackage
<1>3. ASSUME NEW p \in Packages, Worker(p) PROVE SentOnce'
  <2>1. CASE CompileOK(p)
    BY <2>1, ElementsType DEF CompileOK
  <2>2. CASE CompileFails(p)
    BY <2>2, ElementsType DEF CompileFails
  <2>3. CASE CompilePanics(p)
    BY <2>3 DEF CompilePanics
  <2>4. CASE SendBuilt(p)
    <3>1. /\ ToSet(Append(built, p)) = ToSet(built) \cup {p} /\ p \notin ToSet(built)
          /\ ToSet(built) \subseteq Packages
      BY <2>4, AppendElement, ElementsType DEF SendBuilt
    <3>2. IsInjective(Append(built, p))
      BY <3>1, AppendElement
    <3> QED
      BY <2>4, <3>1, <3>2 DEF SendBuilt
  <2>5. CASE WorkerDone(p)
    BY <2>5, ElementsType DEF WorkerDone
  <2> QED
    BY <1>3, <2>1, <2>2, <2>3, <2>4, <2>5 DEF Worker
<1>4. ASSUME UNCHANGED <<built, repo, worker>> PROVE SentOnce'
  BY <1>4
<1>5. ASSUME NEW r \in SUBSET Levels, Open(r) PROVE UNCHANGED <<built, repo, worker>>
  BY <1>5 DEF Open
<1>6. ASSUME NEW f \in files, NextFile(f) PROVE UNCHANGED <<built, repo, worker>>
  BY <1>6 DEF NextFile
<1>7. ASSUME WriteRule \/ IgnoreCall \/ SendPattern \/ MarkDone \/ Return
      PROVE  UNCHANGED <<built, repo, worker>>
  BY <1>7 DEF WriteRule, IgnoreCall, SendPattern, MarkDone, Return
<1>8. ASSUME Writer \/ Die \/ UNCHANGED vars PROVE UNCHANGED <<built, repo, worker>>
  BY <1>8 DEF Writer, Receive, Put, PutFails, ReceiveClosed, Die, vars
<1> QED
  BY <1>1, <1>2, <1>3, <1>4, <1>5, <1>6, <1>7, <1>8 DEF Next, Main, Terminated

---------------------------------------------------------------------------
(* Every wanted call is in one place.                                      *)

(* What waits in files are calls of packages.                              *)
LEMMA InFilesSites ==
  ASSUME TypeOK
  PROVE  InFiles \subseteq {s \in Sites : Source[s] # Absent}
<1> SUFFICES ASSUME NEW f \in files
             PROVE  ToSet(f) \subseteq {s \in Sites : Source[s] # Absent}
  BY DEF InFiles
<1>1. PICK p \in Packages : f \in Files[p]
  BY DEF TypeOK
<1> QED
  BY <1>1, FileSites, PackageSites

(* A step that moves nothing but, at most, wanted calls of the pipe to     *)
(* what is handled.                                                        *)
LEMMA PlacesQuiet ==
  ASSUME OnePlace, SomePlace,
         UNCHANGED <<files, calls, logChan, wanted, InPipe, Handled>>,
         writer' = "write" => writer = "write" /\ pattern' = pattern,
         main' \in {"build", "walk", "wait"} => main \in {"build", "walk", "wait"},
         \A p \in Packages : Ahead(p)' => Ahead(p),
         main' \in {"build", "walk", "wait"} =>
             \A p \in Packages : Ahead(p) => Ahead(p)'
  PROVE  OnePlace' /\ SomePlace'
<1>1. InFiles' = InFiles /\ Wanted' = Wanted
  BY DEF InFiles, Wanted, Matches
<1> QED
  BY <1>1 DEF OnePlace, SomePlace

LEMMA PlacesOpen ==
  ASSUME TypeOK, Phases, OnePlace, SomePlace, NEW r \in SUBSET Levels, Open(r)
  PROVE  OnePlace' /\ SomePlace'
<1>1. UNCHANGED <<InFiles, Handled>> /\ \A p \in Packages : Ahead(p)' = Ahead(p)
  BY DEF Open, InFiles, Handled, Ahead
<1>2. UNCHANGED InPipe /\ InPipe = {}
  BY ElementsEmpty DEF Open, InPipe, Phases
<1>3. main' = "rule" /\ UNCHANGED <<calls, logChan, writer, pattern>>
  BY DEF Open
<1>4. SomePlace'
  BY <1>3 DEF SomePlace
<1> QED
  BY <1>1, <1>2, <1>3, <1>4 DEF OnePlace

(* When the rule is written all calls are in packages to be compiled.      *)
LEMMA PlacesWriteRule ==
  ASSUME TypeOK, Phases, OnePlace, SomePlace, WriteRule
  PROVE  OnePlace' /\ SomePlace'
<1>1. /\ UNCHANGED <<files, calls, logChan, wanted, writer, pattern>>
      /\ \A p \in Packages : worker[p] = "compile"
      /\ UNCHANGED <<built, repo, worker, written, lost>>
  BY DEF WriteRule, Phases
<1>2. UNCHANGED <<InPipe, InFiles, Handled, Wanted>>
  BY <1>1 DEF InFiles, InPipe, Handled, Wanted, Matches
<1>3. \A p \in Packages : Ahead(p)' = Ahead(p) /\ Ahead(p)
  BY <1>1 DEF Ahead
<1>4. \A s \in Wanted : \E p \in Packages : s \in SitesOf(p)
  BY FilesAssumption DEF Wanted
<1>5. OnePlace'
  BY <1>1, <1>2, <1>3 DEF OnePlace
<1>6. SomePlace'
  BY <1>2, <1>3, <1>4 DEF SomePlace
<1> QED
  BY <1>5, <1>6

LEMMA PlacesCollect ==
  ASSUME TypeOK, Phases, OnePlace, SomePlace, Collect
  PROVE  OnePlace' /\ SomePlace'
<1>1. /\ InPipe' = InPipe /\ Handled' = Handled
      /\ \A p \in Packages : Ahead(p)' = Ahead(p)
  BY ElementsEmpty DEF Collect, InPipe, Handled, Ahead, Phases
<1> QED
  BY <1>1, PlacesQuiet DEF Collect

LEMMA PlacesNextPackage ==
  ASSUME TypeOK, Phases, SentOnce, OnePlace, SomePlace, NextPackage
  PROVE  OnePlace' /\ SomePlace'
<1>1. PICK h \in Packages :
        /\ h = Head(repo) /\ h \notin ToSet(Tail(repo))
        /\ ToSet(repo) = ToSet(Tail(repo)) \cup {h}
  BY TakeElement DEF NextPackage, TypeOK, SentOnce
<1>2. /\ UNCHANGED <<main, calls, logChan, wanted, writer, pattern, InPipe, Handled, Wanted>>
      /\ InFiles = {} /\ ToSet(calls) = {} /\ calls = <<>>
  BY ElementsEmpty DEF NextPackage, InFiles, InPipe, Handled, Wanted, Matches
<1>3. InFiles' = SitesOf(h)
  <2>1. InFiles' = UNION {ToSet(f) : f \in Files[h]}
    BY <1>1 DEF NextPackage, InFiles
  <2> QED
    BY <1>1, <2>1, FileSites, PackageSites
<1>4. /\ Ahead(h) /\ ~Ahead(h)'
      /\ \A p \in Packages \ {h} : Ahead(p)' = Ahead(p)
  <2>1. /\ built = <<>> /\ \A p \in Packages : worker[p] = "done"
        /\ UNCHANGED <<worker, built>> /\ repo' = Tail(repo)
    BY DEF NextPackage, Phases
  <2>2. ToSet(built) = {} /\ ToSet(built)' = {} /\ ToSet(repo)' = ToSet(Tail(repo))
    BY <2>1, ElementsEmpty
  <2>3. Ahead(h)
    BY <1>1 DEF Ahead
  <2>4. ~Ahead(h)'
    BY <1>1, <2>1, <2>2 DEF Ahead
  <2>5. ASSUME NEW p \in Packages \ {h} PROVE Ahead(p)' = Ahead(p)
    BY <1>1, <2>1, <2>2 DEF Ahead
  <2> QED
    BY <2>3, <2>4, <2>5
<1>5. \A p \in Packages \ {h} : SitesOf(p) \cap SitesOf(h) = {}
  BY <1>1, PackagesApart
<1>6. OnePlace'
  <2>1. ToSet(calls)' = {} /\ IsInjective(calls')
    BY <1>2, ElementsEmpty
  <2>2. SitesOf(h) \cap (InPipe \cup Handled) = {}
    BY <1>1, <1>4 DEF OnePlace
  <2>3. ASSUME NEW p \in Packages, Ahead(p)'
        PROVE  SitesOf(p) \cap (SitesOf(h) \cup InPipe \cup Handled) = {}
    BY <1>4, <1>5, <2>3 DEF OnePlace
  <2> QED
    BY <1>2, <1>3, <2>1, <2>2, <2>3 DEF OnePlace
<1>7. SomePlace'
  BY <1>2, <1>3, <1>4, <1>5 DEF SomePlace
<1> QED
  BY <1>6, <1>7

LEMMA PlacesNextFile ==
  ASSUME TypeOK, Phases, OnePlace, SomePlace, NEW f \in files, NextFile(f)
  PROVE  OnePlace' /\ SomePlace'
<1>1. PICK q \in Packages : f \in Files[q]
  BY DEF TypeOK
<1>2. /\ UNCHANGED <<main, logChan, wanted, writer, pattern, InPipe, Handled, Wanted>>
      /\ calls = <<>> /\ calls' = f /\ files' = files \ {f}
      /\ \A p \in Packages : Ahead(p)' = Ahead(p)
  BY DEF NextFile, InPipe, Handled, Wanted, Matches, Ahead
<1>3. ToSet(calls) = {} /\ ToSet(calls)' = ToSet(f)
  BY <1>2, ElementsEmpty
<1>4. InFiles = InFiles' \cup ToSet(f) /\ InFiles' \cap ToSet(f) = {}
  <2>1. ASSUME NEW g \in files \ {f}
        PROVE  ToSet(g) \cap ToSet(f) = {}
    <3>1. PICK p \in Packages : g \in Files[p]
      BY DEF TypeOK
    <3> QED
      BY <1>1, <3>1, FilesApart
  <2> QED
    BY <1>2, <2>1 DEF InFiles
<1>5. IsInjective(f) /\ \A s \in ToSet(f) : Source[s] # Absent
  BY <1>1, FileSites, PackageSites
<1> QED
  BY <1>2, <1>3, <1>4, <1>5 DEF OnePlace, SomePlace

(* The next call of the file, what both steps on it use.                   *)
LEMMA NextCall ==
  ASSUME TypeOK, OnePlace, calls # <<>>
  PROVE  /\ ToSet(calls) = ToSet(Tail(calls)) \cup {Head(calls)}
         /\ Head(calls) \notin ToSet(Tail(calls)) /\ IsInjective(Tail(calls))
         /\ Head(calls) \in Sites /\ Source[Head(calls)] # Absent
         /\ Head(calls) \in Wanted <=> Matches(Source[Head(calls)])
  BY TakeElement DEF TypeOK, OnePlace, Wanted

LEMMA PlacesIgnoreCall ==
  ASSUME TypeOK, Phases, OnePlace, SomePlace, IgnoreCall
  PROVE  OnePlace' /\ SomePlace'
<1>1. /\ UNCHANGED <<main, logChan, wanted, writer, pattern, InPipe, InFiles, Handled, Wanted>>
      /\ calls' = Tail(calls)
      /\ \A p \in Packages : Ahead(p)' = Ahead(p)
  BY DEF IgnoreCall, InPipe, InFiles, Handled, Wanted, Matches, Ahead
<1>2. Head(calls) \notin Wanted
  BY NextCall DEF IgnoreCall
<1> QED
  BY <1>1, <1>2, NextCall DEF IgnoreCall, OnePlace, SomePlace

LEMMA PlacesSendPattern ==
  ASSUME TypeOK, Phases, OnePlace, SomePlace, SendPattern
  PROVE  OnePlace' /\ SomePlace'
<1> DEFINE c == Head(calls)
<1>1. /\ UNCHANGED <<main, wanted, writer, pattern, InFiles, Handled, Wanted>>
      /\ calls' = Tail(calls) /\ logChan' = Append(logChan, c)
      /\ \A p \in Packages : Ahead(p)' = Ahead(p)
  BY DEF SendPattern, InFiles, Handled, Wanted, Matches, Ahead
<1>2. /\ c \in Wanted /\ c \in Sites
      /\ ToSet(calls) = ToSet(calls)' \cup {c} /\ c \notin ToSet(calls)'
      /\ IsInjective(calls)'
  BY <1>1, NextCall DEF SendPattern
<1> HIDE DEF c
<1>3. c \notin InPipe
  BY <1>2 DEF OnePlace
<1>4. ToSet(logChan)' = ToSet(logChan) \cup {c} /\ IsInjective(logChan)'
  BY <1>1, <1>2, <1>3, AppendElement DEF TypeOK, OnePlace, InPipe
<1>5. InPipe' = InPipe \cup {c}
  BY <1>1, <1>4 DEF InPipe
<1>6. writer' = "write" => pattern' \notin ToSet(logChan)'
  BY <1>1, <1>3, <1>4 DEF OnePlace, InPipe
<1> QED
  BY <1>1, <1>2, <1>4, <1>5, <1>6 DEF OnePlace, SomePlace

(* Steps that leave every call where it is.                                *)
LEMMA PlacesStill ==
  ASSUME TypeOK, Phases, OnePlace, SomePlace,
         \/ MarkDone \/ Return \/ ReceiveClosed \/ Die \/ UNCHANGED vars
         \/ \E p \in Packages : CompilePanics(p)
  PROVE  OnePlace' /\ SomePlace'
<1>1. /\ UNCHANGED <<files, calls, logChan, wanted, written, lost, pattern, worker,
                     built, repo>>
      /\ writer' = "write" <=> writer = "write"
      /\ main' \in {"build", "walk", "wait"} => main \in {"build", "walk", "wait"}
  BY DEF MarkDone, Return, ReceiveClosed, Die, CompilePanics, vars
<1>2. UNCHANGED <<InPipe, Handled>>
  BY <1>1 DEF InPipe, Handled
<1>3. \A p \in Packages : Ahead(p)' <=> Ahead(p)
  BY <1>1 DEF Ahead
<1> QED
  BY <1>1, <1>2, <1>3, PlacesQuiet

LEMMA PlacesWorker ==
  ASSUME TypeOK, SentOnce, OnePlace, SomePlace, NEW p \in Packages,
         CompileOK(p) \/ SendBuilt(p) \/ WorkerDone(p)
  PROVE  OnePlace' /\ SomePlace'
<1>1. /\ UNCHANGED <<files, calls, logChan, wanted, written, lost, pattern, writer, repo,
                     main>>
      /\ worker \in [Packages -> {"compile", "send", "exit", "done"}]
  BY DEF CompileOK, SendBuilt, WorkerDone, TypeOK
<1>2. UNCHANGED <<InPipe, Handled>>
  BY <1>1 DEF InPipe, Handled
<1>3. ASSUME NEW q \in Packages PROVE Ahead(q)' <=> Ahead(q)
  <2>1. CASE CompileOK(p)
    BY <1>1, <2>1 DEF CompileOK, Ahead
  <2>2. CASE SendBuilt(p)
    <3>1. ToSet(built)' = ToSet(built) \cup {p}
      BY <2>2, AppendElement DEF SendBuilt, TypeOK
    <3> QED
      BY <1>1, <2>2, <3>1 DEF SendBuilt, Ahead
  <2>3. CASE WorkerDone(p)
    BY <1>1, <2>3 DEF WorkerDone, Ahead
  <2> QED
    BY <2>1, <2>2, <2>3
<1> QED
  BY <1>1, <1>2, <1>3, PlacesQuiet

(* The wanted calls of a package that does not compile are given up.       *)
LEMMA PlacesCompileFails ==
  ASSUME TypeOK, Phases, SentOnce, OnePlace, SomePlace, NEW p \in Packages,
         CompileFails(p)
  PROVE  OnePlace' /\ SomePlace'
<1> DEFINE M == {s \in SitesOf(p) : Matches(Source[s])}
<1>1. /\ UNCHANGED <<files, calls, logChan, wanted, pattern, writer, main>>
      /\ \A q \in Packages \ {p} : worker'[q] = worker[q]
      /\ worker[p] = "compile" /\ worker'[p] = "exit"
      /\ UNCHANGED <<built, repo>> /\ repo = <<>> /\ p \notin ToSet(built)
  BY DEF CompileFails, TypeOK, Phases, SentOnce
<1>2. UNCHANGED <<InFiles, InPipe, Wanted>>
  BY <1>1 DEF InFiles, InPipe, Wanted, Matches
<1>3. Handled' = Handled \cup M
  BY DEF CompileFails, Handled
<1>4. /\ Ahead(p) /\ ~Ahead(p)'
      /\ \A q \in Packages \ {p} : Ahead(q)' <=> Ahead(q)
  BY <1>1, ElementsEmpty DEF Ahead
<1>5. \A s \in SitesOf(p) : s \in Wanted <=> s \in M
  BY PackageSites DEF Wanted
<1>6. M \subseteq SitesOf(p)
  OBVIOUS
<1> HIDE DEF M
<1>7. OnePlace'
  <2>1. SitesOf(p) \cap (InFiles \cup ToSet(calls) \cup InPipe \cup Handled) = {}
    BY <1>4 DEF OnePlace
  <2>2. ASSUME NEW q \in Packages, Ahead(q)'
        PROVE  SitesOf(q) \cap (InFiles \cup ToSet(calls) \cup InPipe \cup Handled \cup M) = {}
    <3>1. q # p /\ Ahead(q)
      BY <1>4, <2>2
    <3>2. SitesOf(q) \cap SitesOf(p) = {}
      BY <3>1, PackagesApart
    <3> QED
      BY <1>6, <3>1, <3>2 DEF OnePlace
  <2> QED
    BY <1>1, <1>2, <1>3, <1>6, <2>1, <2>2 DEF OnePlace
<1>8. SomePlace'
  BY <1>1, <1>2, <1>3, <1>4, <1>5 DEF SomePlace
<1> QED
  BY <1>7, <1>8

LEMMA PlacesReceive ==
  ASSUME TypeOK, OnePlace, SomePlace, Receive
  PROVE  OnePlace' /\ SomePlace'
<1>1. /\ UNCHANGED <<files, calls, wanted, written, lost, worker, built, repo, main>>
      /\ writer = "receive" /\ writer' = "write" /\ pattern' = Head(logChan)
      /\ logChan' = Tail(logChan)
  BY DEF Receive
<1>2. UNCHANGED <<InFiles, Handled, Wanted>> /\ \A p \in Packages : Ahead(p)' <=> Ahead(p)
  BY <1>1 DEF InFiles, Handled, Wanted, Matches, Ahead
<1>3. /\ ToSet(logChan) = ToSet(logChan)' \cup {pattern'}
      /\ pattern' \notin ToSet(logChan)' /\ IsInjective(logChan)'
  BY <1>1, TakeElement DEF Receive, TypeOK, OnePlace
<1>4. InPipe' = InPipe
  BY <1>1, <1>3 DEF InPipe
<1> QED
  BY <1>1, <1>2, <1>3, <1>4 DEF OnePlace, SomePlace

(* A pattern is written, or it is given up with a message.                 *)
LEMMA PlacesPut ==
  ASSUME TypeOK, OnePlace, SomePlace, Put \/ PutFails
  PROVE  OnePlace' /\ SomePlace'
<1>1. /\ UNCHANGED <<files, calls, logChan, wanted, worker, built, repo, main, pattern>>
      /\ writer = "write" /\ writer' = "receive"
      /\ written' \cup lost' = written \cup lost \cup {pattern}
  BY DEF Put, PutFails
<1>2. UNCHANGED <<InFiles, Wanted>> /\ \A p \in Packages : Ahead(p)' <=> Ahead(p)
  BY <1>1 DEF InFiles, Wanted, Matches, Ahead
<1>3. /\ InPipe = InPipe' \cup {pattern} /\ pattern \notin InPipe'
      /\ Handled' = Handled \cup {pattern}
  BY <1>1 DEF InPipe, Handled, OnePlace
<1> QED
  BY <1>1, <1>2, <1>3 DEF OnePlace, SomePlace

LEMMA PlacesStep ==
  TypeOK /\ Phases /\ SentOnce /\ OnePlace /\ SomePlace /\ [Next]_vars
      => OnePlace' /\ SomePlace'
<1> SUFFICES ASSUME TypeOK, Phases, SentOnce, OnePlace, SomePlace, [Next]_vars
             PROVE  OnePlace' /\ SomePlace'
  OBVIOUS
<1>1. ASSUME NEW r \in SUBSET Levels, Open(r) PROVE OnePlace' /\ SomePlace'
  BY <1>1, PlacesOpen
<1>2. ASSUME NEW f \in files, NextFile(f) PROVE OnePlace' /\ SomePlace'
  BY <1>2, PlacesNextFile
<1>3. CASE \/ WriteRule \/ Collect \/ NextPackage \/ IgnoreCall \/ SendPattern
  BY <1>3, PlacesWriteRule, PlacesCollect, PlacesNextPackage, PlacesIgnoreCall,
     PlacesSendPattern
<1>4. ASSUME NEW p \in Packages, Worker(p) PROVE OnePlace' /\ SomePlace'
  BY <1>4, PlacesWorker, PlacesCompileFails, PlacesStill DEF Worker
<1>5. CASE Writer
  BY <1>5, PlacesReceive, PlacesPut, PlacesStill DEF Writer
<1>6. CASE MarkDone \/ Return \/ Die \/ UNCHANGED vars
  BY <1>6, PlacesStill
<1> QED
  BY <1>1, <1>2, <1>3, <1>4, <1>5, <1>6 DEF Next, Main, Terminated

---------------------------------------------------------------------------
(* The theorems on types and channels.                                     *)

(* The inductive invariant holds in every reachable state.                 *)
THEOREM Invariance == Spec => []IInv
<1>1. Init => IInv
  BY TypeInit, PhasesInit DEF IInv
<1>2. IInv /\ [Next]_vars => IInv'
  BY TypeStep, PhasesStep, SentOnceStep, PlacesStep DEF IInv
<1> QED
  BY <1>1, <1>2, PTL DEF Spec

(* Every variable keeps its type; neither the channel of packages nor the  *)
(* channel of patterns (SetupOutput) ever holds more than it has room for. *)
THEOREM TypeCorrect == Spec => []TypeOK
<1>1. IInv => TypeOK
  BY DEF IInv
<1> QED
  BY <1>1, Invariance, PTL

(* No goroutine that may send is left when a channel is closed, and those  *)
(* of Build have room for what they send: each sends its package once.     *)
THEOREM ChannelsSafe == Spec => []NoSendOnClosed
<1>1. IInv => NoSendOnClosed
  <2> SUFFICES ASSUME IInv PROVE NoSendOnClosed
    OBVIOUS
  <2>1. /\ main \in {"walk", "wait", "ended"} => \A p \in Packages : worker[p] = "done"
        /\ closed => calls = <<>> /\ files = {} /\ repo = <<>>
    BY DEF IInv, Phases
  <2>2. ASSUME NEW p \in Packages, worker[p] = "send"
        PROVE  Len(built) < Cardinality(Packages)
    <3>1. p \notin ToSet(built) /\ IsInjective(built) /\ built \in Seq(Packages)
      BY <2>2 DEF IInv, SentOnce, TypeOK
    <3> QED
      BY <3>1, InjectiveShort, PackageAssumption
  <2> QED
    BY <2>1, <2>2 DEF NoSendOnClosed
<1> QED
  BY <1>1, Invariance, PTL

---------------------------------------------------------------------------
(* The goroutines implement the extract session of StoreLifecycle.         *)

(* A step that neither writes nor gives up anything.                       *)
LEMMA SessionStutter ==
  ASSUME UNCHANGED <<rule, patterns, wanted, written, lost>>,
         \/ main' = main
         \/ {main, main'} \subseteq {"build", "walk", "wait"}
  PROVE  UNCHANGED Session!vars
<1>1. UNCHANGED Wanted
  BY DEF Wanted, Matches
<1> QED
  BY <1>1 DEF Session!vars, Session!store

(* Giving up some of what is left to write.                                *)
LEMMA SessionSkip ==
  ASSUME NEW M, M \subseteq Wanted, M \cap Handled = {},
         main \in {"build", "walk", "wait"}, lost' = lost \cup M,
         UNCHANGED <<main, rule, patterns, wanted, written>>
  PROVE  [Session!Next]_(Session!vars)
<1>1. UNCHANGED Wanted
  BY DEF Wanted, Matches
<1> DEFINE L == Wanted \ (written \cup lost)
<1>2. M \in SUBSET L /\ L' = L \ M
  BY <1>1 DEF Handled
<1>3. CASE M = {}
  BY <1>1, <1>3 DEF Session!vars, Session!store
<1>4. CASE M # {}
  <2>1. Session!Skip(M)
    BY <1>2, <1>4 DEF Session!Skip, Session!store
  <2> QED
    BY <1>2, <2>1 DEF Session!Next
<1> QED
  BY <1>3, <1>4

LEMMA SessionDies ==
  ASSUME main \in {"rule", "build", "walk", "wait"}, main' \in {"panicked", "died"},
         UNCHANGED storeVars
  PROVE  [Session!Next]_(Session!vars)
  BY DEF Session!Next, Session!Die, Session!store

(* When done.Wait returns, every pattern has been written or given up.     *)
LEMMA NothingLeft ==
  ASSUME IInv, Return
  PROVE  Wanted \subseteq Handled
<1>1. /\ calls = <<>> /\ files = {} /\ repo = <<>> /\ logChan = <<>> /\ built = <<>>
      /\ \A p \in Packages : worker[p] = "done"
      /\ writer = "done" /\ main = "wait"
  BY DEF IInv, Phases, Return
<1>2. InFiles = {} /\ InPipe = {} /\ ToSet(calls) = {} /\ \A p \in Packages : ~Ahead(p)
  BY <1>1, ElementsEmpty DEF InFiles, InPipe, Ahead
<1> QED
  BY <1>1, <1>2 DEF IInv, SomePlace

LEMMA SessionStep == IInv /\ [Next]_vars => [Session!Next]_(Session!vars)
<1> SUFFICES ASSUME IInv, [Next]_vars PROVE [Session!Next]_(Session!vars)
  OBVIOUS
<1>1. ASSUME NEW r \in SUBSET Levels, Open(r) PROVE [Session!Next]_(Session!vars)
  <2>1. lost = {} /\ main = "open"
    BY <1>1 DEF Open, IInv, Phases
  <2>2. Session!StartExtract(r)
    BY <1>1, <2>1 DEF Open, Session!StartExtract, Session!store
  <2> QED
    BY <2>2 DEF Session!Next, Session!Rules
<1>2. CASE WriteRule
  <2>1. written = {} /\ lost = {}
    BY <1>2 DEF WriteRule, IInv, Phases
  <2>2. Wanted' = {s \in Session!Present(Source) : Session!Matches(wanted, Source[s])}
    BY <1>2 DEF WriteRule, Wanted, Matches, Session!Present, Session!Matches
  <2>3. Session!WriteRule
    BY <1>2, <2>1, <2>2 DEF WriteRule, Session!WriteRule
  <2> QED
    BY <2>3 DEF Session!Next
<1>3. CASE Collect
  BY <1>3, SessionStutter DEF Collect
<1>4. CASE NextPackage \/ IgnoreCall \/ SendPattern \/ MarkDone
  BY <1>4, SessionStutter DEF NextPackage, IgnoreCall, SendPattern, MarkDone
<1>5. ASSUME NEW f \in files, NextFile(f) PROVE [Session!Next]_(Session!vars)
  BY <1>5, SessionStutter DEF NextFile
<1>6. CASE Return
  <2>1. Wanted \subseteq written \cup lost
    BY <1>6, NothingLeft DEF Handled
  <2>2. Session!EndExtract
    BY <1>6, <2>1 DEF Return, Session!EndExtract, Session!store
  <2> QED
    BY <2>2 DEF Session!Next
<1>7. ASSUME NEW p \in Packages, Worker(p) PROVE [Session!Next]_(Session!vars)
  <2>1. CASE CompileOK(p) \/ SendBuilt(p) \/ WorkerDone(p)
    BY <2>1, SessionStutter DEF CompileOK, SendBuilt, WorkerDone
  <2>2. CASE CompilePanics(p)
    BY <2>2, SessionDies DEF CompilePanics
  <2>3. CASE CompileFails(p)
    <3> DEFINE M == {s \in SitesOf(p) : Matches(Source[s])}
    <3>1. M \subseteq Wanted
      BY PackageSites DEF Wanted
    <3>2. M \cap Handled = {}
      BY <2>3 DEF CompileFails, IInv, OnePlace, Ahead
    <3>3. /\ lost' = lost \cup M /\ main = "build"
          /\ UNCHANGED <<main, rule, patterns, wanted, written>>
      BY <2>3 DEF CompileFails
    <3> HIDE DEF M
    <3> QED
      BY <3>1, <3>2, <3>3, SessionSkip
  <2> QED
    BY <1>7, <2>1, <2>2, <2>3 DEF Worker
<1>8. CASE Receive \/ ReceiveClosed
  BY <1>8, SessionStutter DEF Receive, ReceiveClosed
<1>9. CASE Put \/ PutFails
  <2>1. main \in {"walk", "wait"}
    BY <1>9 DEF Put, PutFails, Running, IInv, Phases, TypeOK
  <2>2. pattern \in Wanted /\ pattern \notin Handled /\ pattern \in Sites
    BY <1>9 DEF Put, PutFails, IInv, OnePlace, InPipe, Wanted
  <2>3. CASE PutFails
    <3>1. {pattern} \subseteq Wanted /\ {pattern} \cap Handled = {}
      BY <2>2
    <3>2. lost' = lost \cup {pattern} /\ UNCHANGED <<main, rule, patterns, wanted, written>>
      BY <2>3 DEF PutFails
    <3> QED
      BY <2>1, <3>1, <3>2, SessionSkip
  <2>4. CASE Put
    <3>1. UNCHANGED Wanted
      BY <2>4 DEF Put, Wanted, Matches
    <3>2. pattern \in Wanted \ (written \cup lost)
      BY <2>2 DEF Handled
    <3>3. Session!WritePattern(pattern)
      BY <2>1, <2>4, <3>1, <3>2 DEF Put, Session!WritePattern
    <3> QED
      BY <2>2, <3>3 DEF Session!Next
  <2> QED
    BY <1>9, <2>3, <2>4
<1>10. CASE Die
  <2>1. main \in {"rule", "build", "walk", "wait"}
    BY <1>10 DEF Die, Running, IInv, TypeOK
  <2> QED
    BY <1>10, <2>1, SessionDies DEF Die
<1>11. CASE UNCHANGED vars
  BY <1>11, SessionStutter DEF vars
<1> QED
  BY <1>1, <1>2, <1>3, <1>4, <1>5, <1>6, <1>7, <1>8, <1>9, <1>10, <1>11
     DEF Next, Main, Writer, Terminated

(* Every step of the goroutines of an extract is a step of the session     *)
(* that StoreLifecycle has, or leaves it as it is: the rule is written     *)
(* before any pattern, only calls of this code that the rule wants are     *)
(* written, none twice, and extract returns only when all of them are      *)
(* written or were given up with a message.                                *)
THEOREM SessionRefinement == Spec => RefinesSession
  BY SessionStep, Invariance, PTL DEF Spec, RefinesSession
===========================================================================
