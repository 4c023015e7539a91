------------------------- MODULE PackageCacheProofs -------------------------
(***************************************************************************)
(* Proofs about PackageCache, for any packages, listings, imports and      *)
(* faults: types, what the cache shares, what each package's outcome       *)
(* depends on, and that the build is the one of ExtractPipeline.           *)
(***************************************************************************)
EXTENDS PackageCache, SequenceLemmas

---------------------------------------------------------------------------
(* The inductive invariant.                                                *)

InRepo(p) == p \in PathsIn(built) \cup PathsIn(repo)
Imported(q) == \E r \in Packages : q \in PathsIn(Imports[r])

Own(p) == PathsIn(Listing[p]) \ TestPaths
Needs(p) == PathsIn(Imports[p]) \ {"unsafe"}

(* An import that loads.                                                   *)
Loads(q) ==
    /\ ~Fault("no object", q) /\ ~Fault("object", q)
    /\ q \in TestPaths => ~Fault("import", q)

(* What the goroutine has got done when it lists its package, ...          *)
Caching(p) ==
    /\ ~Fault("list", p) /\ PathsIn(todo[p]) \subseteq PathsIn(Listing[p])
    /\ \A q \in Own(p) :
         q \in PathsIn(todo[p]) \/ (q \in DOMAIN cache /\ ~Fault("error", q))

(* ... when it loads what the package imports, ...                         *)
Loading(p) ==
    /\ ~Fault("list", p)
    /\ \A q \in Own(p) : q \in DOMAIN cache /\ ~Fault("error", q)
    /\ unit[p] = GetCompliant(p) /\ data[GetCompliant(p)].sources = SourceFiles(p)
    /\ PathsIn(todo[p]) \subseteq PathsIn(Imports[p])
    /\ \A q \in Needs(p) : q \in PathsIn(todo[p]) \cup missing[p] \/ Loads(q)
    /\ \A q \in missing[p] : q \in Needs(p) /\ ~Loads(q)
    /\ p \in TestPaths => Imported(p)

(* ... and whether its package gets into the repo.                         *)
Outcome(p, in) ==
    IF p \in TestPaths THEN in => Imported(p) ELSE in <=> Compilable(p)

Goroutine(p) ==
    /\ worker[p] \in {"list", "cache"} => missing[p] = {}
    /\ worker[p] = "cache" => Caching(p)
    /\ worker[p] \in {"load", "import", "compile"} => Loading(p)
    /\ worker[p] = "import" =>
         todo[p] # <<>> /\ Import(p) \in TestPaths /\ Import(p) # "unsafe"
    /\ worker[p] = "compile" => todo[p] = <<>> /\ missing[p] = {}
    /\ worker[p] = "send" => Outcome(p, TRUE)
    /\ worker[p] \in {"exit", "done"} => Outcome(p, InRepo(p))

(* A package sends itself once, and the repo is made when all are done.    *)
SentOnce ==
    /\ IsInjective(built) /\ \A p \in PathsIn(built) : worker[p] \in {"exit", "done"}
    /\ main = "build" => repo = <<>>
    /\ main = "walk" => built = <<>> /\ \A p \in Packages : worker[p] = "done"

(* Compilations share the descriptions of the cache, and no more.  A test  *)
(* path gets there by a goroutine that imports it.                         *)
Shared ==
    /\ \A p \in Packages : unit[p] \in {None, GetCompliant(p)}
    /\ \A q \in Paths : data[<<"cached", q>>] = Blank
    /\ \A p \in Packages : \A d \in data[GetCompliant(p)].deps :
         d.path \notin TestPaths => d.path \in DOMAIN cache /\ cache[d.path] = d
    /\ \A q \in DOMAIN cache \cap TestPaths : ~Fault("import", q) /\ Imported(q)

IInv ==
    /\ TypeOK
    /\ SentOnce
    /\ Shared
    /\ \A p \in Packages : Goroutine(p)

---------------------------------------------------------------------------
(* Sequences of paths, and the code base.                                  *)

LEMMA PathsEmpty == PathsIn(<<>>) = {}
  BY DEF PathsIn

LEMMA PathsType ==
  ASSUME NEW S, NEW s \in Seq(S)
  PROVE  PathsIn(s) = ToSet(s) /\ PathsIn(s) \subseteq S
  BY ElementsType DEF PathsIn

LEMMA TakePath ==
  ASSUME NEW S, NEW s \in Seq(S), s # <<>>
  PROVE  /\ Head(s) \in S /\ Tail(s) \in Seq(S)
         /\ PathsIn(s) = PathsIn(Tail(s)) \cup {Head(s)}
<1>1. Tail(s) \in Seq(S)
  BY TakeElement
<1> QED
  BY <1>1, TakeElement, PathsType

LEMMA CodeBase ==
  ASSUME NEW p \in Packages
  PROVE  /\ Listing[p] \in Seq(Paths) /\ Imports[p] \in Seq(Paths)
         /\ PathsIn(Listing[p]) \subseteq Paths /\ PathsIn(Imports[p]) \subseteq Paths
         /\ p \in PathsIn(Listing[p]) /\ Needs(p) \subseteq PathsIn(Listing[p])
         /\ p \in Paths /\ GetCompliant(p) \in Objects
<1>1. PathsIn(Listing[p]) \subseteq Paths /\ PathsIn(Imports[p]) \subseteq Paths
  BY DEF Paths
<1>2. ASSUME NEW S, S \subseteq Paths PROVE Seq(S) \subseteq Seq(Paths)
  BY <1>2
<1>3. p \in PathsIn(Listing[p]) /\ Needs(p) \subseteq PathsIn(Listing[p])
  BY ListingAssumption DEF Needs
<1>4. Listing[p] \in Seq(Paths) /\ Imports[p] \in Seq(Paths)
  BY <1>1, <1>2, ListingAssumption
<1> QED
  BY <1>1, <1>3, <1>4 DEF GetCompliant, Objects

(* The first description counts.                                           *)
LEMMA CacheSet ==
  ASSUME TypeOK, NEW path \in Paths, NEW p \in Packages,
         cache' = SetCompliantOnIgnore(Description(path, p))
  PROVE  /\ DOMAIN cache' = DOMAIN cache \cup {path} /\ DOMAIN cache' \subseteq Paths
         /\ \A q \in DOMAIN cache : cache'[q] = cache[q]
         /\ \A q \in DOMAIN cache' : cache'[q] \in Descriptions /\ cache'[q].path = q
<1>1. /\ Description(path, p) \in Descriptions /\ Description(path, p).path = path
  BY DEF Description, Descriptions
<1> QED
  BY <1>1 DEF SetCompliantOnIgnore, TypeOK

(* A dependency more.                                                      *)
LEMMA DepAdded ==
  ASSUME TypeOK, NEW u \in Objects, NEW dep \in Descriptions, NEW d,
         d = [data EXCEPT ![u].deps = @ \cup {dep}]
  PROVE  /\ d \in [Objects -> [deps : SUBSET Descriptions, sources : SUBSET Paths]]
         /\ \A o \in Objects \ {u} : d[o] = data[o]
         /\ d[u].deps = data[u].deps \cup {dep} /\ d[u].sources = data[u].sources
<1>1. data[u] \in [deps : SUBSET Descriptions, sources : SUBSET Paths]
  BY DEF TypeOK
<1>2. d = [o \in Objects |-> IF o = u THEN [data[u] EXCEPT !.deps = data[u].deps \cup {dep}]
                                      ELSE data[o]]
  BY DEF TypeOK
<1>3. [data[u] EXCEPT !.deps = data[u].deps \cup {dep}]
        = [deps |-> data[u].deps \cup {dep}, sources |-> data[u].sources]
  BY <1>1
<1>4. d \in [Objects -> [deps : SUBSET Descriptions, sources : SUBSET Paths]]
  <2>1. [deps |-> data[u].deps \cup {dep}, sources |-> data[u].sources]
          \in [deps : SUBSET Descriptions, sources : SUBSET Paths]
    BY <1>1
  <2>2. data \in [Objects -> [deps : SUBSET Descriptions, sources : SUBSET Paths]]
    BY DEF TypeOK
  <2> QED
    BY <1>2, <1>3, <2>1, <2>2
<1>5. d[u] = [deps |-> data[u].deps \cup {dep}, sources |-> data[u].sources]
  BY <1>2, <1>3
<1>6. \A o \in Objects \ {u} : d[o] = data[o]
  BY <1>2
<1> QED
  BY <1>4, <1>5, <1>6

---------------------------------------------------------------------------
(* Type correctness.                                                       *)

LEMMA TypeInit == Init => TypeOK
<1> SUFFICES ASSUME Init PROVE TypeOK
  OBVIOUS
<1>1. Cardinality(Packages) \in Nat
  BY PackageAssumption, FS_CardinalityType
<1>2. data \in [Objects -> [deps : SUBSET Descriptions, sources : SUBSET Paths]]
  BY DEF Init, Blank
<1> QED
  BY <1>1, <1>2, ElementsEmpty DEF Init, TypeOK

(* While a goroutine works, Build waits for it.                            *)
LEMMA Building ==
  ASSUME TypeOK, SentOnce, main # "panicked", NEW p \in Packages, worker[p] # "done"
  PROVE  main = "build" /\ repo = <<>>
  BY DEF TypeOK, SentOnce

LEMMA TypeLoadDep ==
  ASSUME TypeOK, NEW p \in Packages, NEW dep \in Descriptions, Loading(p),
         todo[p] # <<>>, LoadDep(p, dep), DOMAIN cache' \subseteq Paths,
         \A q \in DOMAIN cache' : cache'[q] \in Descriptions /\ cache'[q].path = q
  PROVE  TypeOK'
<1>1. Head(todo[p]) \in Paths /\ Tail(todo[p]) \in Seq(Paths)
  BY TakePath DEF TypeOK
<1>2. unit[p] \in Objects
  BY CodeBase DEF Loading
<1>3. CASE Fault("no object", dep.path)
  <2>1. /\ missing' = [missing EXCEPT ![p] = @ \cup {Head(todo[p])}]
        /\ todo' = [todo EXCEPT ![p] = Tail(@)]
        /\ worker' = [worker EXCEPT ![p] = "load"]
        /\ UNCHANGED <<faults, unit, data, main, built, repo>>
    BY <1>3 DEF LoadDep, Missing, Import, Goes, buildVars
  <2> QED
    BY <1>1, <2>1 DEF TypeOK
<1>4. CASE ~Fault("no object", dep.path)
  <2>1. data' \in [Objects -> [deps : SUBSET Descriptions, sources : SUBSET Paths]]
    BY <1>2, <1>4, DepAdded DEF LoadDep
  <2> QED
    BY <1>1, <1>4, <2>1 DEF LoadDep, Goes, buildVars, TypeOK
<1> QED
  BY <1>3, <1>4

LEMMA TypeWorker ==
  ASSUME TypeOK, SentOnce, NEW p \in Packages, Goroutine(p), Worker(p)
  PROVE  TypeOK'
<1> USE DEF Goes, buildVars
<1>1. /\ Listing[p] \in Seq(Paths) /\ Imports[p] \in Seq(Paths)
      /\ GetCompliant(p) \in Objects /\ p \in Paths
  BY CodeBase
<1>2. todo[p] # <<>> => /\ Head(todo[p]) \in Paths
                        /\ Tail(todo[p]) \in Seq(Paths)
  BY TakePath DEF TypeOK
<1>3. ASSUME Fails(p) PROVE TypeOK'
  BY <1>3 DEF Fails, TypeOK
<1>4. CASE List(p)
  BY <1>1, <1>4 DEF List, TypeOK
<1>5. CASE IgnoreTest(p)
  BY <1>2, <1>5 DEF IgnoreTest, TypeOK
<1>6. CASE CacheListed(p)
  <2>1. /\ DOMAIN cache' \subseteq Paths
        /\ \A q \in DOMAIN cache' : cache'[q] \in Descriptions /\ cache'[q].path = q
    <3>1. PICK path \in Paths : path = Listed(p)
      BY <1>2, <1>6 DEF CacheListed, Listed
    <3>2. cache' = SetCompliantOnIgnore(Description(path, p))
      BY <1>6, <3>1 DEF CacheListed
    <3> QED
      BY <3>2, CacheSet
  <2> QED
    BY <1>2, <1>6, <2>1 DEF CacheListed, TypeOK
<1>7. CASE StartCompile(p)
  <2>1. SourceFiles(p) \subseteq Paths
    BY <1>1 DEF SourceFiles
  <2>2. data' \in [Objects -> [deps : SUBSET Descriptions, sources : SUBSET Paths]]
    BY <1>1, <1>7, <2>1 DEF StartCompile, TypeOK
  <2> QED
    BY <1>1, <1>7, <2>2 DEF StartCompile, TypeOK
<1>8. CASE SkipUnsafe(p)
  BY <1>2, <1>8 DEF SkipUnsafe, TypeOK
<1>9. CASE FindDep(p)
  <2>1. /\ cache[Import(p)] \in Descriptions /\ Loading(p) /\ todo[p] # <<>>
        /\ LoadDep(p, cache[Import(p)]) /\ UNCHANGED cache
    BY <1>9 DEF FindDep, TypeOK, Goroutine
  <2> QED
    BY <2>1, TypeLoadDep DEF TypeOK
<1>10. CASE MissDep(p)
  BY <1>10 DEF MissDep, TypeOK
<1>11. CASE ImportFails(p)
  BY <1>2, <1>11 DEF ImportFails, Missing, Import, Goroutine, TypeOK
<1>12. CASE ImportDep(p)
  <2>1. Import(p) \in Paths /\ Loading(p) /\ todo[p] # <<>>
    BY <1>2, <1>12 DEF ImportDep, Import, Goroutine
  <2>2. /\ DOMAIN cache' \subseteq Paths
        /\ \A q \in DOMAIN cache' : cache'[q] \in Descriptions /\ cache'[q].path = q
    <3>1. PICK path \in Paths : path = Import(p)
      BY <2>1
    <3>2. cache' = SetCompliantOnIgnore(Description(path, p))
      BY <1>12, <3>1 DEF ImportDep
    <3> QED
      BY <3>2, CacheSet
  <2>3. /\ Description(Import(p), p) \in Descriptions
        /\ LoadDep(p, Description(Import(p), p))
    BY <1>12, <2>1 DEF ImportDep, Description, Descriptions
  <2> QED
    BY <2>1, <2>2, <2>3, TypeLoadDep
<1>13. CASE DepsLoaded(p)
  BY <1>13 DEF DepsLoaded, TypeOK
<1>14. CASE CompilePanics(p)
  BY <1>14 DEF CompilePanics, TypeOK
<1>15. CASE CompileOK(p)
  BY <1>15 DEF CompileOK, TypeOK
<1>16. CASE SendBuilt(p)
  <2>1. p \notin ToSet(built)
    <3>1. PathsIn(built) = ToSet(built)
      BY PathsType DEF TypeOK
    <3> QED
      BY <1>16, <3>1 DEF SendBuilt, SentOnce
  <2>2. Cardinality(Packages) \in Nat
    BY PackageAssumption, FS_CardinalityType
  <2>3. /\ Append(built, p) \in Seq(Packages) /\ IsInjective(Append(built, p))
        /\ Len(Append(built, p)) <= Cardinality(Packages)
    BY <1>16, <2>1, <2>2, AppendElement, ElementsType DEF SendBuilt, TypeOK
  <2> QED
    BY <1>16, <2>3 DEF SendBuilt, TypeOK
<1>17. CASE WorkerDone(p)
  BY <1>17 DEF WorkerDone, TypeOK
<1> QED
  BY <1>3, <1>4, <1>5, <1>6, <1>7, <1>8, <1>9, <1>10, <1>11, <1>12, <1>13, <1>14, <1>15,
     <1>16, <1>17
     DEF Worker, ListFails, ListedError, NotFound, DepsMissing, CompileFails

LEMMA TypeStep == IInv /\ [Next]_vars => TypeOK'
<1> SUFFICES ASSUME IInv, [Next]_vars PROVE TypeOK'
  OBVIOUS
<1>1. ASSUME NEW p \in Packages, Worker(p) PROVE TypeOK'
  BY <1>1, TypeWorker DEF IInv
<1>2. CASE Collect
  <2>1. Cardinality(Packages) \in Nat
    BY PackageAssumption, FS_CardinalityType
  <2> QED
    BY <1>2, <2>1, ElementsEmpty DEF Collect, IInv, TypeOK
<1>3. CASE UNCHANGED vars
  BY <1>3 DEF vars, buildVars, IInv, TypeOK
<1> QED
  BY <1>1, <1>2, <1>3 DEF Next, Finished

---------------------------------------------------------------------------
(* What a goroutine does to the rest.                                      *)

(* Nothing of another goroutine, and the cache only grows.                 *)
Apart(p) ==
    /\ UNCHANGED <<faults, repo>>
    /\ \A q \in Packages \ {p} :
         /\ worker'[q] = worker[q] /\ todo'[q] = todo[q] /\ missing'[q] = missing[q]
         /\ unit'[q] = unit[q]
    /\ \A o \in Objects \ {GetCompliant(p)} : data'[o] = data[o]
    /\ PathsIn(built)' \ {p} = PathsIn(built) \ {p}

Grows ==
    /\ DOMAIN cache \subseteq DOMAIN cache' /\ \A q \in DOMAIN cache : cache'[q] = cache[q]
    /\ \A q \in DOMAIN cache' \ DOMAIN cache :
         q \in TestPaths => ~Fault("import", q) /\ Imported(q)

(* What it adds to its own dependencies.                                   *)
Adds(p) ==
    /\ unit'[p] \in {unit[p], GetCompliant(p)}
    /\ \A d \in data'[GetCompliant(p)].deps :
         \/ d \in data[GetCompliant(p)].deps
         \/ d.path \in TestPaths
         \/ d.path \in DOMAIN cache /\ cache[d.path] = d

LEMMA LoadDepApart ==
  ASSUME TypeOK, NEW p \in Packages, NEW dep \in Descriptions, Loading(p),
         todo[p] # <<>>, LoadDep(p, dep)
  PROVE  /\ Apart(p) /\ unit' = unit /\ built' = built /\ main' = main
         /\ data'[GetCompliant(p)].deps \subseteq data[GetCompliant(p)].deps \cup {dep}
         /\ data'[GetCompliant(p)].sources = data[GetCompliant(p)].sources
<1>1. unit[p] = GetCompliant(p) /\ GetCompliant(p) \in Objects
  BY CodeBase DEF Loading
<1>2. /\ UNCHANGED <<faults, unit, main, built, repo>>
      /\ \A q \in Packages \ {p} :
           worker'[q] = worker[q] /\ todo'[q] = todo[q] /\ missing'[q] = missing[q]
  BY DEF LoadDep, Missing, Goes, buildVars, TypeOK
<1>3. /\ \A o \in Objects \ {GetCompliant(p)} : data'[o] = data[o]
      /\ data'[GetCompliant(p)].deps \subseteq data[GetCompliant(p)].deps \cup {dep}
      /\ data'[GetCompliant(p)].sources = data[GetCompliant(p)].sources
  <2>1. CASE Fault("no object", dep.path)
    BY <2>1 DEF LoadDep, Missing
  <2>2. CASE ~Fault("no object", dep.path)
    <3>1. data' = [data EXCEPT ![GetCompliant(p)].deps = @ \cup {dep}]
      BY <1>1, <2>2 DEF LoadDep
    <3> QED
      BY <1>1, <3>1, DepAdded
  <2> QED
    BY <2>1, <2>2
<1> QED
  BY <1>1, <1>2, <1>3 DEF Apart

LEMMA WorkerApart ==
  ASSUME IInv, NEW p \in Packages, Worker(p)
  PROVE  Apart(p) /\ Grows /\ Adds(p)
<1> USE DEF Goes, buildVars
<1>1. /\ TypeOK /\ Goroutine(p) /\ GetCompliant(p) \in Objects
  BY CodeBase DEF IInv
<1>2. ASSUME Fails(p) PROVE Apart(p) /\ Grows /\ Adds(p)
  BY <1>1, <1>2 DEF Fails, TypeOK, Apart, Grows, Adds
<1>3. ASSUME UNCHANGED cache PROVE Grows
  BY <1>3 DEF Grows
<1>4. ASSUME UNCHANGED <<unit, data>> PROVE Adds(p)
  BY <1>4 DEF Adds
<1>5. CASE List(p) \/ IgnoreTest(p) \/ SkipUnsafe(p) \/ MissDep(p) \/ DepsLoaded(p)
           \/ CompilePanics(p) \/ CompileOK(p) \/ WorkerDone(p)
  <2>1. /\ UNCHANGED <<faults, cache, missing, unit, data, built, repo>>
        /\ \A q \in Packages \ {p} : worker'[q] = worker[q] /\ todo'[q] = todo[q]
    BY <1>1, <1>5 DEF List, IgnoreTest, SkipUnsafe, MissDep, DepsLoaded, CompilePanics,
       CompileOK, WorkerDone, TypeOK
  <2> QED
    BY <1>3, <1>4, <2>1 DEF Apart
<1>6. CASE CacheListed(p)
  <2>1. PICK path \in Paths : path = Listed(p)
    BY <1>1, <1>6, TakePath DEF CacheListed, Listed, TypeOK
  <2>2. cache' = SetCompliantOnIgnore(Description(path, p)) /\ path \notin TestPaths
    BY <1>6, <2>1 DEF CacheListed
  <2>3. Grows
    BY <1>1, <2>2, CacheSet DEF Grows
  <2>4. Apart(p)
    BY <1>1, <1>6 DEF CacheListed, Apart, TypeOK
  <2> QED
    BY <1>4, <1>6, <2>3, <2>4 DEF CacheListed
<1>7. CASE StartCompile(p)
  <2>1. /\ UNCHANGED <<faults, missing, cache, main, built, repo>>
        /\ \A q \in Packages \ {p} :
             worker'[q] = worker[q] /\ todo'[q] = todo[q] /\ unit'[q] = unit[q]
        /\ \A o \in Objects \ {GetCompliant(p)} : data'[o] = data[o]
        /\ unit'[p] = GetCompliant(p) /\ data'[GetCompliant(p)].deps = {}
    BY <1>1, <1>7 DEF StartCompile, TypeOK
  <2> QED
    BY <1>3, <2>1 DEF Apart, Adds
<1>8. CASE FindDep(p)
  <2>1. /\ cache[Import(p)] \in Descriptions /\ Loading(p) /\ todo[p] # <<>>
        /\ LoadDep(p, cache[Import(p)]) /\ UNCHANGED cache
        /\ Import(p) \in DOMAIN cache /\ cache[Import(p)].path = Import(p)
    BY <1>1, <1>8 DEF FindDep, TypeOK, Goroutine
  <2>2. /\ Apart(p) /\ unit' = unit
        /\ data'[GetCompliant(p)].deps \subseteq data[GetCompliant(p)].deps \cup {cache[Import(p)]}
    BY <1>1, <2>1, LoadDepApart
  <2> QED
    BY <1>3, <2>1, <2>2 DEF Adds
<1>9. CASE ImportFails(p)
  BY <1>1, <1>3, <1>4, <1>9 DEF ImportFails, Missing, Apart, TypeOK
<1>10. CASE ImportDep(p)
  <2>1. /\ Loading(p) /\ todo[p] # <<>> /\ Import(p) \in TestPaths
        /\ ~Fault("import", Import(p))
    BY <1>1, <1>10 DEF ImportDep, Goroutine
  <2>2. /\ Import(p) \in Paths /\ Import(p) \in PathsIn(Imports[p])
    BY <1>1, <2>1, TakePath DEF Import, TypeOK, Loading
  <2>3. PICK path \in Paths : path = Import(p)
    BY <2>2
  <2>4. /\ cache' = SetCompliantOnIgnore(Description(path, p))
        /\ LoadDep(p, Description(path, p))
    BY <1>10, <2>3 DEF ImportDep
  <2>5. Grows
    <3>1. ~Fault("import", path) /\ path \in PathsIn(Imports[p])
      BY <2>1, <2>2, <2>3
    <3>2. Imported(path)
      BY <3>1 DEF Imported
    <3>3. /\ DOMAIN cache' = DOMAIN cache \cup {path}
          /\ \A q \in DOMAIN cache : cache'[q] = cache[q]
      BY <1>1, <2>4, CacheSet
    <3> QED
      BY <3>1, <3>2, <3>3 DEF Grows
  <2>6. Description(path, p) \in Descriptions /\ Description(path, p).path = path
    BY DEF Description, Descriptions
  <2>7. /\ Apart(p) /\ unit' = unit
        /\ data'[GetCompliant(p)].deps \subseteq data[GetCompliant(p)].deps \cup {Description(path, p)}
    BY <1>1, <2>1, <2>4, <2>6, LoadDepApart
  <2> QED
    BY <2>1, <2>3, <2>5, <2>6, <2>7 DEF Adds
<1>11. CASE SendBuilt(p)
  <2>1. PathsIn(built)' = PathsIn(built) \cup {p}
    <3>1. /\ built' = Append(built, p) /\ built \in Seq(Packages)
          /\ Append(built, p) \in Seq(Packages)
      BY <1>1, <1>11 DEF SendBuilt, TypeOK
    <3>2. PathsIn(built) = ToSet(built) /\ PathsIn(built)' = ToSet(Append(built, p))
      BY <3>1, PathsType
    <3> QED
      BY <3>1, <3>2, AppendElement
  <2> QED
    BY <1>1, <1>3, <1>4, <1>11, <2>1 DEF SendBuilt, Apart, TypeOK
<1> QED
  BY <1>2, <1>5, <1>6, <1>7, <1>8, <1>9, <1>10, <1>11
     DEF Worker, ListFails, ListedError, NotFound, DepsMissing, CompileFails

---------------------------------------------------------------------------
(* A goroutine sends once, and what is shared.                             *)

LEMMA SentOnceWorker ==
  ASSUME IInv, NEW p \in Packages, Worker(p)
  PROVE  SentOnce'
<1> USE DEF Goes, buildVars
<1>1. TypeOK /\ SentOnce /\ TypeOK' /\ Apart(p)
  BY TypeStep, WorkerApart DEF IInv, Next
<1>2. worker[p] # "done" /\ main = "build" /\ repo = <<>> /\ main' \in {"build", "panicked"}
  <2>1. worker[p] # "done" /\ main' \in {main, "panicked"}
    BY DEF Worker, ListFails, List, IgnoreTest, ListedError, CacheListed, NotFound, Fails,
       StartCompile, SkipUnsafe, FindDep, MissDep, ImportFails, ImportDep, LoadDep, Missing,
       DepsMissing, DepsLoaded, CompileFails, CompilePanics, CompileOK, SendBuilt, WorkerDone
  <2> QED
    BY <1>1, <2>1, Building DEF Worker
<1>3. p \in PathsIn(built)' => worker'[p] \in {"exit", "done"}
  <2>1. CASE SendBuilt(p)
    BY <1>1, <2>1 DEF SendBuilt, TypeOK
  <2>2. CASE WorkerDone(p)
    BY <1>1, <2>2 DEF WorkerDone, TypeOK
  <2>3. CASE ~SendBuilt(p) /\ ~WorkerDone(p)
    <3>1. UNCHANGED built /\ worker[p] \notin {"exit", "done"}
      BY <2>3 DEF Worker, ListFails, List, IgnoreTest, ListedError, CacheListed, NotFound, Fails,
         StartCompile, SkipUnsafe, FindDep, MissDep, ImportFails, ImportDep, LoadDep, Missing,
         DepsMissing, DepsLoaded, CompileFails, CompilePanics, CompileOK
    <3> QED
      BY <1>1, <3>1 DEF SentOnce
  <2> QED
    BY <2>1, <2>2, <2>3
<1>4. \A q \in PathsIn(built)' \ {p} : worker'[q] \in {"exit", "done"}
  <2>1. PathsIn(built) \subseteq Packages
    BY <1>1, PathsType DEF TypeOK
  <2> QED
    BY <1>1, <2>1 DEF Apart, SentOnce
<1>5. UNCHANGED repo /\ IsInjective(built')
  BY <1>1 DEF Apart, TypeOK
<1> QED
  BY <1>2, <1>3, <1>4, <1>5 DEF SentOnce

LEMMA SharedWorker ==
  ASSUME IInv, NEW p \in Packages, Worker(p)
  PROVE  Shared'
<1>1. TypeOK /\ Shared /\ Apart(p) /\ Grows /\ Adds(p)
  BY WorkerApart DEF IInv
<1>2. \A q \in Packages : unit'[q] \in {None, GetCompliant(q)}
  BY <1>1 DEF Shared, Apart, Adds
<1>3. ASSUME NEW q \in Paths PROVE data'[<<"cached", q>>] = Blank
  <2>1. <<"cached", q>> \in Objects \ {GetCompliant(p)}
    BY DEF Objects, GetCompliant
  <2> QED
    BY <1>1, <2>1 DEF Shared, Apart
<1>4. ASSUME NEW q \in Packages, NEW d \in data'[GetCompliant(q)].deps, d.path \notin TestPaths
      PROVE  d.path \in DOMAIN cache' /\ cache'[d.path] = d
  <2>1. CASE q = p
    BY <1>1, <1>4, <2>1 DEF Shared, Grows, Adds
  <2>2. CASE q # p
    <3>1. GetCompliant(q) \in Objects \ {GetCompliant(p)}
      BY <2>2, CodeBase DEF GetCompliant
    <3>2. d \in data[GetCompliant(q)].deps
      BY <1>1, <1>4, <3>1 DEF Apart
    <3> QED
      BY <1>1, <1>4, <3>2 DEF Shared, Grows
  <2> QED
    BY <2>1, <2>2
<1>5. ASSUME NEW q \in DOMAIN cache' \cap TestPaths
      PROVE  ~Fault("import", q)' /\ Imported(q)
  <2>1. ~Fault("import", q) /\ Imported(q)
    BY <1>1 DEF Shared, Grows
  <2>2. UNCHANGED faults
    BY <1>1 DEF Apart
  <2> QED
    BY <2>1, <2>2 DEF Fault
<1> QED
  BY <1>2, <1>3, <1>4, <1>5 DEF Shared

(* The other goroutines are where they were.                               *)
LEMMA OthersStay ==
  ASSUME IInv, NEW p \in Packages, Worker(p), NEW q \in Packages \ {p}
  PROVE  Goroutine(q)'
<1>1. Goroutine(q) /\ Apart(p) /\ Grows
  BY WorkerApart DEF IInv
<1>2. GetCompliant(q) \in Objects \ {GetCompliant(p)}
  BY CodeBase DEF GetCompliant
<1>3. /\ worker'[q] = worker[q] /\ todo'[q] = todo[q] /\ missing'[q] = missing[q]
      /\ unit'[q] = unit[q] /\ data'[GetCompliant(q)] = data[GetCompliant(q)]
      /\ UNCHANGED faults /\ DOMAIN cache \subseteq DOMAIN cache'
  BY <1>1, <1>2 DEF Apart, Grows
<1>4. InRepo(q)' <=> InRepo(q)
  BY <1>1 DEF Apart, InRepo
<1>5. \A kind, path : Fault(kind, path)' <=> Fault(kind, path)
  BY <1>3 DEF Fault
<1>6. Compilable(q)' <=> Compilable(q)
  BY <1>5 DEF Compilable
<1>7. Caching(q) => Caching(q)'
  BY <1>3, <1>5 DEF Caching
<1>8. \A path : Loads(path)' <=> Loads(path)
  BY <1>5 DEF Loads
<1>9. Loading(q) => Loading(q)'
  BY <1>3, <1>5, <1>8 DEF Loading
<1>10. worker[q] \in {"exit", "done"} => Outcome(q, InRepo(q))'
  BY <1>1, <1>4, <1>6 DEF Outcome, Goroutine
<1>11. worker[q] = "send" => Outcome(q, TRUE)'
  BY <1>1, <1>6 DEF Outcome, Goroutine
<1> QED
  BY <1>1, <1>3, <1>7, <1>9, <1>10, <1>11 DEF Goroutine, Import

---------------------------------------------------------------------------
(* What becomes of a package.                                              *)

LEMMA CompilableMeans ==
  ASSUME NEW p \in Packages
  PROVE  Compilable(p) <=> /\ ~Fault("list", p) /\ ~Fault("source", p)
                           /\ \A q \in Own(p) : ~Fault("error", q)
                           /\ \A q \in Needs(p) : Loads(q)
  BY DEF Compilable, Own, Needs, Loads

(* A goroutine gives up.                                                   *)
LEMMA GivesUp ==
  ASSUME TypeOK, NEW p \in Packages, ~InRepo(p), UNCHANGED <<faults, built, repo>>,
         worker' = [worker EXCEPT ![p] = "exit"],
         p \notin TestPaths => ~Compilable(p)
  PROVE  Goroutine(p)'
<1>1. worker'[p] = "exit" /\ ~InRepo(p)'
  BY DEF TypeOK, InRepo
<1>2. Compilable(p)' <=> Compilable(p)
  BY DEF Compilable, Fault
<1> QED
  BY <1>1, <1>2 DEF Goroutine, Outcome

(* A goroutine goes on with its next import.                               *)
LEMMA NextImport ==
  ASSUME TypeOK, TypeOK', NEW p \in Packages, Loading(p), Apart(p), Grows,
         todo[p] # <<>>, todo' = [todo EXCEPT ![p] = Tail(@)],
         worker' = [worker EXCEPT ![p] = "load"],
         unit'[p] = unit[p], data'[GetCompliant(p)].sources = data[GetCompliant(p)].sources,
         \/ missing' = missing /\ (Import(p) \in Needs(p) => Loads(Import(p)))
         \/ /\ missing' = [missing EXCEPT ![p] = @ \cup {Import(p)}]
            /\ Import(p) \in Needs(p) /\ ~Loads(Import(p))
  PROVE  Goroutine(p)'
<1>1. /\ worker'[p] = "load" /\ todo'[p] = Tail(todo[p])
      /\ PathsIn(todo[p]) = PathsIn(todo'[p]) \cup {Import(p)}
  BY TakePath DEF TypeOK, Import
<1>2. \A kind, path : Fault(kind, path)' <=> Fault(kind, path)
  BY DEF Apart, Fault
<1>3. \A path : Loads(path)' <=> Loads(path)
  BY <1>2 DEF Loads
<1>4. \/ missing'[p] = missing[p] /\ (Import(p) \in Needs(p) => Loads(Import(p)))
      \/ /\ missing'[p] = missing[p] \cup {Import(p)}
         /\ Import(p) \in Needs(p) /\ ~Loads(Import(p))
  BY DEF TypeOK
<1>5. \A q \in Needs(p) : q \in PathsIn(todo'[p]) \cup missing'[p] \/ Loads(q)
  BY <1>1, <1>4 DEF Loading
<1>6. \A q \in missing'[p] : q \in Needs(p) /\ ~Loads(q)
  BY <1>4 DEF Loading
<1>7. Loading(p)'
  BY <1>1, <1>2, <1>3, <1>5, <1>6 DEF Loading, Grows
<1> QED
  BY <1>1, <1>7 DEF Goroutine

LEMMA LoadDepOwn ==
  ASSUME TypeOK, TypeOK', NEW p \in Packages, NEW dep \in Descriptions, Loading(p),
         Apart(p), Grows, ~InRepo(p), todo[p] # <<>>, Import(p) # "unsafe",
         dep.path = Import(p), Import(p) \in TestPaths => ~Fault("import", Import(p)),
         LoadDep(p, dep)
  PROVE  Goroutine(p)'
<1>1. Import(p) \in Needs(p)
  BY TakePath DEF TypeOK, Import, Loading, Needs
<1>2. UNCHANGED <<unit, built, repo, faults>>
      /\ data'[GetCompliant(p)].sources = data[GetCompliant(p)].sources
  BY LoadDepApart DEF Apart
<1>3. CASE Fault("no object", Import(p))
  <2>1. /\ todo' = [todo EXCEPT ![p] = Tail(@)] /\ worker' = [worker EXCEPT ![p] = "load"]
        /\ missing' = [missing EXCEPT ![p] = @ \cup {Import(p)}]
    BY <1>3 DEF LoadDep, Missing, Goes
  <2>2. ~Loads(Import(p))
    BY <1>3 DEF Loads
  <2> QED
    BY <1>1, <1>2, <2>1, <2>2, NextImport
<1>4. CASE ~Fault("no object", Import(p)) /\ ~Fault("object", Import(p))
  <2>1. /\ todo' = [todo EXCEPT ![p] = Tail(@)] /\ worker' = [worker EXCEPT ![p] = "load"]
        /\ missing' = missing
    BY <1>4 DEF LoadDep, Goes
  <2>2. Loads(Import(p))
    BY <1>4 DEF Loads
  <2> QED
    BY <1>2, <2>1, <2>2, NextImport
<1>5. CASE ~Fault("no object", Import(p)) /\ Fault("object", Import(p))
  <2>1. worker' = [worker EXCEPT ![p] = "exit"]
    BY <1>5 DEF LoadDep, Goes
  <2>2. ~Compilable(p)
    BY <1>1, <1>5, CompilableMeans DEF Loads
  <2> QED
    BY <1>2, <2>1, <2>2, GivesUp
<1> QED
  BY <1>3, <1>4, <1>5

LEMMA OwnStep ==
  ASSUME IInv, NEW p \in Packages, Worker(p)
  PROVE  Goroutine(p)'
<1> USE DEF Goes, buildVars
<1>1. TypeOK /\ TypeOK' /\ Goroutine(p) /\ Apart(p) /\ Grows /\ Shared
  BY TypeStep, WorkerApart DEF IInv, Next
<1>2. worker[p] \notin {"exit", "done"} => ~InRepo(p)
  <2>1. worker[p] # "done" => repo = <<>>
    BY Building DEF Worker, IInv
  <2> QED
    BY <2>1, PathsEmpty DEF InRepo, IInv, SentOnce
<1>3. /\ \A kind, path : Fault(kind, path)' <=> Fault(kind, path)
      /\ Compilable(p)' <=> Compilable(p)
      /\ \A path : Loads(path)' <=> Loads(path)
  BY <1>1 DEF Apart, Fault, Compilable, Loads
<1>4. ASSUME Fails(p), worker[p] \notin {"exit", "done"}, p \notin TestPaths => ~Compilable(p)
      PROVE  Goroutine(p)'
  BY <1>1, <1>2, <1>4, GivesUp DEF Fails
<1>5. CASE ListFails(p)
  BY <1>4, <1>5, CompilableMeans DEF ListFails
<1>6. CASE List(p)
  <2>1. /\ worker'[p] = "cache" /\ todo'[p] = Listing[p] /\ missing' = missing
        /\ worker[p] = "list" /\ ~Fault("list", p)
    BY <1>1, <1>6 DEF List, TypeOK
  <2> QED
    BY <1>1, <1>3, <2>1 DEF Goroutine, Caching, Own
<1>7. CASE IgnoreTest(p) \/ CacheListed(p)
  <2>1. /\ worker'[p] = "cache" /\ todo'[p] = Tail(todo[p]) /\ missing' = missing
        /\ worker[p] = "cache" /\ todo[p] # <<>>
        /\ DOMAIN cache \subseteq DOMAIN cache'
    BY <1>1, <1>7 DEF IgnoreTest, CacheListed, TypeOK, Grows
  <2>2. PathsIn(todo[p]) = PathsIn(todo'[p]) \cup {Listed(p)}
    BY <1>1, <2>1, TakePath DEF Listed, TypeOK
  <2>3. Listed(p) \in Own(p) => Listed(p) \in DOMAIN cache' /\ ~Fault("error", Listed(p))
    <3>1. CASE IgnoreTest(p)
      BY <3>1 DEF IgnoreTest, Own
    <3>2. CASE CacheListed(p)
      <4>1. PICK path \in Paths : path = Listed(p)
        BY <1>1, <2>1, TakePath DEF Listed, TypeOK
      <4>2. cache' = SetCompliantOnIgnore(Description(path, p)) /\ ~Fault("error", Listed(p))
        BY <3>2, <4>1 DEF CacheListed
      <4> QED
        BY <1>1, <4>1, <4>2, CacheSet
    <3> QED
      BY <1>7, <3>1, <3>2
  <2>4. \A q \in Own(p) : q \in PathsIn(todo'[p]) \/ (q \in DOMAIN cache' /\ ~Fault("error", q))
    BY <1>1, <2>1, <2>2, <2>3 DEF Goroutine, Caching
  <2>5. Caching(p)'
    BY <1>1, <1>3, <2>1, <2>2, <2>4 DEF Goroutine, Caching
  <2> QED
    BY <1>1, <2>1, <2>5 DEF Goroutine
<1>8. CASE ListedError(p)
  <2>1. Listed(p) \in PathsIn(Listing[p])
    BY <1>1, <1>8, TakePath DEF ListedError, Listed, TypeOK, Goroutine, Caching
  <2>2. ~Compilable(p)
    BY <1>8, <2>1, CompilableMeans DEF ListedError, Own
  <2> QED
    BY <1>4, <1>8, <2>2 DEF ListedError
<1>9. CASE NotFound(p)
  <2>1. p \in TestPaths
    BY <1>1, <1>9, CodeBase, PathsEmpty DEF NotFound, Goroutine, Caching, Own
  <2> QED
    BY <1>4, <1>9, <2>1 DEF NotFound
<1>10. CASE StartCompile(p)
  <2>1. /\ worker'[p] = "load" /\ todo'[p] = Imports[p] /\ missing'[p] = {}
        /\ Caching(p) /\ todo[p] = <<>> /\ p \in DOMAIN cache /\ cache' = cache
        /\ unit'[p] = GetCompliant(p)
    BY <1>1, <1>10 DEF StartCompile, TypeOK, Goroutine
  <2>2. data'[GetCompliant(p)].sources = SourceFiles(p)
    BY <1>1, <1>10, CodeBase DEF StartCompile, TypeOK
  <2>3. \A q \in Own(p) : q \in DOMAIN cache /\ ~Fault("error", q)
    BY <2>1, PathsEmpty DEF Caching
  <2>4. p \in TestPaths => Imported(p)
    BY <1>1, <2>1 DEF Shared
  <2>5. \A q \in Needs(p) : q \in PathsIn(Imports[p])
    BY DEF Needs
  <2>6. Loading(p)'
    BY <1>3, <2>1, <2>2, <2>3, <2>4, <2>5 DEF Loading, Caching
  <2> QED
    BY <2>1, <2>6 DEF Goroutine
<1>11. CASE SkipUnsafe(p)
  <2>1. /\ todo[p] # <<>> /\ todo' = [todo EXCEPT ![p] = Tail(@)]
        /\ worker' = [worker EXCEPT ![p] = "load"] /\ missing' = missing
        /\ unit' = unit /\ data' = data /\ Loading(p)
    BY <1>1, <1>11 DEF SkipUnsafe, TypeOK, Goroutine
  <2>2. Import(p) \notin Needs(p)
    BY <1>11 DEF SkipUnsafe, Needs
  <2> QED
    BY <1>1, <2>1, <2>2, NextImport
<1>12. CASE FindDep(p)
  <2>1. /\ cache[Import(p)] \in Descriptions /\ Loading(p) /\ todo[p] # <<>>
        /\ LoadDep(p, cache[Import(p)]) /\ Import(p) # "unsafe"
        /\ cache[Import(p)].path = Import(p)
        /\ Import(p) \in TestPaths => ~Fault("import", Import(p))
        /\ ~InRepo(p)
    BY <1>1, <1>2, <1>12 DEF FindDep, TypeOK, Goroutine, Shared
  <2> QED
    BY <1>1, <2>1, LoadDepOwn
<1>13. CASE MissDep(p)
  <2>1. /\ todo' = todo /\ worker'[p] = "import" /\ missing' = missing
        /\ unit' = unit /\ data' = data /\ Loading(p) /\ cache' = cache
        /\ todo[p] # <<>> /\ Import(p) # "unsafe" /\ Import(p) \notin DOMAIN cache
    BY <1>1, <1>13 DEF MissDep, TypeOK, Goroutine
  <2>2. Import(p) \in Needs(p)
    BY <1>1, <2>1, TakePath DEF TypeOK, Import, Loading, Needs
  <2>3. Import(p) \in TestPaths
    BY <2>1, <2>2, CodeBase DEF Loading, Own
  <2>4. Loading(p)'
    BY <1>3, <2>1 DEF Loading
  <2> QED
    BY <2>1, <2>3, <2>4 DEF Goroutine, Import
<1>14. CASE ImportFails(p)
  <2>1. /\ todo[p] # <<>> /\ todo' = [todo EXCEPT ![p] = Tail(@)]
        /\ worker' = [worker EXCEPT ![p] = "load"] /\ unit' = unit /\ data' = data
        /\ missing' = [missing EXCEPT ![p] = @ \cup {Import(p)}]
        /\ Loading(p) /\ Import(p) # "unsafe" /\ ~Loads(Import(p))
    BY <1>1, <1>14 DEF ImportFails, Missing, Goroutine, Loads
  <2>2. Import(p) \in Needs(p)
    BY <1>1, <2>1, TakePath DEF TypeOK, Import, Loading, Needs
  <2> QED
    BY <1>1, <2>1, <2>2, NextImport
<1>15. CASE ImportDep(p)
  <2>1. /\ Loading(p) /\ todo[p] # <<>> /\ Import(p) # "unsafe" /\ ~InRepo(p)
        /\ ~Fault("import", Import(p)) /\ LoadDep(p, Description(Import(p), p))
    BY <1>1, <1>2, <1>15 DEF ImportDep, Goroutine
  <2>2. Import(p) \in Paths
    BY <1>1, <2>1, TakePath DEF TypeOK, Import
  <2>3. /\ Description(Import(p), p) \in Descriptions
        /\ Description(Import(p), p).path = Import(p)
    BY <2>2 DEF Description, Descriptions
  <2> QED
    BY <1>1, <2>1, <2>3, LoadDepOwn
<1>16. CASE DepsMissing(p)
  <2>1. ~Compilable(p)
    BY <1>1, <1>16, CompilableMeans DEF DepsMissing, Goroutine, Loading
  <2> QED
    BY <1>4, <1>16, <2>1 DEF DepsMissing
<1>17. CASE DepsLoaded(p)
  <2>1. /\ worker'[p] = "compile" /\ todo[p] = <<>> /\ missing[p] = {} /\ Loading(p)
        /\ UNCHANGED <<todo, missing, cache, unit, data>>
    BY <1>1, <1>17 DEF DepsLoaded, Goroutine, TypeOK
  <2>2. Loading(p)'
    BY <1>3, <2>1 DEF Loading
  <2> QED
    BY <2>1, <2>2 DEF Goroutine
<1>18. CASE CompileFails(p)
  BY <1>4, <1>18, CompilableMeans DEF CompileFails
<1>19. CASE CompilePanics(p)
  <2>1. /\ worker[p] = "compile" /\ todo[p] = <<>> /\ missing[p] = {} /\ Loading(p)
        /\ UNCHANGED <<worker, todo, missing, cache, unit, data>>
    BY <1>1, <1>19 DEF CompilePanics, Goroutine, TypeOK
  <2>2. Loading(p)'
    BY <1>3, <2>1 DEF Loading
  <2> QED
    BY <2>1, <2>2 DEF Goroutine
<1>20. CASE CompileOK(p)
  <2>1. /\ worker'[p] = "send" /\ todo[p] = <<>> /\ missing[p] = {} /\ Loading(p)
        /\ ~Fault("source", p)
    BY <1>1, <1>20 DEF CompileOK, Goroutine, TypeOK
  <2>2. Outcome(p, TRUE)
    BY <2>1, PathsEmpty, CompilableMeans DEF Outcome, Loading
  <2>3. Outcome(p, TRUE)'
    BY <1>3, <2>2 DEF Outcome
  <2> QED
    BY <2>1, <2>3 DEF Goroutine
<1>21. CASE SendBuilt(p)
  <2>1. worker'[p] = "exit" /\ Outcome(p, TRUE)
    BY <1>1, <1>21 DEF SendBuilt, Goroutine, TypeOK
  <2>2. InRepo(p)'
    <3>1. /\ built' = Append(built, p) /\ built \in Seq(Packages)
          /\ Append(built, p) \in Seq(Packages)
      BY <1>1, <1>21 DEF SendBuilt, TypeOK
    <3>2. PathsIn(built)' = ToSet(Append(built, p))
      BY <3>1, PathsType
    <3> QED
      BY <3>1, <3>2, AppendElement DEF InRepo
  <2>3. Outcome(p, InRepo(p))'
    BY <1>3, <2>1, <2>2 DEF Outcome
  <2> QED
    BY <2>1, <2>3 DEF Goroutine
<1>22. CASE WorkerDone(p)
  <2>1. worker'[p] = "done" /\ Outcome(p, InRepo(p)) /\ UNCHANGED <<built, repo>>
    BY <1>1, <1>22 DEF WorkerDone, Goroutine, TypeOK
  <2>2. Outcome(p, InRepo(p))'
    BY <1>3, <2>1 DEF Outcome, InRepo
  <2> QED
    BY <2>1, <2>2 DEF Goroutine
<1> QED
  BY <1>5, <1>6, <1>7, <1>8, <1>9, <1>10, <1>11, <1>12, <1>13, <1>14, <1>15, <1>16,
     <1>17, <1>18, <1>19, <1>20, <1>21, <1>22 DEF Worker

---------------------------------------------------------------------------
(* The theorems.                                                           *)

LEMMA InitInv == Init => IInv
<1> SUFFICES ASSUME Init PROVE IInv
  OBVIOUS
<1>1. TypeOK
  BY TypeInit
<1>2. SentOnce
  BY PathsEmpty, ElementsEmpty DEF Init, SentOnce
<1>3. \A o \in Objects : data[o] = Blank
  BY DEF Init
<1>4. \A q \in Paths : data[<<"cached", q>>] = Blank
  BY <1>3 DEF Objects
<1>5. \A p \in Packages : data[GetCompliant(p)].deps = {}
  BY <1>3, CodeBase DEF Blank
<1>6. Shared
  BY <1>4, <1>5 DEF Init, Shared
<1>7. \A p \in Packages : Goroutine(p)
  BY DEF Init, Goroutine
<1> QED
  BY <1>1, <1>2, <1>6, <1>7 DEF IInv

LEMMA InvStep == IInv /\ [Next]_vars => IInv'
<1> SUFFICES ASSUME IInv, [Next]_vars PROVE IInv'
  OBVIOUS
<1>1. TypeOK'
  BY TypeStep
<1>2. CASE \E p \in Packages : Worker(p)
  <2>1. PICK p \in Packages : Worker(p)
    BY <1>2
  <2>2. \A q \in Packages : Goroutine(q)'
    BY <2>1, OwnStep, OthersStay
  <2> QED
    BY <1>1, <2>1, <2>2, SentOnceWorker, SharedWorker DEF IInv
<1>3. CASE Collect \/ UNCHANGED vars
  <2>1. /\ UNCHANGED <<faults, worker, todo, missing, cache, unit, data>>
        /\ PathsIn(built)' \cup PathsIn(repo)' = PathsIn(built) \cup PathsIn(repo)
    BY <1>3, PathsEmpty DEF Collect, vars, buildVars, IInv, SentOnce
  <2>2. Shared'
    BY <2>1 DEF IInv, Shared, Fault
  <2>3. SentOnce'
    BY <1>3, PathsEmpty, ElementsEmpty DEF Collect, vars, buildVars, IInv, SentOnce
  <2>4. ASSUME NEW p \in Packages PROVE Goroutine(p)'
    <3>1. \A kind, path : Fault(kind, path)' <=> Fault(kind, path)
      BY <2>1 DEF Fault
    <3>2. /\ Compilable(p)' <=> Compilable(p)
          /\ \A path : Loads(path)' <=> Loads(path)
      BY <3>1 DEF Compilable, Loads
    <3>3. (Caching(p)' <=> Caching(p)) /\ (Loading(p)' <=> Loading(p))
      BY <2>1, <3>1, <3>2 DEF Caching, Loading
    <3>4. InRepo(p)' <=> InRepo(p)
      BY <2>1 DEF InRepo
    <3>5. /\ Outcome(p, TRUE)' <=> Outcome(p, TRUE)
          /\ Outcome(p, InRepo(p))' <=> Outcome(p, InRepo(p))
      BY <3>2, <3>4 DEF Outcome
    <3> QED
      BY <2>1, <3>3, <3>5 DEF IInv, Goroutine, Import
  <2> QED
    BY <1>1, <2>2, <2>3, <2>4 DEF IInv
<1> QED
  BY <1>2, <1>3 DEF Next, Finished

(* The inductive invariant holds in every reachable state.                 *)
THEOREM Invariance == Spec => []IInv
  BY InitInv, InvStep, PTL DEF Spec

(* Every variable keeps its type, what is cached under a path describes    *)
(* that path, and no package is sent twice or beyond the room of Build's   *)
(* channel.                                                                *)
THEOREM TypeCorrect == Spec => []TypeOK
<1>1. IInv => TypeOK
  BY DEF IInv
<1> QED
  BY <1>1, Invariance, PTL

(* No compilation leaves its dependencies or files in the cache, where the *)
(* others find them ("read only", package_compilation.go).                 *)
THEOREM CacheStaysPristine == Spec => []CachePristine
<1>1. IInv => CachePristine
  BY DEF IInv, TypeOK, Shared, CachePristine
<1> QED
  BY <1>1, Invariance, PTL

(* All packages are compiled against the same description of a dependency, *)
(* in whatever order the goroutines list and import (SetCompliantOnIgnore).*)
THEOREM DescriptionsAgree == Spec => []OneDescription
<1>1. IInv => OneDescription
  <2> SUFFICES ASSUME IInv,
                      NEW p1 \in Packages, NEW p2 \in Packages,
                      unit[p1] # None, unit[p2] # None,
                      NEW d1 \in data[unit[p1]].deps, NEW d2 \in data[unit[p2]].deps,
                      d1.path = d2.path, d1.path \notin TestPaths
               PROVE  d1 = d2
    BY DEF OneDescription
  <2>1. unit[p1] = GetCompliant(p1) /\ unit[p2] = GetCompliant(p2)
    BY DEF IInv, Shared
  <2> QED
    BY <2>1 DEF IInv, Shared
<1> QED
  BY <1>1, Invariance, PTL

(* Whether a package is in the repo is decided by its own listing, imports *)
(* and files, whatever the other goroutines do and whoever fails (Build,   *)
(* importPackage, loadDepPkgs).                                            *)
THEOREM OutcomesApart == Spec => []OwnFaultsOnly
<1>1. IInv => OwnFaultsOnly
  BY DEF IInv, Goroutine, Outcome, InRepo, Imported, OwnFaultsOnly
<1> QED
  BY <1>1, Invariance, PTL

---------------------------------------------------------------------------
(* The build of ExtractPipeline.                                           *)

(* What ExtractPipeline calls "compile".                                   *)
Compiling(p) == worker[p] \notin {"send", "exit", "done"}

LEMMA PipelineStutter ==
  ASSUME UNCHANGED <<main, built, repo>>,
         \A p \in Packages : \/ worker'[p] = worker[p]
                             \/ Compiling(p) /\ Compiling(p)'
  PROVE  UNCHANGED Pipeline!vars
  BY DEF Compiling, Pipeline!vars, Pipeline!storeVars, Pipeline!buildVars,
     Pipeline!walkVars, Pipeline!chanVars, Pipeline!writerVars

LEMMA PipelineFails ==
  ASSUME TypeOK, NEW p \in Packages, main = "build", Compiling(p),
         worker' = [worker EXCEPT ![p] = "exit"], UNCHANGED <<main, built, repo>>
  PROVE  [Pipeline!Next]_(Pipeline!vars)
<1>1. Pipeline!SitesOf(p) = {}
  BY DEF Pipeline!SitesOf
<1>2. Pipeline!CompileFails(p)
  BY <1>1 DEF TypeOK, Compiling, Pipeline!CompileFails, Pipeline!walkVars, Pipeline!chanVars,
     Pipeline!writerVars
<1> QED
  BY <1>2 DEF Pipeline!Next, Pipeline!Worker

LEMMA PipelineStep == IInv /\ [Next]_vars => [Pipeline!Next]_(Pipeline!vars)
<1> SUFFICES ASSUME IInv, [Next]_vars PROVE [Pipeline!Next]_(Pipeline!vars)
  OBVIOUS
<1> USE DEF Goes, buildVars, Pipeline!storeVars, Pipeline!buildVars, Pipeline!walkVars,
            Pipeline!chanVars, Pipeline!writerVars
<1>1. ASSUME NEW p \in Packages, Worker(p)
      PROVE  [Pipeline!Next]_(Pipeline!vars)
  <2>1. TypeOK /\ Goroutine(p) /\ main = "build"
    <3>1. worker[p] # "done"
      BY <1>1 DEF Worker, ListFails, List, IgnoreTest, ListedError, CacheListed, NotFound,
         StartCompile, SkipUnsafe, FindDep, MissDep, ImportFails, ImportDep, DepsMissing,
         DepsLoaded, CompileFails, CompilePanics, CompileOK, SendBuilt, WorkerDone
    <3> QED
      BY <1>1, <3>1, Building DEF Worker, IInv
  <2>2. ASSUME Fails(p), Compiling(p) PROVE [Pipeline!Next]_(Pipeline!vars)
    BY <2>1, <2>2, PipelineFails DEF Fails
  <2>3. CASE ListFails(p) \/ ListedError(p) \/ NotFound(p) \/ DepsMissing(p) \/ CompileFails(p)
    BY <2>2, <2>3 DEF ListFails, ListedError, NotFound, DepsMissing, CompileFails, Compiling
  <2>4. CASE List(p) \/ IgnoreTest(p) \/ CacheListed(p) \/ StartCompile(p) \/ SkipUnsafe(p)
             \/ MissDep(p) \/ ImportFails(p) \/ DepsLoaded(p)
    BY <2>1, <2>4, PipelineStutter
       DEF List, IgnoreTest, CacheListed, StartCompile, SkipUnsafe, MissDep, ImportFails,
           Missing, DepsLoaded, Compiling, TypeOK
  <2>5. ASSUME NEW dep, LoadDep(p, dep), worker[p] \in {"load", "import"}
        PROVE  [Pipeline!Next]_(Pipeline!vars)
    <3>1. UNCHANGED <<main, built, repo>>
      BY <2>5 DEF LoadDep, Missing
    <3>2. \/ worker' = [worker EXCEPT ![p] = "exit"]
          \/ worker' = [worker EXCEPT ![p] = "load"]
      BY <2>5 DEF LoadDep, Missing
    <3>3. CASE worker' = [worker EXCEPT ![p] = "exit"]
      BY <2>1, <2>5, <3>1, <3>3, PipelineFails DEF Compiling
    <3>4. CASE worker' = [worker EXCEPT ![p] = "load"]
      BY <2>1, <2>5, <3>1, <3>4, PipelineStutter DEF Compiling, TypeOK
    <3> QED
      BY <3>2, <3>3, <3>4
  <2>6. CASE FindDep(p) \/ ImportDep(p)
    BY <2>5, <2>6 DEF FindDep, ImportDep
  <2>7. CASE CompilePanics(p)
    <3>1. p \in Bare
      BY <2>1, <2>7 DEF CompilePanics, Goroutine, Loading, SourceFiles
    <3>2. Pipeline!CompilePanics(p)
      BY <2>1, <2>7, <3>1 DEF CompilePanics, Pipeline!CompilePanics
    <3> QED
      BY <3>2 DEF Pipeline!Next, Pipeline!Worker
  <2>8. CASE CompileOK(p)
    <3>1. p \notin Bare
      BY <2>1, <2>8 DEF CompileOK, Goroutine, Loading, SourceFiles
    <3>2. Pipeline!CompileOK(p)
      BY <2>1, <2>8, <3>1 DEF CompileOK, Pipeline!CompileOK, TypeOK
    <3> QED
      BY <3>2 DEF Pipeline!Next, Pipeline!Worker
  <2>9. CASE SendBuilt(p)
    <3>1. Pipeline!Cardinality(Packages) = Cardinality(Packages)
      BY Zenon DEF Pipeline!Cardinality, Cardinality
    <3>2. Pipeline!SendBuilt(p)
      BY <2>1, <2>9, <3>1 DEF SendBuilt, Pipeline!SendBuilt, Pipeline!Running, TypeOK
    <3> QED
      BY <3>2 DEF Pipeline!Next, Pipeline!Worker
  <2>10. CASE WorkerDone(p)
    <3>1. Pipeline!WorkerDone(p)
      BY <2>1, <2>10 DEF WorkerDone, Pipeline!WorkerDone, Pipeline!Running, TypeOK
    <3> QED
      BY <3>1 DEF Pipeline!Next, Pipeline!Worker
  <2> QED
    BY <1>1, <2>3, <2>4, <2>6, <2>7, <2>8, <2>9, <2>10 DEF Worker
<1>2. CASE Collect
  <2>1. Pipeline!Collect
    BY <1>2 DEF Collect, Pipeline!Collect
  <2> QED
    BY <2>1 DEF Pipeline!Next, Pipeline!Main
<1>3. CASE UNCHANGED vars
  BY <1>3, PipelineStutter DEF vars
<1> QED
  BY <1>1, <1>2, <1>3 DEF Next, Finished

(* Every step of the goroutines of Build is a step that ExtractPipeline    *)
(* has, or leaves it as it is: a package is sent once, after it compiled,  *)
(* a directory of tests alone ends in a panic, and the repo is made when   *)
(* all goroutines are done.                                                *)
THEOREM BuildRefinement == Spec => RefinesBuild
  BY PipelineStep, Invariance, PTL DEF Spec, RefinesBuild
===========================================================================
