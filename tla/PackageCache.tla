---------------------------- MODULE PackageCache ----------------------------
(***************************************************************************)
(* Build from the inside: a goroutine per package, which lists it with its *)
(* dependencies, compiles it, and shares descriptions of packages with the *)
(* others in the cache of PackageCompiler (extractor/go/compiler,          *)
(* extractor/go/log/build.go).  It implements the build phase of           *)
(* ExtractPipeline, which leaves open what Compile answers.                *)
(*                                                                         *)
(* A description is told from others by who asked for it: the packages on  *)
(* disk may change while they are listed one after the other.  What the go *)
(* command, the type checker and the files answer is a set of faults.      *)
(***************************************************************************)
EXTENDS Integers, Sequences, FiniteSets, SequencesExt

CONSTANTS
    Packages,  \* the import paths that Build compiles
    Listing,   \* per package, what `go list -test -deps` lists, in its order
    TestPaths, \* listed paths that are ForTest or end in ".test"
    Imports,   \* per package, its imports in their order
    Bare,      \* packages with nothing but tests in their directory
    Faults,    \* pairs of a kind of fault and the path it is about
    MaxFaults, \* bound of the model: how many there are at once
    None       \* no compilation

PathsIn(s) == {s[i] : i \in 1 .. Len(s)}

Paths == UNION {PathsIn(Listing[p]) \cup PathsIn(Imports[p]) : p \in Packages}

ASSUME PackageAssumption == IsFiniteSet(Packages) /\ Bare \subseteq Packages /\ None \notin Packages
ASSUME FaultAssumption ==
    /\ Faults \subseteq {"list", "error", "import", "no object", "object", "source"} \X Paths
    /\ MaxFaults \in Nat

(* `go list -deps` lists a package and all that it imports.  (Cgo's "C" it *)
(* does not; a package that imports that is always "missing 1 imports".)   *)
ASSUME ListingAssumption ==
    \A p \in Packages :
        /\ Listing[p] \in Seq(PathsIn(Listing[p])) /\ Imports[p] \in Seq(PathsIn(Imports[p]))
        /\ {p} \cup (PathsIn(Imports[p]) \ {"unsafe"}) \subseteq PathsIn(Listing[p])

VARIABLES
    faults,  \* what goes wrong in this build
    worker,  \* per package, the program counter of its goroutine
    todo,    \* listed packages to put in the cache, then imports to load
    missing, \* imports without a package object
    cache,   \* compliantCache.set: the description of a path, while there is one
    unit,    \* the object that a goroutine compiles: a clone, or the cached one
    data,    \* Deps and SourceFileSet of every object
    main,    \* "build", then "walk"; "panicked"
    built,   \* the channel of compiled packages
    repo     \* what is made of it

buildVars == <<main, built, repo>>
vars == <<faults, worker, todo, missing, cache, unit, data, buildVars>>

Fault(kind, path) == <<kind, path>> \in faults

(* A PackageCompilation before Compile.                                    *)
Blank == [deps |-> {}, sources |-> {}]

Objects == {"clone", "cached"} \X Paths

Init ==
    /\ faults \in {F \in SUBSET Faults : Cardinality(F) <= MaxFaults}
    /\ worker = [p \in Packages |-> "list"]
    /\ todo = [p \in Packages |-> <<>>]
    /\ missing = [p \in Packages |-> {}]
    /\ cache = [q \in {} |-> None]
    /\ unit = [p \in Packages |-> None]
    /\ data = [o \in Objects |-> Blank]
    /\ main = "build"
    /\ built = <<>>
    /\ repo = <<>>

Goes(p, pc) == worker' = [worker EXCEPT ![p] = pc]

(* Compile returns an error: "skip it".                                    *)
Fails(p) == Goes(p, "exit") /\ UNCHANGED <<faults, todo, missing, cache, unit, data, buildVars>>

---------------------------------------------------------------------------
(* The cache.  Each operation holds the lock from its start to its end.    *)

Description(path, by) == [path |-> path, by |-> by]

(* The last description counts: breaks OneDescription.                     *)
SetCompliant(description) ==
    [q \in DOMAIN cache \cup {description.path} |->
        IF q = description.path THEN description ELSE cache[q]]

SetCompliantOnIgnore(description) ==
    [q \in DOMAIN cache \cup {description.path} |->
        IF q \in DOMAIN cache THEN cache[q] ELSE description]

(* The object in the cache itself: breaks CachePristine.                   *)
GetCached(p) == <<"cached", p>>

(* A clone of the object in the cache, with no data of a compilation.      *)
GetCompliant(p) == <<"clone", p>>

---------------------------------------------------------------------------
(* importPackage.                                                          *)

ListFails(p) == worker[p] = "list" /\ Fault("list", p) /\ Fails(p)

List(p) ==
    /\ worker[p] = "list" /\ ~Fault("list", p)
    /\ todo' = [todo EXCEPT ![p] = Listing[p]]
    /\ Goes(p, "cache")
    /\ UNCHANGED <<faults, missing, cache, unit, data, buildVars>>

Listed(p) == Head(todo[p])

IgnoreTest(p) ==
    /\ worker[p] = "cache" /\ todo[p] # <<>> /\ Listed(p) \in TestPaths
    /\ todo' = [todo EXCEPT ![p] = Tail(@)]
    /\ UNCHANGED <<faults, worker, missing, cache, unit, data, buildVars>>

(* The packages listed before this one stay in the cache.                  *)
ListedError(p) ==
    /\ worker[p] = "cache" /\ todo[p] # <<>> /\ Listed(p) \notin TestPaths
    /\ Fault("error", Listed(p))
    /\ Fails(p)

CacheListed(p) ==
    /\ worker[p] = "cache" /\ todo[p] # <<>> /\ Listed(p) \notin TestPaths
    /\ ~Fault("error", Listed(p))
    /\ cache' = SetCompliantOnIgnore(Description(Listed(p), p))
    /\ todo' = [todo EXCEPT ![p] = Tail(@)]
    /\ UNCHANGED <<faults, worker, missing, unit, data, buildVars>>

(* "not found package(%s) to compile"                                      *)
NotFound(p) == worker[p] = "cache" /\ todo[p] = <<>> /\ p \notin DOMAIN cache /\ Fails(p)

---------------------------------------------------------------------------
(* PackageCompilation.Compile.                                             *)

SourceFiles(p) == IF p \in Bare THEN {} ELSE {p}

(* initial and loadSourceFiles, on the compilation that the cache returns. *)
StartCompile(p) ==
    /\ worker[p] = "cache" /\ todo[p] = <<>> /\ p \in DOMAIN cache
    /\ unit' = [unit EXCEPT ![p] = GetCompliant(p)]
    /\ data' = [data EXCEPT ![GetCompliant(p)] = [deps |-> {}, sources |-> SourceFiles(p)]]
    /\ todo' = [todo EXCEPT ![p] = Imports[p]]
    /\ Goes(p, "load")
    /\ UNCHANGED <<faults, missing, cache, buildVars>>

(* loadDepPkgs goes over the imports.                                      *)
Import(p) == Head(todo[p])

SkipUnsafe(p) ==
    /\ worker[p] = "load" /\ todo[p] # <<>> /\ Import(p) = "unsafe"
    /\ todo' = [todo EXCEPT ![p] = Tail(@)]
    /\ UNCHANGED <<faults, worker, missing, cache, unit, data, buildVars>>

Missing(p) ==
    /\ missing' = [missing EXCEPT ![p] = @ \cup {Import(p)}]
    /\ todo' = [todo EXCEPT ![p] = Tail(@)]
    /\ Goes(p, "load")
    /\ UNCHANGED <<faults, unit, data, buildVars>>

(* The dependency is there: read its package object.                       *)
LoadDep(p, dep) ==
    IF Fault("no object", dep.path) THEN Missing(p)
    ELSE /\ data' = [data EXCEPT ![unit[p]].deps = @ \cup {dep}]
         /\ todo' = [todo EXCEPT ![p] = Tail(@)]
         /\ Goes(p, IF Fault("object", dep.path) THEN "exit" ELSE "load")
         /\ UNCHANGED <<faults, missing, unit, buildVars>>

FindDep(p) ==
    /\ worker[p] = "load" /\ todo[p] # <<>>
    /\ Import(p) # "unsafe" /\ Import(p) \in DOMAIN cache
    /\ LoadDep(p, cache[Import(p)])
    /\ UNCHANGED cache

(* What is not in the cache is missing: breaks OwnFaultsOnly.              *)
NoDep(p) ==
    /\ worker[p] = "load" /\ todo[p] # <<>>
    /\ Import(p) # "unsafe" /\ Import(p) \notin DOMAIN cache
    /\ Missing(p)
    /\ UNCHANGED cache

(* What is not in the cache is imported, without the lock.                 *)
MissDep(p) ==
    /\ worker[p] = "load" /\ todo[p] # <<>>
    /\ Import(p) # "unsafe" /\ Import(p) \notin DOMAIN cache
    /\ Goes(p, "import")
    /\ UNCHANGED <<faults, todo, missing, cache, unit, data, buildVars>>

ImportFails(p) ==
    /\ worker[p] = "import" /\ Fault("import", Import(p))
    /\ Missing(p)
    /\ UNCHANGED cache

(* The goroutine goes on with its own description, cached or not.          *)
ImportDep(p) ==
    /\ worker[p] = "import" /\ ~Fault("import", Import(p))
    /\ cache' = SetCompliantOnIgnore(Description(Import(p), p))
    /\ LoadDep(p, Description(Import(p), p))

(* CompileMissingError                                                     *)
DepsMissing(p) == worker[p] = "load" /\ todo[p] = <<>> /\ missing[p] # {} /\ Fails(p)

DepsLoaded(p) ==
    /\ worker[p] = "load" /\ todo[p] = <<>> /\ missing[p] = {}
    /\ Goes(p, "compile")
    /\ UNCHANGED <<faults, todo, missing, cache, unit, data, buildVars>>

(* A source file cannot be read or parsed, or the types do not check.      *)
CompileFails(p) ==
    worker[p] = "compile" /\ data[unit[p]].sources # {} /\ Fault("source", p) /\ Fails(p)

(* astFiles[0] of no files.                                                *)
CompilePanics(p) ==
    /\ worker[p] = "compile" /\ data[unit[p]].sources = {}
    /\ main' = "panicked"
    /\ UNCHANGED <<faults, worker, todo, missing, cache, unit, data, built, repo>>

CompileOK(p) ==
    /\ worker[p] = "compile" /\ data[unit[p]].sources # {} /\ ~Fault("source", p)
    /\ Goes(p, "send")
    /\ UNCHANGED <<faults, todo, missing, cache, unit, data, buildVars>>

---------------------------------------------------------------------------
(* The rest of Build.                                                      *)

(* The goroutine sends again and again: breaks TypeOK.                     *)
SendAgain(p) ==
    /\ worker[p] = "send" /\ Len(built) <= Cardinality(Packages)
    /\ built' = Append(built, p)
    /\ UNCHANGED <<faults, worker, todo, missing, cache, unit, data, main, repo>>

SendBuilt(p) ==
    /\ worker[p] = "send" /\ Len(built) < Cardinality(Packages)
    /\ built' = Append(built, p)
    /\ Goes(p, "exit")
    /\ UNCHANGED <<faults, todo, missing, cache, unit, data, main, repo>>

(* wg.Done for a compiled package only: breaks BuildEnds.                  *)
DoneIfBuilt(p) ==
    /\ worker[p] = "exit" /\ p \in PathsIn(built)
    /\ Goes(p, "done")
    /\ UNCHANGED <<faults, todo, missing, cache, unit, data, buildVars>>

(* wg.Done                                                                 *)
WorkerDone(p) ==
    /\ worker[p] = "exit"
    /\ Goes(p, "done")
    /\ UNCHANGED <<faults, todo, missing, cache, unit, data, buildVars>>

Worker(p) ==
    /\ main # "panicked"
    /\ \/ ListFails(p) \/ List(p)
       \/ IgnoreTest(p) \/ ListedError(p) \/ CacheListed(p)
       \/ NotFound(p) \/ StartCompile(p)
       \/ SkipUnsafe(p) \/ FindDep(p)
       \/ MissDep(p) \/ ImportFails(p) \/ ImportDep(p)
       \/ DepsMissing(p) \/ DepsLoaded(p)
       \/ CompileFails(p) \/ CompilePanics(p) \/ CompileOK(p)
       \/ SendBuilt(p) \/ WorkerDone(p)

(* Build does not wait for its goroutines: breaks RefinesBuild.            *)
CollectEarly ==
    /\ main = "build" /\ built # <<>>
    /\ repo' = built
    /\ built' = <<>>
    /\ main' = "walk"
    /\ UNCHANGED <<faults, worker, todo, missing, cache, unit, data>>

(* wg.Wait, close(ch), and what is in the channel makes the Repo.          *)
Collect ==
    /\ main = "build" /\ \A p \in Packages : worker[p] = "done"
    /\ repo' = built
    /\ built' = <<>>
    /\ main' = "walk"
    /\ UNCHANGED <<faults, worker, todo, missing, cache, unit, data>>

Finished == main # "build" /\ UNCHANGED vars

Next ==
    \/ \E p \in Packages : Worker(p)
    \/ Collect
    \/ Finished

(* The Go scheduler runs every goroutine that can take a step.             *)
Fairness == WF_vars(Collect) /\ \A p \in Packages : WF_vars(Worker(p))

Spec == Init /\ [][Next]_vars /\ Fairness

---------------------------------------------------------------------------
(* Properties.                                                             *)

Descriptions == [path : Paths, by : Packages]

(* Every variable keeps its type; a description is cached under its path,  *)
(* and no package is built twice or beyond the room of the channel.        *)
TypeOK ==
    /\ faults \subseteq Faults
    /\ worker \in [Packages -> {"list", "cache", "load", "import", "compile", "send", "exit", "done"}]
    /\ todo \in [Packages -> Seq(Paths)]
    /\ missing \in [Packages -> SUBSET Paths]
    /\ DOMAIN cache \subseteq Paths
    /\ \A q \in DOMAIN cache : cache[q] \in Descriptions /\ cache[q].path = q
    /\ unit \in [Packages -> Objects \cup {None}]
    /\ data \in [Objects -> [deps : SUBSET Descriptions, sources : SUBSET Paths]]
    /\ main \in {"build", "walk", "panicked"}
    /\ built \in Seq(Packages) /\ IsInjective(built) /\ Len(built) <= Cardinality(Packages)
    /\ repo \in Seq(Packages)

(* What is in the cache is a description and nothing more: no compilation  *)
(* leaves its dependencies or files there, where the compilations of other *)
(* packages find them ("read only", package_compilation.go:28-38).         *)
CachePristine == \A q \in DOMAIN cache : data[<<"cached", q>>] = Blank

(* All packages are compiled against one and the same description of a     *)
(* dependency, the first one, in whatever order the goroutines list them   *)
(* ("if compilation exists, ignore to set it", package_compiler.go:104).   *)
(* Not so a path that ends in ".test", which each goroutine may import for *)
(* itself.                                                                 *)
OneDescription ==
    \A p1, p2 \in Packages \ {q \in Packages : unit[q] = None} :
        \A d1 \in data[unit[p1]].deps, d2 \in data[unit[p2]].deps :
            d1.path = d2.path /\ d1.path \notin TestPaths => d1 = d2

(* Whether a package is in the repo depends on its own listing, imports    *)
(* and files, never on the other goroutines and their failures.  Not so a  *)
(* package whose path ends in ".test": its own listing ignores it, and it  *)
(* is compiled if another goroutine imported it before.                    *)
Compilable(p) ==
    /\ ~Fault("list", p) /\ ~Fault("source", p)
    /\ \A q \in PathsIn(Listing[p]) \ TestPaths : ~Fault("error", q)
    /\ \A q \in PathsIn(Imports[p]) \ {"unsafe"} :
         /\ ~Fault("no object", q) /\ ~Fault("object", q)
         /\ q \in TestPaths => ~Fault("import", q)

OwnFaultsOnly ==
    \A p \in Packages :
        LET inRepo == p \in PathsIn(built) \cup PathsIn(repo)
        IN  worker[p] = "done" =>
                IF p \in TestPaths
                THEN inRepo => \E r \in Packages : p \in PathsIn(Imports[r])
                ELSE inRepo <=> Compilable(p)

(* Every goroutine reports back, with an error or without, and Build goes  *)
(* on, unless a panic ends the process.                                    *)
BuildEnds == <>(main # "build")

(* The build as ExtractPipeline has it.                                    *)
Pipeline == INSTANCE ExtractPipeline WITH
    Files    <- [p \in Packages |-> IF p \in Bare THEN {} ELSE {<<>>}],
    Sites    <- {},
    Source   <- <<>>,
    Levels   <- {},
    Capacity <- 1,
    NoRule   <- None,
    Absent   <- None,
    rule     <- {},
    patterns <- <<>>,
    wanted   <- {},
    worker   <- [p \in Packages |->
                    IF worker[p] \in {"send", "exit", "done"} THEN worker[p] ELSE "compile"],
    files    <- {},
    calls    <- <<>>,
    logChan  <- <<>>,
    closed   <- FALSE,
    writer   <- IF main = "walk" THEN "receive" ELSE "none",
    pattern  <- None,
    written  <- {},
    lost     <- {}

(* Every step here is a step of ExtractPipeline or leaves it as it is: a   *)
(* package is sent once, after it compiled, and the repo is made when all  *)
(* goroutines are done.                                                    *)
RefinesBuild == [][Pipeline!Next]_(Pipeline!vars)
=============================================================================
