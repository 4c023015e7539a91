# Verification of logutil (`logcov`)

TLA+ models of `logcov`, their TLC runs and their TLAPS proofs. Paths are
relative to the repository; `file:n` is line n of a file under `src/`.

    tlc -workers 2 -config MCScanCli.cfg MCScanPipeline    # a run
    tlapm ScanPipelineProofs.tla                           # a proof

`PROJECT.json` lists components, runs, the code that every definition
translates (`map`), the hazards and the properties that watch them, one mutant
per property, the findings and the theorems.

## 1. The system

`logcov` measures which log statements of a Go program its log files exercise.
Three commands share a LevelDB directory, one after the other:

| command   | reads                          | writes to the store |
|-----------|--------------------------------|---------------------|
| `extract` | the source code                | `rule:` the log levels of interest, `log:<position>` one pattern per log call |
| `scan`    | `rule:`, `log:`, the log files | `cov:<position>` how often each pattern was hit |
| `analyze` | `log:`, `cov:`                 | nothing; prints a report |

| component | state | operations | hard behaviours |
|---|---|---|---|
| assembly lines (`scanner/scanner.go`, `pipeline.go`) | per file: a channel of 1024, a child context, three errors | `Run`, `run`, `runLogScan`, `runMathAndRecord`, `Write`, `Read`, `Close` | two goroutines per file; context end against a send or a receive; close, cancel and wait in the right order; which error wins |
| recorders (`scanner/log_record/`) | `Coverager.logCoverageCount`, `UnknowLogRecord.logs`, behind locks | `Record`, `Flush` | shared by all lines; int32 counters; a flush that fails or dies half way |
| log scanner, zap parser (`scanner/log_scan/log.go`, `parser.go`) | elected parser, content gathered | `Scan`, `scanLog`, `selectLogParser`, `Extract` | logs over several lines; lines that are no logs; the end of the file inside a log |
| file reader (`reader.go`) | the buffer of `bufio.Scanner` | `Scan` | returns a slice of the buffer that the next read may overwrite |
| trie and matcher (`scanner/log_match/`) | trie of signatures | `load`, `Insert`, `Match` | wildcards; shared prefixes; bytes and characters |
| store (`storage/`, `proto/`) | keys with three prefixes; a pool's batch and counters | `write`, `scan` and their wrappers, `WritePool`, `Marshal`, `Unmarshal` | atomic puts, nothing ever deleted; one key space for three kinds of entries; batches that fail as a whole |
| commands (`cmd/`), report (`reporter/`), rule (`pkg/util/`) | none between sessions | `ExtractLogPattern`, `ScanLog`, `Report` | sessions that die, code that changes in between |
| extractor (`extractor/go/`) | cache of packages; channel of 256 patterns | `Build`, `Compile`, `ForEach`, `Run`, `MarkDone` | concurrent compilation over one cache; close of the channel; packages skipped after an error |
| walk and filter (`extractor/go/analyzer/`, `log/fllter.go`) | a stack of nodes | `filterLog`, `matchLog`, `callContext`, `Filter` | the signature is source text, and the log it has to match is not |

The lines of a scan share the matcher (read only), the recorders and the
caller's context. A line's producer and consumer share the channel and the
child context. Everything else passes through the store.

What makes them correct: a scan counts every log once and no log twice, under
every interleaving; only final counts reach the store; what was not counted is
reported; `Run` ends. The scanner partitions the lines of a file into logs and
skipped blocks. The matcher answers the patterns that can have printed a
message, and the pattern of a call is one that its logs match. The store never
holds coverage without its pattern, and gives back under each position what was
entered there. A package is compiled by its own merits, whatever the other
goroutines do.

## 2. Modules

| module | models | abstract specification |
|---|---|---|
| `ScanPipeline` | a whole `scan` session: lines, channels, contexts, recorders, flush, kill | `CoverageLedger` |
| `CoverageLedger` | what a scan promises the store: hits entered once, sealed, published as totals | |
| `LogAssembly` | `LogScanner.Scan` and the zap parser on one file | |
| `ReadBuffer` | the bytes behind it: `bufio`'s buffer, slices and `append` | |
| `PatternTrie` | building the trie, `Match` and its filter | the wildcard meaning `Globs` and the printing meaning `Prints` |
| `CallMatching` | from a log call in a syntax tree to the pattern and back from its log, over `PatternTrie` | |
| `StoreLifecycle` | the sequence of sessions on a store | |
| `PatternStore` | keys, values, scans, `WritePool`, the report's view of positions | `EntityStore` |
| `EntityStore` | what the store promises: per kind and position the message entered last | |
| `WireFormat` | `Size`, `Marshal` and `Unmarshal` of the stored messages | |
| `ExtractPipeline` | an `extract` session: goroutines of `Build`, walk, channel, writer | `StoreLifecycle` |
| `PackageCache` | the inside of `Build`: listing, cache, clones, dependencies | the build of `ExtractPipeline` |
| `ScanPipelineProofs`, `StoreLifecycleProofs`, `ExtractPipelineProofs`, `PackageCacheProofs`, `LogAssemblyProofs`, `ReadBufferProofs`, `CallMatchingProofs` | theorems about the module of that name (the last one also about `PatternTrie`) | |
| `SequenceLemmas` | lemmas on sequences and recursive functions for the last five | |
| `MC*` | instances for TLC | |

**ScanPipeline.** One action per step that another goroutine can see. The
select of `Write` and the `ctx.Err()` after it are two steps (`WriteSend` or
`WriteCtxDone`, then `WriteReturn`), because the context may end between them:
a payload that was sent can be reported as not sent, and a payload can only be
dropped with an error. `Read` waits on the caller's context and not on
`lineCtx`, as `scanner.go:118` has it. `Record` is one step: it holds the
lock. The lines of `run` after `runMathAndRecord` are `CancelLine` and
`Finish`. `retErr` and `err1` are written by the producer before `wg.Done` and
read after `wg.Wait`. `Flush` is one step per put, with a failing put
(`FlushFail`) and a kill at any point (`Crash`). What a file contains and what
`Match` answers are data here: a log is the set of patterns it hits, whether
the rule takes its level, and its position. `ctx` of the caller is a
parameter: `scan` passes `context.Background()`, `Run` accepts any.
`scanned` and `consumed` are histories; the properties count with them.

**LogAssembly.** A line is a sequence of tokens: `[`, `]`, a space, the halves
of a level name (a level can be cut by the end of a line) and other text.
`Outcome` is `ZapLog.Extract`: the first of the four fields that fails
decides. `Closers` are the `]` of the line: field k ends at the k-th (`Closer`), and the next
one begins behind it (`FieldStart`).

**ReadBuffer.** A byte is `<<line, column>>`, so a misplaced byte is visible.
`bufio.Scanner` is not part of the repository and modelled from its
behaviour: a refill of any length, the shift when the buffer is full or half
used, `ErrTooLong`, the last line without a newline. `append` writes into the
buffer if the slice has room behind it. What the parser answers is
nondeterministic.

**PatternTrie.** The trie is the set of its paths. `MatchNode` is the search
in `matchNode` with its loop turned into recursion, exits and missing cases
included: a recursive function of the node and of the place in the message.
Levels and positions are in lower case. The bytes `u` and `v` make one character;
a signature is UTF-8, as Go source is, and a message is any bytes, since a log
file may hold anything. `WideVerb` says that the low byte of this character is in the
table of verbs (as that of `Ť`, U+0164, is `d`): the byte `u` then ends a placeholder
(`Taken`), since `repalceFormatPlaceholder` ranges over characters and returns the
place of a byte.

**StoreLifecycle.** Sessions do not overlap (LevelDB locks an open database,
`storage/leveldb/leveldb.go:93`). A put is atomic. A position without coverage is
`Absent`, not 0, because a count that wrapped to 0 is an entry all the same
(`reporter/coverager.go:86` looks at no count). A session is its sequence
of puts: `extract` writes the rule, then each pattern, and goes on after a
failed pattern or a package that does not compile; `scan` writes final counts and stops at the first failure;
`analyze` is one reading step. Any session may die between two puts.

**CallMatching.** The syntax tree is a function from nodes to records with their
parent; `PatternsOf` is `filterLog`, `matchLog` and `isCall` for one literal,
`Filter` the table of function names. `Quoted` is the logger (external): a
message with a space, `=`, a bracket or a quote is printed in quotes. `Msg` is
what `ZapLog.Extract` keeps of it. `CallFound` takes what every call of the tree
prints through the parser to a trie with the extracted patterns and others, and
says when its own pattern answers: if the log is `Traceable`, and, for a log that is
`Plain`, only then. A place is file and line, which is all that the matcher compares.

**WireFormat, PatternStore, EntityStore.** Bytes are numbers. A varint is cut into
its ten groups of seven bits, a field is a number, a wire type and a value;
`Fields` is the loop that every `Unmarshal` repeats, errors included. The order in
which `Marshal` visits a map is a choice. `InBuffer` makes the buffer that `Size`
asked for, so a `Size` that is too small shows. LevelDB is a function from keys
to values with ordered scans; a batch goes in as a whole or fails. `seen`, a
history variable, is what scans of the database and the batch of the pool
decode to: `RefinesEntities` maps the entities and the staged puts of
`EntityStore` to it, so that every step is a step on messages, whatever the bytes
do. `PosToStr` has its numbers in one piece, since digits cannot run into a colon.

**PackageCache.** A goroutine's own steps that touch the cache are single steps (it
holds the lock), everything between two of them is open to the others: the
look-up of a dependency, its import and its entry are `MissDep` and `ImportDep`.
A description carries the package that asked for it, so that two descriptions of
one path can be told apart. `data` is what `Compile` writes into an object,
for the objects in the cache as well as for clones. What `go list`, the importer,
the type checker and the disk answer is a set of faults that is chosen at the
start and holds for the whole build: a path that is listed without its export data
(`package_list.go:72`, `package_compilation.go:118`) is so in every goroutine's
listing, as it is when the code base and the build cache stay the same while `Build`
runs. `OwnFaultsOnly` and `OneDescription` are about such builds. `RefinesBuild` maps every step up to the send to `CompileOK`,
`CompileFails` or `CompilePanics` of `ExtractPipeline`, or to no step.

**ExtractPipeline.** `Build` starts a goroutine per package; each sends its
result or logs an error. `Collect` is `wg.Wait`, the close and the drain of
their channel. The walk visits packages in that order, files in any order (a Go
map), calls in file order, and sends to a bounded channel that the writing
goroutine empties into the store. `CompilePanics` is a package without a file
in `GoFiles`: `fetchAllPkgs` takes every directory with a `.go` file, and `go
list` has no error for one that holds tests only. What the compiler and the AST say is data. The session
starts on any old store. `RefinesSession` maps the compiled and unwritten
patterns to `toWrite`, so `EndExtract` of `StoreLifecycle`, which needs that
set empty, says that nothing is left when `extract` returns.

## 3. Runs

| run | instance | shows |
|---|---|---|
| `scan_cli` | 2 files, channel of 1, 2 logs per file, 3 kinds of logs (two patterns, unknown, not wanted), counters that wrap at 2, context that never ends | `Conservation`, `CoverageExact`, `UnknownExact`, `StoredIsFinal`, `WholeRun` |
| `scan_ctx` | 2 lines on one path, deadline at any moment | `Termination`, `RefinesLedger`, `NilMeansAll` |
| `log_assembly` | all files of up to 4 lines of 13 kinds | `BlocksExact`, `AtMostOneLost`, `ScanEnds` |
| `read_buffer` | buffer of 5 bytes, files of up to 4 lines of up to 3 bytes, all ways to cut them into reads | `IntactUntilShift` |
| `pattern_trie` | all pairs of 34 patterns, 9 of them extracted from a file with 11 calls; all ASCII messages of up to 3 bytes over 4 symbols, three that are not ASCII (one not UTF-8 either), and what the calls print | `MatchSound`, `MatchFinds`, `CallFound` |
| `store_lifecycle` | 2 positions, 2 levels, counts -1, 0 and 1 | `CoverageHasPattern`, `RuleFirst`, `ExtractComplete`, `ScanComplete` |
| `extract_pipeline` | 3 packages (one empty), 3 files, 4 calls, channel of 1, any rule and old store over 2 levels | `NoSendOnClosed`, `Termination`, `RefinesSession` |
| `package_cache` | 4 packages: two that share a library, one that is listed and a dependency of another, one with tests only, one whose path ends in `.test`; a package that imports `unsafe`; any two of 7 faults | `CachePristine`, `OneDescription`, `OwnFaultsOnly`, `BuildEnds`, `RefinesBuild` |
| `pattern_store` | 3 calls with 11 messages, a pool of 2 writes or 300 bytes, failing writes, reopening | `RefinesEntities`, `ReportAgrees`, `CutNoticed` |
| `first_line` | files of up to 2 lines | `EndsAtEOF` is violated |
| `buffer_shift` | as `read_buffer` | `ContentIntact` is violated |
| `rune_signature` | one signature with a two-byte character | `MatchFindsAll` is violated |

Bounds. Two lines are the smallest number that interleaves on a counter, and
two logs per file on a channel of one make the producer block, the channel
close while it is not empty, and a cancel meet a blocked producer. `MaxInt32 =
2` in `scan_cli` makes the counters wrap; the counting properties state the
exact total up to that limit. `scan_ctx` uses the deadline because `run`
treats it apart from a cancellation; the theorems hold for both. Four lines of
log text hold a cut log, its rest, a good log and the next one. Two calls in one file fill a channel of one, and two files and two
packages give the walk its orders. Five bytes of
buffer are enough for a line to be half read, for the shift at more than half
and the shift when full. Three bytes of message let two wildcards share text
in every way. The file of `CallMatching` has one call of each kind that the code
or the logger treats apart: with and without formatting verbs, a word, a raw
string, the message on the next line, two literals in one call, a function that
does not log, a variable of function type, a message put together by `+`, a raw string of one
placeholder, a placeholder without its verb, a character of two bytes. In
`pattern_store` positions differ in one field or swap two, lengths and numbers
lie on both sides of 128, counts are negative, smallest, largest and zero, and a
sub-message is missing; three calls are enough for an entry of one kind, one of
another and an overwrite, and for a pool to fill and go on. `CutNoticed` looks at
every prefix of a value while it is the only one, since what a value is read as
does not depend on the others. In `package_cache` two goroutines race for each of
the two shared entries, and two faults hit a package and its dependency. The
proofs remove the bounds for the safety properties of all passing runs but
`pattern_store`.

Fairness. `ScanPipeline` assumes weak fairness of each goroutine (the Go
scheduler runs what can run; a goroutine never waits for a condition that
another one can take away again, so weak fairness is enough), of
the propagation of a context to its children and of the main goroutine. It
does not assume that a context ends, that a file is read without errors or
that the process is killed. Files are finite (`MaxLogs`). `ExtractPipeline` assumes the same of `extract`'s
goroutines: `Main`, `Writer` and each worker; `PackageCache` of each worker and of the
goroutine that waits for them. A worker that waits for a lock gets it, since
each critical section is one step. `LogAssembly`
assumes that the one goroutine that scans keeps running.

The deadlock check is on in every run; ended processes and files stutter
explicitly.

## 4. Proofs

`ScanPipelineProofs`: for any finite set of lines, any patterns, positions, logs,
capacity, context behaviour and counter width, the safety properties of the
two scan runs and the refinement hold. The properties are not inductive:
`StoredIsFinal` needs that no line records after all are done, and `WholeRun`
that a closed and drained channel means that everything was taken. The
inductive invariant `IInv` adds

- `Control`: the program counters against `closed`, the contexts and the
  results (a channel is closed exactly when the producer is past the close;
  a matching side without an error saw the channel closed and empty; a
  cancelled `lineCtx` means an ended caller or a line past `cancel`);
- `PipeInv`: `Conservation` with the program counter that says which log is
  outside the channel;
- `PayloadInv`: a consumer works on the log it read last;
- `StoreInv`: the entries written are those of `covered \ toFlush`.

Each action preserves each part, with lemmas on appending to a channel, on
taking from it and on the cardinality of the set of recorded hits. The
refinement maps `ledger[p]` to the hits recorded, `sealed` to "all lines
done": `RecordCoverage` is `Observe`, the last `Finish` is `Seal`, `FlushOne`
is `Publish`, the end of the process is `Stop`, every other step stutters.
`CoverageLedger` counts without a width, so the refinement is stated, as the
theorem says, for totals that fit the counters.

`StoreLifecycleProofs`: for any finite set of positions, any levels and any
counts, the invariant adds that a scan's hits are patterns of the store
(patterns are never removed and no session overlaps), that an extract past its
rule has stored it, and which patterns or counts are still to be written.

`ExtractPipelineProofs`: for any packages, files, log calls, rules, old stores and
channel size. `NoSendOnClosed` and `RefinesSession` follow from one idea, that each
log call is in exactly one place: in a package that is still ahead, in a file that
waits, among the calls of the current file, in the channel or the writer's hand,
or handled (written, or lost to a failed put). `OnePlace` says that no call is in
two places, `SomePlace` that no wanted call is in none, `SentOnce` that a package is
sent once, which bounds `Build`'s channel, and `Phases` what the main goroutine may
rely on after each `Wait` and close. When `extract` returns, every place but the last
is empty; this is what `EndExtract` of `StoreLifecycle` asks for. Each action of the
pipeline is `StartExtract`, `WriteRule`, `WritePattern`, `Skip`, `EndExtract`, `Die`
or a stutter there (`SessionRefinement`).

`PackageCacheProofs`: for any packages, listings, imports, test paths and faults, and
any number of goroutines. `Goroutine(p)` says what a goroutine has got done at each
program counter (`Caching`, `Loading`, `Outcome`), only in terms of what others
cannot take back: the cache grows and an entry never changes. `Shared` says what
goroutines do share, descriptions of the cache. `CacheStaysPristine` and
`DescriptionsAgree` come from `Shared`, `OutcomesApart` from `Outcome`. An action of
one goroutine has to be shown not to disturb the others: the lemmas on `Grows`,
`Adds` and `Apart`. `BuildRefinement` maps the steps before the send to one step of
`ExtractPipeline`, in an instance whose files hold no log calls: the phase after the
build is not in `PackageCache`.

`LogAssemblyProofs`: for lines of any tokens, any length and any number. `BlocksExact`
lacks two things to be inductive: that content is what was read since the last block
(`Pending`), and that every shorter run of the lines gathered was incomplete
(`Gathering`), which makes a log the shortest run. `AtMostOneLost` needs in addition
that a line that was read inside a log and left it incomplete is no complete log
itself. This is a fact about `Outcome` (`CompleteEnds`): a complete line has a `]`
for each of the four fields, a content that ends with it has at least as many,
and is a log or to be skipped, never incomplete. `NoneLost` is that part of the invariant.

`ReadBufferProofs`: for a buffer of any size and lines of any number and length, read
in pieces of any length. `Where(i)` is the place in the file after i lines, `Place` the
one where the unread part of the buffer begins. Until a shift the two agree, the
unread part is the file's (`Exact`), and a slice lies before it (`Kept`), so that
`append` in place writes only over bytes that have been read: `ContentIsTheFile`.
`Counted` is what survives a shift: the unread part may be overwritten then, but
`append` brings no newline, so every newline in the buffer is one of the file at its
place, and the reader never counts more lines than there are. Without it
`TypeOK`, which bounds the lines by the file, could not be proved.

`CallMatchingProofs`: for any patterns in UTF-8, any messages and any syntax trees.
The inductive invariant `TrieInv` says that the prefixes of an item are items and the
root is none (`Trie`), that a loaded pattern is in the item of its path and in no
other (`Holds`), and that a result belongs to the trie as it is: nothing is loaded
between `Match` and `Return` (`Answer`). Each load preserves it, whatever was loaded
before (`InsertTrie`, `InsertHolds`). The rest is about what the recursive functions
compute:

- `PathIs`, `GlobsIs`, `PrintsIs` and `MatchIs`: the functions exist and satisfy
  their equations. The first three descend by a place in a text, `MatchNode` by
  the depth of a node, which `Trie` and the finiteness of the items bound.
- `PrintsGlobs`: what a signature prints, its path stands for. A placeholder ends for
  the path with a byte of `Taken`, for what is printed with one of `Verbs`; `Aligned`
  shows that these are the same place, or half of a character is left in the path.
- `SearchSound`: for an item that the search finds from a node and a place, the rest
  of its path stands for the rest of the message; `SearchFinds` is the converse.
  `MatchMoves` splits the search into its three ways down, `NodeInduction` follows
  them. A character of several bytes leads down by its first byte alone, so soundness
  (`MoveSound`) needs characters to be whole in the message and in the path: this is
  where UTF-8 enters (`PathWhole`).
- `Sound` and `Complete` follow with the filter `Suits`; `TypeCorrect` from `Holds`.
- `CallsFound`: a traceable log is its text between quotes, which the literal of
  the call prints (`PrintsWrapped`), so `Complete` applies. Conversely a message that
  is found begins and ends as the path of the literal does (`GlobsEnds`), with
  a quote; a plain text has none, so the logger put it there and no `]` cut it off.

Two statements turned out to be false while their proofs failed, and the model was put
right. `MatchSound` does not hold for a message that is not UTF-8: of `<<u, v, v>>` the
search takes the first byte of the character and the stray one, and finds the
signature `<<u, v>>`. The "only if" of `CallFound` has the exceptions that `Plain`
excludes (section 5).

Induction. The induction theorems of the library take an operator as parameter,
which the provers cannot instantiate. What needs induction goes through the
least element of the set of counterexamples: `Least`, `Induction` and, downwards,
`Countdown` in `SequenceLemmas`. tlapm knows nothing of a recursive function but
its definition, a choice of some function that satisfies its equation; that there is
one is `Recursion`, for a recursion that goes down in a measure, and what it computes is
then shown by induction, as for `FlattenSeq` of the community modules.

Assumed: the named `ASSUME`s of the modules, which every run evaluates. Most say what
kind of value a constant is. Those that say more:

- `PositionAssumption` (`ExtractPipeline`): one log call at a position. A position
  carries file, line and byte offset (`analyzer.go:88`), a directory is one
  package, and `fetchAllPkgs` keys packages by directory. Without it a call could be
  written twice and counted once.
- `ListingAssumption` (`PackageCache`): `go list -deps` lists the package and all it
  imports.
- `PatternAssumption` (`PatternTrie`): signatures are UTF-8. They are literals as the
  source writes them (`analyzer.go:104`), and Go source is UTF-8.
- `VerbAssumption` (`PatternTrie`): the verbs are ASCII.
- `TextAssumption` (`CallMatching`): the two quotes are different bytes, none of a
  wildcard, a `%`, a `]` or part of a longer character.
- `RuleAssumption`, `OldAssumption`, `QueryAssumption` and the like keep a missing
  entry, option or query apart from every real one.

A proof that failed corrected the model of `PackageCache` as well: `OwnFaultsOnly` could
not be proved where a package imports `unsafe`. `go list -deps` does list `unsafe`, so it
gets into the cache, but `loadDepPkgs` passes it over (`package_compilation.go:116`).
`FindDep` has that guard now, and the instance of `package_cache` such a package.

Only model-checked: `Termination`, `ScanEnds` and `BuildEnds`, which are liveness;
and `TypeOK`, `ReportAgrees`, `CutNoticed` and `RefinesEntities` of `PatternStore`. It
rests on `WireFormat`, whose decoder is made of RECURSIVE operators, with which tlapm
loses its SMT backend. `ReportAgrees` and `RefinesEntities` need that decoding undoes
encoding, `CutNoticed` what decoding does to every prefix: inductions over bytes and
over messages inside messages.

## 5. Findings

1. `first_line`: a first line that elects no parser ends the scan of its file
   (`scanner/log_scan/log.go:51`), noted as a bug in `parser_test.go:36`.
2. `buffer_shift`: a log over two lines can be parsed from overwritten bytes
   (`reader.go:49`, `log.go:97`).
3. `rune_signature`: signatures with a multi-byte character never match
   (`pattern_trie.go:165`).

Behaviour that the properties state as it is, since no document contradicts it:

- A directory with nothing but tests ends `extract` with a panic: `compile` reads
  `astFiles[0]` of no files (`package_compilation.go:190`), and nothing recovers.
  `build.go:54` skips a package that cannot be compiled. `CompilePanics` of
  `ExtractPipeline` and `PackageCache` has the panic; `BuildEnds` and
  `Termination` take it for an end.
- A log finds its call only if call and message stand on the same line (the
  matcher compares the line of the literal, the logger prints that of the call),
  the message is an interpreted string, the logger quotes it (a message of one
  word is not quoted, its signature is), and it has no `]`, where the parser ends
  the message (`analyzer.go:92-108`, `parser.go:139`): `Traceable` in
  `CallFound`. Three kinds of logs may find their call in spite of that, and `Plain`
  leaves them out: a text that has a quote where the pattern has one; one printed for
  a placeholder without a verb, which takes the closing quote of the pattern as
  its own (`pattern_trie.go:232`); and one that is not UTF-8. Other literal arguments
  of a log call make patterns as well.
- A message that is not UTF-8 may be counted for a signature that it does not fit, as
  above (`pattern_trie.go:165`): `MatchSound` is about UTF-8.
- A package whose path ends in `.test` is compiled only if another one imported
  it before, and each goroutine may import it for itself: the exceptions in
  `OwnFaultsOnly` and `OneDescription` (`package_compiler.go:60`).
- `Build` ignores an error of `dirToImport` for a directory (`build.go:99`) and
  compiles the empty import path, which fails like any other package.
- `WritePool.Flush` forgets its batch also when writing it failed
  (`keyvalue.go:166`): `StageAndLose` and `FlushFails` of `EntityStore`.
- The error of a line is only logged: `Run` returns nil for a file that was
  read in part (`scanner.go:65`). `WholeRun` is therefore about the logs that
  `Scan` returned, and `NilMeansAll` about the result of each line.
- A line whose matching side met the deadline returns nil if its producer did
  (`scanner.go:122`): the exception in `NilMeansAll`.
- Two trailing placeholders match only a message that goes on
  (`pattern_trie.go:169`): the first exception in `MatchFinds`. The comment at line 13
  asks for an asterisk at the end only.
- A multi-byte character between a `%` and its verb is taken for the verb if its low
  byte is in the table, and only its first byte is consumed (`pattern_trie.go:243`):
  the path goes on with the rest of the character (`HasHalf`), which no printed
  message has to contain. This is the second exception in `MatchFinds`.
- `BlocksExact` and `AtMostOneLost` hold although a cut log swallows the good
  log after it: at most that one.
- Coverage of an earlier scan stays for patterns that the next one does not
  hit; patterns of calls that are gone stay as well (`keyvalue.go` has no
  delete).

## 6. Not modelled

- Cobra flags, the TOML file of the rule, the report template: I/O and layout.
  `analyze --output` sets `OutReport`, and the command looks at `extract`'s
  `Output` instead (`cmd/analyze.go:37`), so its report always goes to stdout.
- Running `go list` and the environment it gets; the type checker; reading export
  data (`packageImporter.Import`): external, their failures are faults of
  `PackageCache`. Cgo's `"C"` is in no listing; a package that imports it is
  always "missing 1 imports", as one with a failing import is.
- `RepoForPackage` and `VCSPath`: they fill `PackageCompilation.PackagePath`, which
  nothing reads; `extract.go:111` sets the repository of every pattern.
- `UnknowLogPattern`'s encoding (such messages are only kept in memory), getters,
  `String` and the descriptor of the generated code.
- `Get`, `ScanRange` and `Seek` of the store, which nothing calls and which change
  nothing. `WritePool` has no caller in the program either; it is modelled as the
  package offers it.
- Colons in a repository's or a file's name, which would let `PosToStr` confuse two
  positions: `ReportAgrees` is checked for names without.
- `test/`, `tools/`, `logcovuml/` and `out/` are data and documents.

## 7. Plan

Done: 1. `ScanPipeline` over `CoverageLedger`, with proofs; 2. `LogAssembly`;
3. `ReadBuffer`; 4. `PatternTrie`; 5. `StoreLifecycle`, with proofs;
6. `ExtractPipeline` over `StoreLifecycle`; 7. `PackageCache` over
`ExtractPipeline`; 8. `CallMatching` over `PatternTrie`; 9. `PatternStore` over
`EntityStore`, with `WireFormat`;
10. proofs of `ExtractPipeline`, `PackageCache`, `LogAssembly` and `ReadBuffer`, with
their refinements; 11. proofs of `PatternTrie` and `CallMatching`, with their recursion
as recursive functions.

Next:

12. `EntityStore` and the part of `PatternStore` above the encoding: keys, prefix
    scans and the pool, with `WireFormat`'s recursion as recursive functions, so that
    `RefinesEntities` can be proved from the fact that decoding undoes encoding;
13. properties of the compilation of one package (`file_compilation.go`), if the
    present faults turn out too coarse.
