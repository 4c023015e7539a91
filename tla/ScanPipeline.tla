--------------------------- MODULE ScanPipeline ---------------------------
(***************************************************************************)
(* `logcov scan`: one assembly line per log file, two goroutines per line  *)
(* joined by a bounded channel, and one coverage recorder that all lines   *)
(* share and that the main goroutine writes to the store at the end        *)
(* (scanner/scanner.go, scanner/pipeline.go, scanner/log_record/).         *)
(*                                                                         *)
(*   producer[l]   runLogScan: LogScanner.Scan, then Pipeline.Write        *)
(*   consumer[l]   runMathAndRecord: Pipeline.Read, Match, Record; then    *)
(*                 the rest of assemLine.run                               *)
(*   main          LogProcessor.Run                                        *)
(*                                                                         *)
(* What a file holds and what the matcher answers are data: a log is the   *)
(* set of patterns Match finds for it, whether the rule wants its level,   *)
(* and its position.  LogAssembly models Scan and PatternTrie models Match.*)
(***************************************************************************)
EXTENDS Integers, Sequences, FiniteSets

CONSTANTS
    Lines,        \* the assembly lines, one per path given to `logcov scan`
    LogPath,      \* LogPath[l]: the path line l reads (a path may come twice)
    Patterns,     \* ids of the patterns loaded from the store
    Positions,    \* values of the position field of a log
    Logs,         \* the logs Scan may return
    Capacity,     \* size of a pipeline's channel (1024 in the code)
    CtxEnds,      \* how the caller's context may end; {} for context.Background()
    MaxInt32,     \* largest value of the int32 counters
    NoLog,        \* a payload variable before the first Read
    OldCoverage,  \* what the store held under a pattern's key before this scan
    MaxLogs       \* bound of the model: logs per file

CtxErrs == {"canceled", "deadline"}
Paths == {LogPath[l] : l \in Lines}

ASSUME LinesAssumption == IsFiniteSet(Lines) /\ Lines # {}
ASSUME LogsAssumption ==
    Logs \subseteq [hits : SUBSET Patterns, inRule : BOOLEAN, position : Positions]
ASSUME CapacityAssumption == Capacity \in Nat \ {0}
ASSUME CtxAssumption == CtxEnds \subseteq CtxErrs
ASSUME CounterAssumption == MaxInt32 \in Nat
ASSUME OldAssumption == OldCoverage \notin [count : Int, byLog : [Paths -> Int]]
ASSUME BoundAssumption == MaxLogs \in Nat

VARIABLES
    scanned,    \* per line, the logs Scan has returned so far (a history)
    source,     \* per line, how far the file was read: "open", "eof", "broken"
    producer,   \* per line, the program counter of the producer goroutine
    err1,       \* per line, what runLogScan returned
    pipe,       \* per line, the contents of the channel
    closed,     \* per line, whether the channel is closed
    ctx,        \* the caller's context: "live", or the reason it ended
    lctx,       \* per line, the child context lineCtx
    consumer,   \* per line, the program counter of the line's own goroutine
    consumed,   \* per line, the number of payloads Read has returned (a history)
    payload,    \* per line, the payload Read returned last
    todo,       \* per line, patterns of the payload not recorded yet
    err2,       \* per line, what runMathAndRecord returned
    retErr,     \* per line, the result of run
    covered,    \* the keys of Coverager.logCoverageCount
    covCount,   \* per pattern, Coverage.CovCount
    covByLog,   \* per pattern and path, Coverage.CovCountByLog (0: no entry)
    unkCount,   \* per position, UnknowLogPattern.CovCount (0: no entry)
    unkByLog,   \* per position and path, UnknowLogPattern.CovCountByLog
    main,       \* the program counter of the main goroutine
    toFlush,    \* the keys Coverager.Flush has not visited yet
    runErr,     \* whether Run returned an error
    stored      \* per pattern, the coverage entry of the store

producerVars == <<scanned, source, producer, err1>>
consumerVars == <<consumer, consumed, payload, todo, err2>>
coverVars    == <<covered, covCount, covByLog>>
unknownVars  == <<unkCount, unkByLog>>
mainVars     == <<main, toFlush, runErr, stored>>
lineVars     == <<producerVars, pipe, closed, ctx, lctx, consumerVars, retErr,
                  coverVars, unknownVars>>
sharedVars   == <<coverVars, unknownVars, mainVars>>
downstream   == <<consumerVars, sharedVars>>
vars == <<lineVars, mainVars>>

(* The coverage message that Flush writes for pattern p. *)
Entry(p) == [count |-> covCount[p], byLog |-> covByLog[p]]

(* The process is alive: a goroutine can take a step. *)
Running == main \notin {"returned", "crashed"}

Int32 == (-MaxInt32 - 1) .. MaxInt32

(* A counter without a width: breaks TypeOK.                               *)
IncrWide(n) == n + 1

(* count + 1 on an int32. *)
Incr(n) == IF n = MaxInt32 THEN -MaxInt32 - 1 ELSE n + 1

(* Both arms of the map update set 1: breaks CoverageExact, UnknownExact.  *)
BumpReset(byLog, f) == [byLog EXCEPT ![f] = 1]

(* CovCountByLog[path] = count + 1, or 1 when the map has no entry.        *)
Bump(byLog, f) == [byLog EXCEPT ![f] = Incr(@)]

Init ==
    /\ scanned  = [l \in Lines |-> <<>>]
    /\ source   = [l \in Lines |-> "open"]
    /\ producer = [l \in Lines |-> "scan"]
    /\ err1     = [l \in Lines |-> "nil"]
    /\ pipe     = [l \in Lines |-> <<>>]
    /\ closed   = [l \in Lines |-> FALSE]
    /\ ctx      = "live"
    /\ lctx     = [l \in Lines |-> "live"]
    /\ consumer = [l \in Lines |-> "read"]
    /\ consumed = [l \in Lines |-> 0]
    /\ payload  = [l \in Lines |-> NoLog]
    /\ todo     = [l \in Lines |-> {}]
    /\ err2     = [l \in Lines |-> "nil"]
    /\ retErr   = [l \in Lines |-> "nil"]
    /\ covered  = {}
    /\ covCount = [p \in Patterns |-> 0]
    /\ covByLog = [p \in Patterns |-> [f \in Paths |-> 0]]
    /\ unkCount = [q \in Positions |-> 0]
    /\ unkByLog = [q \in Positions |-> [f \in Paths |-> 0]]
    /\ main     = "wait"
    /\ toFlush  = {}
    /\ runErr   = FALSE
    /\ stored   = [p \in Patterns |-> OldCoverage]

---------------------------------------------------------------------------
(***************************************************************************)
(* The producer goroutine (scanner.go:107-116, runLogScan).                *)
(***************************************************************************)

(* LogScanner.Scan returns the next log of the file. *)
ScanLog(l, lg) ==
    /\ Running
    /\ producer[l] = "scan" /\ Len(scanned[l]) < MaxLogs
    /\ scanned' = [scanned EXCEPT ![l] = Append(@, lg)]
    /\ producer' = [producer EXCEPT ![l] = "send"]
    /\ UNCHANGED <<source, err1, pipe, closed, ctx, lctx, retErr, downstream>>

(* Scan returns io.EOF: runLogScan returns nil. *)
ScanEOF(l) ==
    /\ Running
    /\ producer[l] = "scan"
    /\ source' = [source EXCEPT ![l] = "eof"]
    /\ producer' = [producer EXCEPT ![l] = "close"]
    /\ UNCHANGED <<scanned, err1, pipe, closed, ctx, lctx, retErr, downstream>>

(* Scan returns any other error (no parser, line too long, read error). *)
ScanError(l) ==
    /\ Running
    /\ producer[l] = "scan"
    /\ source' = [source EXCEPT ![l] = "broken"]
    /\ err1' = [err1 EXCEPT ![l] = "scan"]
    /\ producer' = [producer EXCEPT ![l] = "close"]
    /\ UNCHANGED <<scanned, pipe, closed, ctx, lctx, retErr, downstream>>

(* Pipeline.Write, the send case of its select: blocked while full. *)
WriteSend(l) ==
    /\ Running
    /\ producer[l] = "send" /\ Len(pipe[l]) < Capacity
    /\ pipe' = [pipe EXCEPT ![l] = Append(@, scanned[l][Len(scanned[l])])]
    /\ producer' = [producer EXCEPT ![l] = "sent"]
    /\ UNCHANGED <<scanned, source, err1, closed, ctx, lctx, retErr,
                   downstream>>

(* A non-blocking write (select with a default): breaks Conservation.      *)
WriteDrop(l) ==
    /\ Running
    /\ producer[l] = "send"
    /\ producer' = [producer EXCEPT ![l] = "sent"]
    /\ UNCHANGED <<scanned, source, err1, pipe, closed, ctx, lctx, retErr,
                   downstream>>

(* Pipeline.Write, the ctx.Done case: the payload is dropped. *)
WriteCtxDone(l) ==
    /\ Running
    /\ producer[l] = "send" /\ lctx[l] # "live"
    /\ producer' = [producer EXCEPT ![l] = "sent"]
    /\ UNCHANGED <<scanned, source, err1, pipe, closed, ctx, lctx, retErr,
                   downstream>>

(* Write returns ctx.Err(), whichever case its select took; runLogScan       *)
(* goes on when it is nil and returns it when it is not.                     *)
WriteReturn(l) ==
    /\ Running
    /\ producer[l] = "sent"
    /\ IF lctx[l] = "live"
          THEN /\ producer' = [producer EXCEPT ![l] = "scan"]
               /\ UNCHANGED err1
          ELSE /\ producer' = [producer EXCEPT ![l] = "close"]
               /\ err1' = [err1 EXCEPT ![l] = lctx[l]]
    /\ UNCHANGED <<scanned, source, pipe, closed, ctx, lctx, retErr,
                   downstream>>

(* Close only after a clean end of file: breaks Termination.                 *)
CloseOnSuccess(l) ==
    /\ Running
    /\ producer[l] = "close"
    /\ retErr' = [retErr EXCEPT ![l] = err1[l]]
    /\ closed' = [closed EXCEPT ![l] = err1[l] = "nil"]
    /\ producer' = [producer EXCEPT ![l] = "closed"]
    /\ UNCHANGED <<scanned, source, err1, pipe, ctx, lctx, downstream>>

(* retErr = err1; pipeline.Close() *)
ClosePipeline(l) ==
    /\ Running
    /\ producer[l] = "close"
    /\ retErr' = [retErr EXCEPT ![l] = err1[l]]
    /\ closed' = [closed EXCEPT ![l] = TRUE]
    /\ producer' = [producer EXCEPT ![l] = "closed"]
    /\ UNCHANGED <<scanned, source, err1, pipe, ctx, lctx, downstream>>

(* wg.Done() *)
ProducerDone(l) ==
    /\ Running
    /\ producer[l] = "closed"
    /\ producer' = [producer EXCEPT ![l] = "done"]
    /\ UNCHANGED <<scanned, source, err1, pipe, closed, ctx, lctx, retErr,
                   downstream>>

Producer(l) ==
    \/ \E lg \in Logs : ScanLog(l, lg)
    \/ ScanEOF(l)
    \/ ScanError(l)
    \/ WriteSend(l)
    \/ WriteCtxDone(l)
    \/ WriteReturn(l)
    \/ ClosePipeline(l)
    \/ ProducerDone(l)

---------------------------------------------------------------------------
(***************************************************************************)
(* The line's own goroutine (runMathAndRecord, scanner.go:118-127).        *)
(***************************************************************************)

(* Pipeline.Read returns a payload; Match finds the patterns to record.      *)
(* Without one, the log is unknown when the rule wants its level and         *)
(* ignored when it does not.                                                 *)
ReadPayload(l) ==
    /\ Running
    /\ consumer[l] = "read" /\ pipe[l] # <<>>
    /\ LET lg == Head(pipe[l])
       IN  /\ payload' = [payload EXCEPT ![l] = lg]
           /\ todo' = [todo EXCEPT ![l] = lg.hits]
           /\ consumer' = [consumer EXCEPT ![l] =
                              IF lg.hits # {} THEN "record"
                              ELSE IF lg.inRule THEN "unknown" ELSE "read"]
    /\ pipe' = [pipe EXCEPT ![l] = Tail(@)]
    /\ consumed' = [consumed EXCEPT ![l] = @ + 1]
    /\ UNCHANGED <<producerVars, closed, ctx, lctx, err2, retErr, sharedVars>>

(* End of stream reported with payloads left: breaks NilMeansAll, WholeRun.  *)
ReadEOFEarly(l) ==
    /\ Running
    /\ consumer[l] = "read" /\ closed[l]
    /\ consumer' = [consumer EXCEPT ![l] = "cancel"]
    /\ UNCHANGED <<producerVars, pipe, closed, ctx, lctx, consumed, payload,
                   todo, err2, retErr, sharedVars>>

(* Read finds the channel closed and drained: runMathAndRecord returns nil.  *)
ReadEOF(l) ==
    /\ Running
    /\ consumer[l] = "read" /\ pipe[l] = <<>> /\ closed[l]
    /\ consumer' = [consumer EXCEPT ![l] = "cancel"]
    /\ UNCHANGED <<producerVars, pipe, closed, ctx, lctx, consumed, payload,
                   todo, err2, retErr, sharedVars>>

(* Read takes the ctx.Done case.  It waits on the caller's context, not on   *)
(* lineCtx.                                                                  *)
ReadCtxDone(l) ==
    /\ Running
    /\ consumer[l] = "read" /\ ctx # "live"
    /\ err2' = [err2 EXCEPT ![l] = ctx]
    /\ consumer' = [consumer EXCEPT ![l] = "cancel"]
    /\ UNCHANGED <<producerVars, pipe, closed, ctx, lctx, consumed, payload,
                   todo, retErr, sharedVars>>

(* Coverager.Record for one of the matched patterns, under the lock.  The    *)
(* result is a Go map: the patterns come in any order.                       *)
RecordCoverage(l, p) ==
    /\ Running
    /\ consumer[l] = "record" /\ p \in todo[l]
    /\ covered' = covered \cup {p}
    /\ covCount' = [covCount EXCEPT ![p] = Incr(@)]
    /\ covByLog' = [covByLog EXCEPT ![p] = Bump(@, LogPath[l])]
    /\ todo' = [todo EXCEPT ![l] = @ \ {p}]
    /\ consumer' = [consumer EXCEPT ![l] = IF todo[l] = {p} THEN "read" ELSE "record"]
    /\ UNCHANGED <<producerVars, pipe, closed, ctx, lctx, consumed, payload,
                   err2, retErr, unknownVars, mainVars>>

(* UnknowLogRecord.Record, keyed by the position field of the log.           *)
RecordUnknown(l) ==
    /\ Running
    /\ consumer[l] = "unknown"
    /\ LET q == payload[l].position
       IN  /\ unkCount' = [unkCount EXCEPT ![q] = Incr(@)]
           /\ unkByLog' = [unkByLog EXCEPT ![q] = Bump(@, LogPath[l])]
    /\ consumer' = [consumer EXCEPT ![l] = "read"]
    /\ UNCHANGED <<producerVars, pipe, closed, ctx, lctx, consumed, payload,
                   todo, err2, retErr, coverVars, mainVars>>

(* cancel(): ends lineCtx unless the caller's context has ended it already.  *)
CancelLine(l) ==
    /\ Running
    /\ consumer[l] = "cancel"
    /\ lctx' = [lctx EXCEPT ![l] = IF @ = "live" THEN "canceled" ELSE @]
    /\ consumer' = [consumer EXCEPT ![l] = "wait"]
    /\ UNCHANGED <<producerVars, pipe, closed, ctx, consumed, payload, todo,
                   err2, retErr, sharedVars>>

(* wg.Wait() for the producer, then the result of run: an error of the       *)
(* matching side wins unless it is DeadlineExceeded, which is dropped.       *)
(* Run's goroutine logs the result and calls wg.Done.                        *)
Finish(l) ==
    /\ Running
    /\ consumer[l] = "wait" /\ producer[l] = "done"
    /\ retErr' = [retErr EXCEPT ![l] =
                    IF err2[l] \notin {"nil", "deadline"} THEN err2[l] ELSE @]
    /\ consumer' = [consumer EXCEPT ![l] = "done"]
    /\ UNCHANGED <<producerVars, pipe, closed, ctx, lctx, consumed, payload,
                   todo, err2, sharedVars>>

Consumer(l) ==
    \/ ReadPayload(l)
    \/ ReadEOF(l)
    \/ ReadCtxDone(l)
    \/ \E p \in Patterns : RecordCoverage(l, p)
    \/ RecordUnknown(l)
    \/ CancelLine(l)
    \/ Finish(l)

---------------------------------------------------------------------------
(***************************************************************************)
(* The main goroutine (LogProcessor.Run, Coverager.Flush), the contexts    *)
(* and the process.                                                        *)
(***************************************************************************)

(* Flush while a line still runs: breaks StoredIsFinal and Ledger.           *)
StartFlushEarly ==
    /\ Running
    /\ main = "wait" /\ \E l \in Lines : consumer[l] = "done"
    /\ main' = "flush"
    /\ toFlush' = covered
    /\ UNCHANGED <<runErr, stored, lineVars>>

(* wg.Wait() for every line.  unknowLogs.Flush prints and changes nothing;   *)
(* coverager.Flush starts to range over the map.                             *)
StartFlush ==
    /\ Running
    /\ main = "wait" /\ \A l \in Lines : consumer[l] = "done"
    /\ main' = "flush"
    /\ toFlush' = covered
    /\ UNCHANGED <<runErr, stored, lineVars>>

(* WriteLogCoverage of one entry: an atomic put under the pattern's key.     *)
FlushOne(p) ==
    /\ Running
    /\ main = "flush" /\ p \in toFlush
    /\ stored' = [stored EXCEPT ![p] = Entry(p)]
    /\ toFlush' = toFlush \ {p}
    /\ UNCHANGED <<main, runErr, lineVars>>

(* The write fails: Flush returns at once, Run returns the error and ScanLog *)
(* ends the process with log.Fatalf.                                         *)
FlushFail ==
    /\ Running
    /\ main = "flush" /\ toFlush # {}
    /\ main' = "returned" /\ runErr' = TRUE
    /\ UNCHANGED <<toFlush, stored, lineVars>>

FlushDone ==
    /\ Running
    /\ main = "flush" /\ toFlush = {}
    /\ main' = "returned"
    /\ UNCHANGED <<toFlush, runErr, stored, lineVars>>

Main ==
    \/ StartFlush
    \/ \E p \in Patterns : FlushOne(p)
    \/ FlushFail
    \/ FlushDone

(* The caller cancels its context or its deadline passes.                    *)
EndCtx(kind) ==
    /\ Running
    /\ ctx = "live"
    /\ ctx' = kind
    /\ UNCHANGED <<producerVars, pipe, closed, lctx, retErr, downstream>>

(* The end of the caller's context reaches a lineCtx derived from it.        *)
PropagateCtx(l) ==
    /\ Running
    /\ ctx # "live" /\ lctx[l] = "live"
    /\ lctx' = [lctx EXCEPT ![l] = ctx]
    /\ UNCHANGED <<producerVars, pipe, closed, ctx, retErr, downstream>>

(* The process is killed: of all this only the store survives.               *)
Crash ==
    /\ Running
    /\ main' = "crashed"
    /\ UNCHANGED <<toFlush, runErr, stored, lineVars>>

Terminated == ~Running /\ UNCHANGED vars

Next ==
    \/ \E l \in Lines : Producer(l) \/ Consumer(l) \/ PropagateCtx(l)
    \/ Main
    \/ \E kind \in CtxEnds : EndCtx(kind)
    \/ Crash
    \/ Terminated

(* The Go scheduler runs every goroutine that can take a step, files are     *)
(* finite, and the end of a context reaches its children.  A caller need not *)
(* end its context and a process need not crash.                             *)
Fairness ==
    /\ \A l \in Lines : /\ WF_vars(Producer(l))
                        /\ WF_vars(Consumer(l))
                        /\ WF_vars(PropagateCtx(l))
    /\ WF_vars(Main)

Spec == Init /\ [][Next]_vars /\ Fairness

---------------------------------------------------------------------------
(***************************************************************************)
(* Properties.                                                             *)
(***************************************************************************)

(* Every variable keeps its type; the counters stay in the int32 range and a *)
(* channel never holds more than its capacity.                               *)
TypeOK ==
    /\ scanned \in [Lines -> Seq(Logs)]
    /\ \A l \in Lines : Len(scanned[l]) <= MaxLogs
    /\ source \in [Lines -> {"open", "eof", "broken"}]
    /\ producer \in [Lines -> {"scan", "send", "sent", "close", "closed", "done"}]
    /\ err1 \in [Lines -> {"nil", "scan"} \cup CtxErrs]
    /\ pipe \in [Lines -> Seq(Logs)]
    /\ \A l \in Lines : Len(pipe[l]) <= Capacity
    /\ closed \in [Lines -> BOOLEAN]
    /\ ctx \in {"live"} \cup CtxErrs
    /\ lctx \in [Lines -> {"live"} \cup CtxErrs]
    /\ consumer \in [Lines -> {"read", "record", "unknown", "cancel", "wait", "done"}]
    /\ consumed \in [Lines -> Nat]
    /\ payload \in [Lines -> Logs \cup {NoLog}]
    /\ todo \in [Lines -> SUBSET Patterns]
    /\ err2 \in [Lines -> {"nil"} \cup CtxErrs]
    /\ retErr \in [Lines -> {"nil", "scan"} \cup CtxErrs]
    /\ covered \subseteq Patterns
    /\ covCount \in [Patterns -> Int32]
    /\ covByLog \in [Patterns -> [Paths -> Int32]]
    /\ unkCount \in [Positions -> Int32]
    /\ unkByLog \in [Positions -> [Paths -> Int32]]
    /\ main \in {"wait", "flush", "returned", "crashed"}
    /\ toFlush \subseteq covered
    /\ runErr \in BOOLEAN
    /\ DOMAIN stored = Patterns

(* The channel carries the logs of the file in file order, none twice, and   *)
(* none disappears between Scan and Read: at most the log of the Write in    *)
(* progress is outside it, and that log is given up only once lineCtx ended. *)
Conservation ==
    \A l \in Lines :
        LET missing == Len(scanned[l]) - consumed[l] - Len(pipe[l])
        IN  /\ missing \in {0, 1}
            /\ missing = 1 => producer[l] = "send" \/ lctx[l] # "live"
            /\ \A k \in 1 .. Len(pipe[l]) : pipe[l][k] = scanned[l][consumed[l] + k]

(* The logs of all files by line and index.                                  *)
Indices == 1 .. MaxLogs

(* The hit of pattern p by log i of line l has been taken through Record.    *)
IsRecorded(p, l, i) ==
    /\ i <= consumed[l]
    /\ p \in scanned[l][i].hits
    /\ ~(i = consumed[l] /\ p \in todo[l])

Recorded(p) == {e \in Lines \X Indices : IsRecorded(p, e[1], e[2])}

OfPath(events, f) == {e \in events : LogPath[e[1]] = f}

(* A total and its split by path count a set of events, as long as that      *)
(* fits an int32.                                                            *)
Counts(events, total, byLog) ==
    /\ Cardinality(events) <= MaxInt32 => total = Cardinality(events)
    /\ \A f \in Paths :
         Cardinality(OfPath(events, f)) <= MaxInt32 =>
           byLog[f] = Cardinality(OfPath(events, f))

(* Lines that record concurrently lose and repeat no hit: CovCount and every *)
(* CovCountByLog entry are the number of hits taken so far, and a pattern    *)
(* has an entry exactly if it was hit.                                       *)
CoverageExact ==
    \A p \in Patterns :
        /\ p \in covered <=> Recorded(p) # {}
        /\ Counts(Recorded(p), covCount[p], covByLog[p])

(* Log i of line l is unknown, has position q and has been recorded.         *)
IsRecordedUnknown(q, l, i) ==
    /\ i <= consumed[l]
    /\ LET lg == scanned[l][i]
       IN  lg.hits = {} /\ lg.inRule /\ lg.position = q
    /\ ~(i = consumed[l] /\ consumer[l] = "unknown")

RecordedUnknown(q) == {e \in Lines \X Indices : IsRecordedUnknown(q, e[1], e[2])}

(* The same for the unknown logs: each log that no pattern matches and the   *)
(* rule wants is counted once under its position, and no other log is.       *)
UnknownExact ==
    \A q \in Positions : Counts(RecordedUnknown(q), unkCount[q], unkByLog[q])

(* A line that ends without an error has read its file to the end and has    *)
(* recorded every log of it; a deadline that the matching side saw is the    *)
(* one exception, since run drops it.  A file that could not be read to its  *)
(* end is always reported.                                                   *)
NilMeansAll ==
    \A l \in Lines :
        consumer[l] = "done" =>
            /\ retErr[l] = "nil" /\ err2[l] # "deadline" =>
                 source[l] = "eof" /\ consumed[l] = Len(scanned[l]) /\ todo[l] = {}
            /\ source[l] = "broken" => retErr[l] # "nil"

(* Crash atomicity of the store: at every moment, also after a kill in the   *)
(* middle of Flush or a failed write, an entry is either the one an earlier  *)
(* scan left or this scan's final total, never an intermediate count.        *)
StoredIsFinal ==
    \A p \in Patterns :
        stored[p] # OldCoverage =>
            /\ stored[p] = Entry(p)
            /\ \A l \in Lines : consumer[l] = "done"

(* The hits of pattern p in all the logs that Scan returned.                 *)
Matching(p) == {e \in Lines \X Indices :
                  e[2] <= Len(scanned[e[1]]) /\ p \in scanned[e[1]][e[2]].hits}

(* End to end: when Run returns no error and its context was not ended, the  *)
(* store holds the hits of every log of every file for each pattern hit, and *)
(* the entries of the other patterns are untouched.                          *)
WholeRun ==
    main = "returned" /\ ~runErr /\ ctx = "live" =>
        \A p \in Patterns :
            IF Matching(p) = {} THEN stored[p] = OldCoverage
            ELSE /\ stored[p] # OldCoverage
                 /\ Cardinality(Matching(p)) <= MaxInt32 =>
                      stored[p].count = Cardinality(Matching(p))

(* Run ends: no line is left blocked on a channel, a wait group or a         *)
(* context, whatever the lines and the context do.                           *)
Termination == <>~Running

(* The pipeline implements the ledger.                                       *)
Ledger == INSTANCE CoverageLedger WITH
    ledger    <- [p \in Patterns |-> Recorded(p)],
    sealed    <- \A l \in Lines : consumer[l] = "done",
    published <- stored,
    stopped   <- ~Running

(* Refinement: hits enter the ledger one at a time and before it is sealed,  *)
(* and what Flush writes are the totals of the sealed ledger.                *)
RefinesLedger == Ledger!Spec

---------------------------------------------------------------------------
(***************************************************************************)
(* The inductive invariant behind the safety properties.                   *)
(***************************************************************************)

(* The program counters agree with the contexts, the channel, the file and   *)
(* the results of the two functions.                                         *)
Control ==
    \A l \in Lines :
        /\ closed[l] <=> producer[l] \in {"closed", "done"}
        /\ lctx[l] # "live" => ctx # "live" \/ consumer[l] \in {"wait", "done"}
        /\ producer[l] \in {"scan", "send", "sent"} =>
             err1[l] = "nil" /\ source[l] = "open"
        /\ producer[l] \in {"close", "closed", "done"} =>
             \/ err1[l] = "nil" /\ source[l] = "eof"
             \/ err1[l] = "scan" /\ source[l] = "broken"
             \/ err1[l] \in CtxErrs /\ source[l] = "open" /\ ctx # "live"
        /\ producer[l] \in {"closed", "done"} =>
             retErr[l] = IF consumer[l] = "done" /\ err2[l] \notin {"nil", "deadline"}
                         THEN err2[l] ELSE err1[l]
        /\ consumer[l] \in {"read", "record", "unknown"} => err2[l] = "nil"
        /\ consumer[l] \in {"cancel", "wait", "done"} =>
             \/ err2[l] = "nil" /\ closed[l] /\ pipe[l] = <<>>
             \/ err2[l] # "nil" /\ ctx # "live"
        /\ consumer[l] = "done" => producer[l] = "done"

(* Conservation, with the program counters that tell when a log is missing.  *)
LinePipe(l) ==
    LET missing == Len(scanned[l]) - consumed[l] - Len(pipe[l])
    IN  /\ missing \in {0, 1}
        /\ producer[l] = "scan" => missing = 0
        /\ producer[l] = "send" => missing = 1
        /\ producer[l] = "sent" => missing = 0 \/ lctx[l] # "live"
        /\ producer[l] \in {"close", "closed", "done"} =>
             missing = 0 \/ (err1[l] \in CtxErrs /\ lctx[l] # "live")
        /\ \A k \in 1 .. Len(pipe[l]) : pipe[l][k] = scanned[l][consumed[l] + k]

PipeInv == \A l \in Lines : LinePipe(l)

(* The payload a consumer works on is the last log it has read.              *)
PayloadInv ==
    \A l \in Lines :
        /\ consumed[l] > 0 => payload[l] = scanned[l][consumed[l]]
        /\ consumer[l] \in {"record", "unknown"} => consumed[l] > 0
        /\ todo[l] # {} <=> consumer[l] = "record"
        /\ consumer[l] = "record" => todo[l] \subseteq payload[l].hits
        /\ consumer[l] = "unknown" => payload[l].hits = {} /\ payload[l].inRule

(* What Flush has written so far.                                            *)
StoreInv ==
    /\ main = "wait" => toFlush = {} /\ \A p \in Patterns : stored[p] = OldCoverage
    /\ main \in {"flush", "returned"} =>
         /\ \A l \in Lines : consumer[l] = "done"
         /\ \A p \in Patterns : p \in covered \ toFlush <=> stored[p] # OldCoverage
    /\ main = "returned" /\ ~runErr => toFlush = {}

IInv ==
    /\ TypeOK /\ Control /\ PipeInv /\ PayloadInv
    /\ CoverageExact /\ UnknownExact /\ StoreInv /\ StoredIsFinal
===========================================================================
