------------------------ MODULE ScanPipelineProofs ------------------------
(***************************************************************************)
(* Proofs about ScanPipeline, for any lines, logs, patterns and bounds.    *)
(***************************************************************************)
EXTENDS ScanPipeline, FiniteSetTheorems, TLAPS

(* The tuples that UNCHANGED clauses name.                                 *)
USE DEF lineVars, sharedVars, downstream, producerVars, consumerVars, coverVars,
        unknownVars, mainVars

(* An increment stays in the int32 range: it wraps at MaxInt32.            *)
LEMMA IncrType == \A n \in Int32 : Incr(n) \in Int32
  BY CounterAssumption DEF Int32, Incr

LEMMA BumpType ==
  ASSUME NEW byLog \in [Paths -> Int32], NEW f \in Paths
  PROVE  Bump(byLog, f) \in [Paths -> Int32]
  BY IncrType DEF Bump

(* What the proofs use of sequences.                                       *)
LEMMA SeqLen ==
  ASSUME NEW S, NEW s \in Seq(S)
  PROVE  Len(s) \in Nat /\ (s = <<>> <=> Len(s) = 0)
  OBVIOUS

LEMMA SeqElement ==
  ASSUME NEW S, NEW s \in Seq(S), NEW i \in 1 .. Len(s)
  PROVE  s[i] \in S
  OBVIOUS

LEMMA SeqAppend ==
  ASSUME NEW S, NEW s \in Seq(S), NEW e \in S
  PROVE  /\ Append(s, e) \in Seq(S)
         /\ Len(Append(s, e)) = Len(s) + 1
         /\ Append(s, e)[Len(s) + 1] = e
         /\ \A i \in 1 .. Len(s) : Append(s, e)[i] = s[i]
  OBVIOUS

LEMMA SeqHeadTail ==
  ASSUME NEW S, NEW s \in Seq(S), s # <<>>
  PROVE  /\ Len(s) > 0
         /\ Head(s) = s[1] /\ Head(s) \in S
         /\ Tail(s) \in Seq(S)
         /\ Len(Tail(s)) = Len(s) - 1
         /\ \A i \in 1 .. Len(Tail(s)) : Tail(s)[i] = s[i + 1]
  OBVIOUS

---------------------------------------------------------------------------
(* Type correctness.                                                       *)

LEMMA TypeInit == Init => TypeOK
<1> SUFFICES ASSUME Init PROVE TypeOK
  OBVIOUS
<1> USE DEF Init, CtxErrs
<1>1. <<>> \in Seq(Logs) /\ Len(<<>>) = 0
  OBVIOUS
<1>2. /\ scanned \in [Lines -> Seq(Logs)] /\ pipe \in [Lines -> Seq(Logs)]
      /\ \A l \in Lines : Len(scanned[l]) <= MaxLogs /\ Len(pipe[l]) <= Capacity
  BY <1>1, CapacityAssumption, BoundAssumption
<1>3. 0 \in Int32
  BY CounterAssumption DEF Int32
<1>4. /\ covCount \in [Patterns -> Int32] /\ covByLog \in [Patterns -> [Paths -> Int32]]
      /\ unkCount \in [Positions -> Int32] /\ unkByLog \in [Positions -> [Paths -> Int32]]
  BY <1>3
<1> QED
  BY <1>2, <1>4 DEF TypeOK

LEMMA TypeStep == TypeOK /\ PipeInv /\ PayloadInv /\ [Next]_vars => TypeOK'
<1> SUFFICES ASSUME TypeOK, PipeInv, PayloadInv, [Next]_vars PROVE TypeOK'
  OBVIOUS
<1> USE LogsAssumption, CapacityAssumption, CtxAssumption, BoundAssumption DEF TypeOK, CtxErrs
<1>1. ASSUME NEW l \in Lines, NEW lg \in Logs, ScanLog(l, lg)
     PROVE  TypeOK'
  <2>1. scanned[l] \in Seq(Logs)
    OBVIOUS
  <2>2. /\ Append(scanned[l], lg) \in Seq(Logs)
        /\ Len(Append(scanned[l], lg)) = Len(scanned[l]) + 1
        /\ Len(scanned[l]) \in Nat
    BY <2>1, SeqLen, SeqAppend
  <2>3. /\ scanned' = [scanned EXCEPT ![l] = Append(scanned[l], lg)]
        /\ Len(scanned[l]) < MaxLogs
    BY <1>1 DEF ScanLog
  <2>4. scanned' \in [Lines -> Seq(Logs)] /\ \A k \in Lines : Len(scanned'[k]) <= MaxLogs
    BY <2>2, <2>3
  <2> QED
    BY <2>4, <1>1 DEF ScanLog
<1>2. ASSUME NEW l \in Lines, ScanEOF(l)
     PROVE  TypeOK'
  BY <1>2 DEF ScanEOF
<1>3. ASSUME NEW l \in Lines, ScanError(l)
     PROVE  TypeOK'
  BY <1>3 DEF ScanError
<1>4. ASSUME NEW l \in Lines, WriteSend(l)
     PROVE  TypeOK'
  <2> DEFINE lg == scanned[l][Len(scanned[l])]
  <2>1. lg \in Logs
    <3>1. Len(scanned[l]) - consumed[l] - Len(pipe[l]) = 1
      BY <1>4 DEF WriteSend, PipeInv, LinePipe
    <3>2. Len(scanned[l]) \in Nat /\ Len(pipe[l]) \in Nat /\ consumed[l] \in Nat
      BY SeqLen
    <3> QED
      BY <3>1, <3>2, SeqElement
  <2>2. /\ Append(pipe[l], lg) \in Seq(Logs)
        /\ Len(Append(pipe[l], lg)) = Len(pipe[l]) + 1
        /\ Len(pipe[l]) \in Nat
    BY <2>1, SeqLen, SeqAppend
  <2>3. pipe' = [pipe EXCEPT ![l] = Append(pipe[l], lg)] /\ Len(pipe[l]) < Capacity
    BY <1>4 DEF WriteSend
  <2>4. pipe' \in [Lines -> Seq(Logs)] /\ \A k \in Lines : Len(pipe'[k]) <= Capacity
    BY <2>2, <2>3
  <2> QED
    BY <2>4, <1>4 DEF WriteSend
<1>5. ASSUME NEW l \in Lines, WriteCtxDone(l)
     PROVE  TypeOK'
  BY <1>5 DEF WriteCtxDone
<1>6. ASSUME NEW l \in Lines, WriteReturn(l)
     PROVE  TypeOK'
  <2>1. lctx[l] # "live" => lctx[l] \in CtxErrs
    OBVIOUS
  <2>2. /\ producer' \in [Lines -> {"scan", "send", "sent", "close", "closed", "done"}]
        /\ err1' \in [Lines -> {"nil", "scan"} \cup CtxErrs]
    BY <1>6, <2>1 DEF WriteReturn
  <2> QED
    BY <1>6, <2>2 DEF WriteReturn
<1>7. ASSUME NEW l \in Lines, ClosePipeline(l)
     PROVE  TypeOK'
  BY <1>7 DEF ClosePipeline
<1>8. ASSUME NEW l \in Lines, ProducerDone(l)
     PROVE  TypeOK'
  BY <1>8 DEF ProducerDone
<1>9. ASSUME NEW l \in Lines, ReadPayload(l)
     PROVE  TypeOK'
  <2> DEFINE lg == Head(pipe[l])
  <2>1. /\ lg \in Logs /\ Tail(pipe[l]) \in Seq(Logs)
        /\ Len(Tail(pipe[l])) = Len(pipe[l]) - 1 /\ Len(pipe[l]) \in Nat
    BY <1>9, SeqLen, SeqHeadTail DEF ReadPayload
  <2>2. lg.hits \subseteq Patterns
    BY <2>1
  <2>3. /\ pipe' = [pipe EXCEPT ![l] = Tail(pipe[l])]
        /\ payload' = [payload EXCEPT ![l] = lg]
        /\ todo' = [todo EXCEPT ![l] = lg.hits]
    BY <1>9 DEF ReadPayload
  <2>4. /\ pipe' \in [Lines -> Seq(Logs)] /\ \A k \in Lines : Len(pipe'[k]) <= Capacity
        /\ payload' \in [Lines -> Logs \cup {NoLog}]
        /\ todo' \in [Lines -> SUBSET Patterns]
    BY <2>1, <2>2, <2>3
  <2>5. /\ consumed' \in [Lines -> Nat]
        /\ consumer' \in [Lines -> {"read", "record", "unknown", "cancel", "wait", "done"}]
    BY <1>9 DEF ReadPayload
  <2> QED
    BY <2>4, <2>5, <1>9 DEF ReadPayload
<1>10. ASSUME NEW l \in Lines, ReadEOF(l)
     PROVE  TypeOK'
  BY <1>10 DEF ReadEOF
<1>11. ASSUME NEW l \in Lines, ReadCtxDone(l)
     PROVE  TypeOK'
  BY <1>11 DEF ReadCtxDone
<1>12. ASSUME NEW l \in Lines, NEW p \in Patterns, RecordCoverage(l, p)
     PROVE  TypeOK'
  <2>1. LogPath[l] \in Paths
    BY DEF Paths
  <2>2. Incr(covCount[p]) \in Int32 /\ Bump(covByLog[p], LogPath[l]) \in [Paths -> Int32]
    BY <2>1, IncrType, BumpType
  <2>3. /\ covCount' = [covCount EXCEPT ![p] = Incr(covCount[p])]
        /\ covByLog' = [covByLog EXCEPT ![p] = Bump(covByLog[p], LogPath[l])]
    BY <1>12 DEF RecordCoverage
  <2>4. covCount' \in [Patterns -> Int32] /\ covByLog' \in [Patterns -> [Paths -> Int32]]
    BY <2>2, <2>3
  <2>5. todo' \in [Lines -> SUBSET Patterns]
    BY <1>12 DEF RecordCoverage
  <2> QED
    BY <2>4, <2>5, <1>12 DEF RecordCoverage
<1>13. ASSUME NEW l \in Lines, RecordUnknown(l)
     PROVE  TypeOK'
  <2> DEFINE q == payload[l].position
  <2>1. LogPath[l] \in Paths
    BY DEF Paths
  <2>2. payload[l] \in Logs
    <3>1. consumed[l] > 0 /\ payload[l] = scanned[l][consumed[l]]
      BY <1>13 DEF RecordUnknown, PayloadInv
    <3>2. scanned[l] \in Seq(Logs) /\ pipe[l] \in Seq(Logs) /\ consumed[l] \in Nat
      OBVIOUS
    <3>3. Len(scanned[l]) \in Nat /\ Len(pipe[l]) \in Nat
      BY <3>2, SeqLen
    <3>4. Len(scanned[l]) - consumed[l] - Len(pipe[l]) \in {0, 1}
      BY DEF PipeInv, LinePipe
    <3>5. consumed[l] <= Len(scanned[l])
      BY <3>2, <3>3, <3>4
    <3> QED
      BY <3>1, <3>2, <3>3, <3>5, SeqElement
  <2>3. q \in Positions
    BY <2>2
  <2>4. Incr(unkCount[q]) \in Int32 /\ Bump(unkByLog[q], LogPath[l]) \in [Paths -> Int32]
    BY <2>1, <2>3, IncrType, BumpType
  <2>5. /\ unkCount' = [unkCount EXCEPT ![q] = Incr(unkCount[q])]
        /\ unkByLog' = [unkByLog EXCEPT ![q] = Bump(unkByLog[q], LogPath[l])]
    BY <1>13 DEF RecordUnknown
  <2>6. unkCount' \in [Positions -> Int32] /\ unkByLog' \in [Positions -> [Paths -> Int32]]
    BY <2>3, <2>4, <2>5
  <2> QED
    BY <2>6, <1>13 DEF RecordUnknown
<1>14. ASSUME NEW l \in Lines, CancelLine(l)
     PROVE  TypeOK'
  BY <1>14 DEF CancelLine
<1>15. ASSUME NEW l \in Lines, Finish(l)
     PROVE  TypeOK'
  BY <1>15 DEF Finish
<1>16. ASSUME NEW l \in Lines, PropagateCtx(l)
     PROVE  TypeOK'
  BY <1>16 DEF PropagateCtx
<1>17. ASSUME StartFlush
     PROVE  TypeOK'
  BY <1>17 DEF StartFlush
<1>18. ASSUME NEW p \in Patterns, FlushOne(p)
     PROVE  TypeOK'
  BY <1>18 DEF FlushOne
<1>19. ASSUME FlushFail
     PROVE  TypeOK'
  BY <1>19 DEF FlushFail
<1>20. ASSUME FlushDone
     PROVE  TypeOK'
  BY <1>20 DEF FlushDone
<1>21. ASSUME NEW kind \in CtxEnds, EndCtx(kind)
     PROVE  TypeOK'
  BY <1>21 DEF EndCtx
<1>22. ASSUME Crash
     PROVE  TypeOK'
  BY <1>22 DEF Crash
<1>23. CASE UNCHANGED vars
  BY <1>23 DEF vars
<1> QED
  BY <1>1, <1>2, <1>3, <1>4, <1>5, <1>6, <1>7, <1>8, <1>9, <1>10, <1>11, <1>12,
     <1>13, <1>14, <1>15, <1>16, <1>17, <1>18, <1>19, <1>20, <1>21, <1>22,
     <1>23 DEF Next, Producer, Consumer, Main, Terminated

---------------------------------------------------------------------------
(* Control. *)

LEMMA ControlInit == Init => Control
  BY DEF Init, Control

LEMMA ControlStep == TypeOK /\ Control /\ [Next]_vars => Control'
<1> SUFFICES ASSUME TypeOK, Control, [Next]_vars PROVE Control'
  OBVIOUS
<1> USE CtxAssumption DEF TypeOK, Control, CtxErrs
<1>1. ASSUME NEW l \in Lines, NEW lg \in Logs, ScanLog(l, lg)
     PROVE  Control'
  BY <1>1 DEF ScanLog
<1>2. ASSUME NEW l \in Lines, ScanEOF(l)
     PROVE  Control'
  BY <1>2 DEF ScanEOF
<1>3. ASSUME NEW l \in Lines, ScanError(l)
     PROVE  Control'
  BY <1>3 DEF ScanError
<1>4. ASSUME NEW l \in Lines, WriteSend(l)
     PROVE  Control'
  BY <1>4 DEF WriteSend
<1>5. ASSUME NEW l \in Lines, WriteCtxDone(l)
     PROVE  Control'
  BY <1>5 DEF WriteCtxDone
<1>6. ASSUME NEW l \in Lines, WriteReturn(l)
     PROVE  Control'
  BY <1>6 DEF WriteReturn
<1>7. ASSUME NEW l \in Lines, ClosePipeline(l)
     PROVE  Control'
  BY <1>7 DEF ClosePipeline
<1>8. ASSUME NEW l \in Lines, ProducerDone(l)
     PROVE  Control'
  BY <1>8 DEF ProducerDone
<1>9. ASSUME NEW l \in Lines, ReadPayload(l)
     PROVE  Control'
  BY <1>9 DEF ReadPayload
<1>10. ASSUME NEW l \in Lines, ReadEOF(l)
     PROVE  Control'
  BY <1>10 DEF ReadEOF
<1>11. ASSUME NEW l \in Lines, ReadCtxDone(l)
     PROVE  Control'
  BY <1>11 DEF ReadCtxDone
<1>12. ASSUME NEW l \in Lines, NEW p \in Patterns, RecordCoverage(l, p)
     PROVE  Control'
  BY <1>12 DEF RecordCoverage
<1>13. ASSUME NEW l \in Lines, RecordUnknown(l)
     PROVE  Control'
  BY <1>13 DEF RecordUnknown
<1>14. ASSUME NEW l \in Lines, CancelLine(l)
     PROVE  Control'
  BY <1>14 DEF CancelLine
<1>15. ASSUME NEW l \in Lines, Finish(l)
     PROVE  Control'
  BY <1>15 DEF Finish
<1>16. ASSUME NEW l \in Lines, PropagateCtx(l)
     PROVE  Control'
  BY <1>16 DEF PropagateCtx
<1>17. ASSUME StartFlush
     PROVE  Control'
  BY <1>17 DEF StartFlush
<1>18. ASSUME NEW p \in Patterns, FlushOne(p)
     PROVE  Control'
  BY <1>18 DEF FlushOne
<1>19. ASSUME FlushFail
     PROVE  Control'
  BY <1>19 DEF FlushFail
<1>20. ASSUME FlushDone
     PROVE  Control'
  BY <1>20 DEF FlushDone
<1>21. ASSUME NEW kind \in CtxEnds, EndCtx(kind)
     PROVE  Control'
  BY <1>21 DEF EndCtx
<1>22. ASSUME Crash
     PROVE  Control'
  BY <1>22 DEF Crash
<1>23. CASE UNCHANGED vars
  BY <1>23 DEF vars
<1> QED
  BY <1>1, <1>2, <1>3, <1>4, <1>5, <1>6, <1>7, <1>8, <1>9, <1>10, <1>11, <1>12,
     <1>13, <1>14, <1>15, <1>16, <1>17, <1>18, <1>19, <1>20, <1>21, <1>22,
     <1>23 DEF Next, Producer, Consumer, Main, Terminated

---------------------------------------------------------------------------
(* The pipe. *)

(* The sequences and counters of a line have their types.                  *)
LEMMA LineTypes ==
  ASSUME TypeOK, NEW l \in Lines
  PROVE  /\ scanned[l] \in Seq(Logs) /\ pipe[l] \in Seq(Logs)
         /\ Len(scanned[l]) \in Nat /\ Len(pipe[l]) \in Nat
         /\ consumed[l] \in Nat
<1>1. scanned[l] \in Seq(Logs) /\ pipe[l] \in Seq(Logs) /\ consumed[l] \in Nat
  BY DEF TypeOK
<1> QED
  BY <1>1, SeqLen

(* Nothing is read that was not scanned.                                   *)
LEMMA ReadIsScanned ==
  ASSUME TypeOK, PipeInv, NEW l \in Lines
  PROVE  consumed[l] <= Len(scanned[l])
<1>1. Len(scanned[l]) - consumed[l] - Len(pipe[l]) \in {0, 1}
  BY DEF PipeInv, LinePipe
<1> QED
  BY <1>1, LineTypes

LEMMA PipeInit == Init => PipeInv
<1>1. Len(<<>>) = 0
  OBVIOUS
<1> QED
  BY <1>1 DEF Init, PipeInv, LinePipe

LEMMA PipeStep == TypeOK /\ Control /\ PipeInv /\ [Next]_vars => PipeInv'
<1> SUFFICES ASSUME TypeOK, Control, PipeInv, [Next]_vars PROVE PipeInv'
  OBVIOUS
<1>1. ASSUME NEW l \in Lines, NEW lg \in Logs, ScanLog(l, lg)
     PROVE  PipeInv'
  <2>1. /\ scanned' = [scanned EXCEPT ![l] = Append(scanned[l], lg)]
        /\ producer[l] = "scan" /\ producer' = [producer EXCEPT ![l] = "send"]
        /\ UNCHANGED <<pipe, consumed, lctx, err1>>
    BY <1>1 DEF ScanLog
  <2>2. /\ Len(Append(scanned[l], lg)) = Len(scanned[l]) + 1
        /\ \A i \in 1 .. Len(scanned[l]) : Append(scanned[l], lg)[i] = scanned[l][i]
    BY LineTypes, SeqAppend
  <2>3. Len(scanned[l]) - consumed[l] - Len(pipe[l]) = 0
    BY <2>1 DEF PipeInv, LinePipe
  <2>4. scanned'[l] = Append(scanned[l], lg) /\ producer'[l] = "send"
    BY <2>1 DEF TypeOK
  <2>5. \A k \in 1 .. Len(pipe[l]) : pipe[l][k] = scanned'[l][consumed[l] + k]
    <3> TAKE k \in 1 .. Len(pipe[l])
    <3>1. consumed[l] + k \in 1 .. Len(scanned[l])
      BY <2>3, LineTypes
    <3> QED
      BY <2>2, <2>4, <3>1 DEF PipeInv, LinePipe
  <2>6. Len(scanned'[l]) - consumed[l] - Len(pipe[l]) = 1
    BY <2>2, <2>3, <2>4, LineTypes
  <2>7. \A k \in Lines \ {l} : scanned'[k] = scanned[k] /\ producer'[k] = producer[k]
    BY <2>1 DEF TypeOK
  <2>8. LinePipe(l)'
    BY <2>1, <2>4, <2>5, <2>6 DEF LinePipe
  <2>9. \A k \in Lines \ {l} : LinePipe(k)'
    BY <2>1, <2>7 DEF PipeInv, LinePipe
  <2> QED
    BY <2>8, <2>9 DEF PipeInv
<1>2. ASSUME NEW l \in Lines, ScanEOF(l)
     PROVE  PipeInv'
  BY <1>2 DEF ScanEOF, TypeOK, Control, PipeInv, LinePipe, CtxErrs
<1>3. ASSUME NEW l \in Lines, ScanError(l)
     PROVE  PipeInv'
  BY <1>3 DEF ScanError, TypeOK, Control, PipeInv, LinePipe, CtxErrs
<1>4. ASSUME NEW l \in Lines, WriteSend(l)
     PROVE  PipeInv'
  <2> DEFINE lg == scanned[l][Len(scanned[l])]
  <2>1. /\ pipe' = [pipe EXCEPT ![l] = Append(pipe[l], lg)]
        /\ producer[l] = "send" /\ producer' = [producer EXCEPT ![l] = "sent"]
        /\ UNCHANGED <<scanned, consumed, lctx, err1>>
    BY <1>4 DEF WriteSend
  <2>2. Len(scanned[l]) - consumed[l] - Len(pipe[l]) = 1
    BY <2>1 DEF PipeInv, LinePipe
  <2>3. lg \in Logs
    BY <2>2, LineTypes, SeqElement
  <2>4. /\ Len(Append(pipe[l], lg)) = Len(pipe[l]) + 1
        /\ Append(pipe[l], lg)[Len(pipe[l]) + 1] = lg
        /\ \A i \in 1 .. Len(pipe[l]) : Append(pipe[l], lg)[i] = pipe[l][i]
    BY <2>3, LineTypes, SeqAppend
  <2>5. pipe'[l] = Append(pipe[l], lg) /\ producer'[l] = "sent"
    BY <2>1 DEF TypeOK
  <2>6. \A k \in 1 .. Len(pipe'[l]) : pipe'[l][k] = scanned[l][consumed[l] + k]
    <3> TAKE k \in 1 .. Len(pipe'[l])
    <3>1. CASE k = Len(pipe[l]) + 1
      <4>1. /\ Len(scanned[l]) \in Nat /\ Len(pipe[l]) \in Nat
            /\ consumed[l] \in Nat
        BY LineTypes
      <4>2. consumed[l] + k = Len(scanned[l])
        BY <2>2, <3>1, <4>1
      <4> QED
        BY <2>4, <2>5, <3>1, <4>2
    <3>2. CASE k \in 1 .. Len(pipe[l])
      BY <2>4, <2>5, <3>2 DEF PipeInv, LinePipe
    <3> QED
      BY <2>4, <2>5, <3>1, <3>2, LineTypes
  <2>7. Len(scanned[l]) - consumed[l] - Len(pipe'[l]) = 0
    BY <2>2, <2>4, <2>5, LineTypes
  <2>8. \A k \in Lines \ {l} : pipe'[k] = pipe[k] /\ producer'[k] = producer[k]
    BY <2>1 DEF TypeOK
  <2>9. LinePipe(l)'
    BY <2>1, <2>5, <2>6, <2>7 DEF LinePipe
  <2>10. \A k \in Lines \ {l} : LinePipe(k)'
    BY <2>1, <2>8 DEF PipeInv, LinePipe
  <2> QED
    BY <2>9, <2>10 DEF PipeInv
<1>5. ASSUME NEW l \in Lines, WriteCtxDone(l)
     PROVE  PipeInv'
  BY <1>5 DEF WriteCtxDone, TypeOK, Control, PipeInv, LinePipe, CtxErrs
<1>6. ASSUME NEW l \in Lines, WriteReturn(l)
     PROVE  PipeInv'
  BY <1>6 DEF WriteReturn, TypeOK, Control, PipeInv, LinePipe, CtxErrs
<1>7. ASSUME NEW l \in Lines, ClosePipeline(l)
     PROVE  PipeInv'
  BY <1>7 DEF ClosePipeline, TypeOK, Control, PipeInv, LinePipe, CtxErrs
<1>8. ASSUME NEW l \in Lines, ProducerDone(l)
     PROVE  PipeInv'
  BY <1>8 DEF ProducerDone, TypeOK, Control, PipeInv, LinePipe, CtxErrs
<1>9. ASSUME NEW l \in Lines, ReadPayload(l)
     PROVE  PipeInv'
  <2>1. /\ pipe[l] # <<>> /\ pipe' = [pipe EXCEPT ![l] = Tail(pipe[l])]
        /\ consumed' = [consumed EXCEPT ![l] = consumed[l] + 1]
        /\ UNCHANGED <<scanned, producer, lctx, err1>>
    BY <1>9 DEF ReadPayload
  <2>2. /\ Len(Tail(pipe[l])) = Len(pipe[l]) - 1
        /\ \A i \in 1 .. Len(Tail(pipe[l])) : Tail(pipe[l])[i] = pipe[l][i + 1]
    BY <2>1, LineTypes, SeqHeadTail
  <2>3. pipe'[l] = Tail(pipe[l]) /\ consumed'[l] = consumed[l] + 1
    BY <2>1 DEF TypeOK
  <2>4. \A k \in 1 .. Len(pipe'[l]) : pipe'[l][k] = scanned[l][consumed'[l] + k]
    <3> TAKE k \in 1 .. Len(pipe'[l])
    <3>1. k + 1 \in 1 .. Len(pipe[l]) /\ pipe'[l][k] = pipe[l][k + 1]
      BY <2>2, <2>3, LineTypes
    <3>2. pipe[l][k + 1] = scanned[l][consumed[l] + (k + 1)]
      BY <3>1 DEF PipeInv, LinePipe
    <3>3. consumed[l] + (k + 1) = consumed'[l] + k
      BY <2>3, LineTypes
    <3> QED
      BY <3>1, <3>2, <3>3
  <2>5. Len(scanned[l]) - consumed'[l] - Len(pipe'[l]) = Len(scanned[l]) - consumed[l] - Len(pipe[l])
    BY <2>2, <2>3, LineTypes
  <2>6. \A k \in Lines \ {l} : pipe'[k] = pipe[k] /\ consumed'[k] = consumed[k]
    BY <2>1 DEF TypeOK
  <2>7. LinePipe(l)'
    BY <2>1, <2>4, <2>5 DEF PipeInv, LinePipe
  <2>8. \A k \in Lines \ {l} : LinePipe(k)'
    BY <2>1, <2>6 DEF PipeInv, LinePipe
  <2> QED
    BY <2>7, <2>8 DEF PipeInv
<1>10. ASSUME NEW l \in Lines, ReadEOF(l)
     PROVE  PipeInv'
  BY <1>10 DEF ReadEOF, TypeOK, Control, PipeInv, LinePipe, CtxErrs
<1>11. ASSUME NEW l \in Lines, ReadCtxDone(l)
     PROVE  PipeInv'
  BY <1>11 DEF ReadCtxDone, TypeOK, Control, PipeInv, LinePipe, CtxErrs
<1>12. ASSUME NEW l \in Lines, NEW p \in Patterns, RecordCoverage(l, p)
     PROVE  PipeInv'
  BY <1>12 DEF RecordCoverage, TypeOK, Control, PipeInv, LinePipe, CtxErrs
<1>13. ASSUME NEW l \in Lines, RecordUnknown(l)
     PROVE  PipeInv'
  BY <1>13 DEF RecordUnknown, TypeOK, Control, PipeInv, LinePipe, CtxErrs
<1>14. ASSUME NEW l \in Lines, CancelLine(l)
     PROVE  PipeInv'
  BY <1>14 DEF CancelLine, TypeOK, Control, PipeInv, LinePipe, CtxErrs
<1>15. ASSUME NEW l \in Lines, Finish(l)
     PROVE  PipeInv'
  BY <1>15 DEF Finish, TypeOK, Control, PipeInv, LinePipe, CtxErrs
<1>16. ASSUME NEW l \in Lines, PropagateCtx(l)
     PROVE  PipeInv'
  BY <1>16 DEF PropagateCtx, TypeOK, Control, PipeInv, LinePipe, CtxErrs
<1>17. ASSUME StartFlush
     PROVE  PipeInv'
  BY <1>17 DEF StartFlush, TypeOK, Control, PipeInv, LinePipe, CtxErrs
<1>18. ASSUME NEW p \in Patterns, FlushOne(p)
     PROVE  PipeInv'
  BY <1>18 DEF FlushOne, TypeOK, Control, PipeInv, LinePipe, CtxErrs
<1>19. ASSUME FlushFail
     PROVE  PipeInv'
  BY <1>19 DEF FlushFail, TypeOK, Control, PipeInv, LinePipe, CtxErrs
<1>20. ASSUME FlushDone
     PROVE  PipeInv'
  BY <1>20 DEF FlushDone, TypeOK, Control, PipeInv, LinePipe, CtxErrs
<1>21. ASSUME NEW kind \in CtxEnds, EndCtx(kind)
     PROVE  PipeInv'
  BY <1>21 DEF EndCtx, TypeOK, Control, PipeInv, LinePipe, CtxErrs
<1>22. ASSUME Crash
     PROVE  PipeInv'
  BY <1>22 DEF Crash, TypeOK, Control, PipeInv, LinePipe, CtxErrs
<1>23. CASE UNCHANGED vars
  BY <1>23 DEF PipeInv, LinePipe, vars
<1> QED
  BY <1>1, <1>2, <1>3, <1>4, <1>5, <1>6, <1>7, <1>8, <1>9, <1>10, <1>11, <1>12,
     <1>13, <1>14, <1>15, <1>16, <1>17, <1>18, <1>19, <1>20, <1>21, <1>22,
     <1>23 DEF Next, Producer, Consumer, Main, Terminated

---------------------------------------------------------------------------
(* The payload in a consumer's hands, and the store. *)

LEMMA PayloadInit == Init => PayloadInv
  BY DEF Init, PayloadInv

LEMMA PayloadStep == TypeOK /\ PipeInv /\ PayloadInv /\ [Next]_vars => PayloadInv'
<1> SUFFICES ASSUME TypeOK, PipeInv, PayloadInv, [Next]_vars PROVE PayloadInv'
  OBVIOUS
<1>1. ASSUME NEW l \in Lines, NEW lg \in Logs, ScanLog(l, lg)
     PROVE  PayloadInv'
  <2>1. /\ scanned' = [scanned EXCEPT ![l] = Append(scanned[l], lg)]
        /\ UNCHANGED <<consumed, consumer, payload, todo>>
    BY <1>1 DEF ScanLog
  <2>2. \A k \in Lines : consumed[k] > 0 => scanned'[k][consumed[k]] = scanned[k][consumed[k]]
    <3> SUFFICES ASSUME NEW k \in Lines, consumed[k] > 0
                 PROVE  scanned'[k][consumed[k]] = scanned[k][consumed[k]]
      OBVIOUS
    <3>1. consumed[k] \in 1 .. Len(scanned[k])
      BY ReadIsScanned, LineTypes
    <3>2. Append(scanned[l], lg)[consumed[k]] = scanned[l][consumed[k]] \/ k # l
      BY <3>1, LineTypes, SeqAppend
    <3> QED
      BY <2>1, <3>2 DEF TypeOK
  <2> QED
    BY <2>1, <2>2 DEF PayloadInv
<1>2. ASSUME NEW l \in Lines, ScanEOF(l)
     PROVE  PayloadInv'
  BY <1>2 DEF ScanEOF, TypeOK, PayloadInv
<1>3. ASSUME NEW l \in Lines, ScanError(l)
     PROVE  PayloadInv'
  BY <1>3 DEF ScanError, TypeOK, PayloadInv
<1>4. ASSUME NEW l \in Lines, WriteSend(l)
     PROVE  PayloadInv'
  BY <1>4 DEF WriteSend, TypeOK, PayloadInv
<1>5. ASSUME NEW l \in Lines, WriteCtxDone(l)
     PROVE  PayloadInv'
  BY <1>5 DEF WriteCtxDone, TypeOK, PayloadInv
<1>6. ASSUME NEW l \in Lines, WriteReturn(l)
     PROVE  PayloadInv'
  BY <1>6 DEF WriteReturn, TypeOK, PayloadInv
<1>7. ASSUME NEW l \in Lines, ClosePipeline(l)
     PROVE  PayloadInv'
  BY <1>7 DEF ClosePipeline, TypeOK, PayloadInv
<1>8. ASSUME NEW l \in Lines, ProducerDone(l)
     PROVE  PayloadInv'
  BY <1>8 DEF ProducerDone, TypeOK, PayloadInv
<1>9. ASSUME NEW l \in Lines, ReadPayload(l)
     PROVE  PayloadInv'
  <2> DEFINE lg == Head(pipe[l])
  <2>1. /\ pipe[l] # <<>> /\ consumer[l] = "read"
        /\ consumed' = [consumed EXCEPT ![l] = consumed[l] + 1]
        /\ payload' = [payload EXCEPT ![l] = lg]
        /\ todo' = [todo EXCEPT ![l] = lg.hits]
        /\ consumer' = [consumer EXCEPT ![l] =
                          IF lg.hits # {} THEN "record"
                          ELSE IF lg.inRule THEN "unknown" ELSE "read"]
        /\ UNCHANGED scanned
    BY <1>9 DEF ReadPayload
  <2>2. lg = pipe[l][1] /\ 1 \in 1 .. Len(pipe[l])
    BY <2>1, LineTypes, SeqHeadTail
  <2>3. lg = scanned[l][consumed[l] + 1]
    BY <2>2 DEF PipeInv, LinePipe
  <2>4. consumed[l] + 1 > 0
    BY LineTypes
  <2> HIDE DEF lg
  <2> QED
    BY <2>1, <2>3, <2>4 DEF TypeOK, PayloadInv
<1>10. ASSUME NEW l \in Lines, ReadEOF(l)
     PROVE  PayloadInv'
  BY <1>10 DEF ReadEOF, TypeOK, PayloadInv
<1>11. ASSUME NEW l \in Lines, ReadCtxDone(l)
     PROVE  PayloadInv'
  BY <1>11 DEF ReadCtxDone, TypeOK, PayloadInv
<1>12. ASSUME NEW l \in Lines, NEW p \in Patterns, RecordCoverage(l, p)
     PROVE  PayloadInv'
  BY <1>12 DEF RecordCoverage, TypeOK, PayloadInv
<1>13. ASSUME NEW l \in Lines, RecordUnknown(l)
     PROVE  PayloadInv'
  BY <1>13 DEF RecordUnknown, TypeOK, PayloadInv
<1>14. ASSUME NEW l \in Lines, CancelLine(l)
     PROVE  PayloadInv'
  BY <1>14 DEF CancelLine, TypeOK, PayloadInv
<1>15. ASSUME NEW l \in Lines, Finish(l)
     PROVE  PayloadInv'
  BY <1>15 DEF Finish, TypeOK, PayloadInv
<1>16. ASSUME NEW l \in Lines, PropagateCtx(l)
     PROVE  PayloadInv'
  BY <1>16 DEF PropagateCtx, TypeOK, PayloadInv
<1>17. ASSUME StartFlush
     PROVE  PayloadInv'
  BY <1>17 DEF StartFlush, TypeOK, PayloadInv
<1>18. ASSUME NEW p \in Patterns, FlushOne(p)
     PROVE  PayloadInv'
  BY <1>18 DEF FlushOne, TypeOK, PayloadInv
<1>19. ASSUME FlushFail
     PROVE  PayloadInv'
  BY <1>19 DEF FlushFail, TypeOK, PayloadInv
<1>20. ASSUME FlushDone
     PROVE  PayloadInv'
  BY <1>20 DEF FlushDone, TypeOK, PayloadInv
<1>21. ASSUME NEW kind \in CtxEnds, EndCtx(kind)
     PROVE  PayloadInv'
  BY <1>21 DEF EndCtx, TypeOK, PayloadInv
<1>22. ASSUME Crash
     PROVE  PayloadInv'
  BY <1>22 DEF Crash, TypeOK, PayloadInv
<1>23. CASE UNCHANGED vars
  BY <1>23 DEF PayloadInv, vars
<1> QED
  BY <1>1, <1>2, <1>3, <1>4, <1>5, <1>6, <1>7, <1>8, <1>9, <1>10, <1>11, <1>12,
     <1>13, <1>14, <1>15, <1>16, <1>17, <1>18, <1>19, <1>20, <1>21, <1>22,
     <1>23 DEF Next, Producer, Consumer, Main, Terminated

LEMMA StoreInit == Init => StoreInv /\ StoredIsFinal
  BY DEF Init, StoreInv, StoredIsFinal

LEMMA StoreStep == TypeOK /\ StoreInv /\ StoredIsFinal /\ [Next]_vars => (StoreInv /\ StoredIsFinal)'
<1> SUFFICES ASSUME TypeOK, StoreInv, StoredIsFinal, [Next]_vars PROVE (StoreInv /\ StoredIsFinal)'
  OBVIOUS
<1> USE LinesAssumption
<1>1. ASSUME NEW l \in Lines, NEW lg \in Logs, ScanLog(l, lg)
     PROVE  (StoreInv /\ StoredIsFinal)'
  BY <1>1 DEF ScanLog, TypeOK, StoreInv, StoredIsFinal, Entry
<1>2. ASSUME NEW l \in Lines, ScanEOF(l)
     PROVE  (StoreInv /\ StoredIsFinal)'
  BY <1>2 DEF ScanEOF, TypeOK, StoreInv, StoredIsFinal, Entry
<1>3. ASSUME NEW l \in Lines, ScanError(l)
     PROVE  (StoreInv /\ StoredIsFinal)'
  BY <1>3 DEF ScanError, TypeOK, StoreInv, StoredIsFinal, Entry
<1>4. ASSUME NEW l \in Lines, WriteSend(l)
     PROVE  (StoreInv /\ StoredIsFinal)'
  BY <1>4 DEF WriteSend, TypeOK, StoreInv, StoredIsFinal, Entry
<1>5. ASSUME NEW l \in Lines, WriteCtxDone(l)
     PROVE  (StoreInv /\ StoredIsFinal)'
  BY <1>5 DEF WriteCtxDone, TypeOK, StoreInv, StoredIsFinal, Entry
<1>6. ASSUME NEW l \in Lines, WriteReturn(l)
     PROVE  (StoreInv /\ StoredIsFinal)'
  BY <1>6 DEF WriteReturn, TypeOK, StoreInv, StoredIsFinal, Entry
<1>7. ASSUME NEW l \in Lines, ClosePipeline(l)
     PROVE  (StoreInv /\ StoredIsFinal)'
  BY <1>7 DEF ClosePipeline, TypeOK, StoreInv, StoredIsFinal, Entry
<1>8. ASSUME NEW l \in Lines, ProducerDone(l)
     PROVE  (StoreInv /\ StoredIsFinal)'
  BY <1>8 DEF ProducerDone, TypeOK, StoreInv, StoredIsFinal, Entry
<1>9. ASSUME NEW l \in Lines, ReadPayload(l)
     PROVE  (StoreInv /\ StoredIsFinal)'
  BY <1>9 DEF ReadPayload, TypeOK, StoreInv, StoredIsFinal, Entry
<1>10. ASSUME NEW l \in Lines, ReadEOF(l)
     PROVE  (StoreInv /\ StoredIsFinal)'
  BY <1>10 DEF ReadEOF, TypeOK, StoreInv, StoredIsFinal, Entry
<1>11. ASSUME NEW l \in Lines, ReadCtxDone(l)
     PROVE  (StoreInv /\ StoredIsFinal)'
  BY <1>11 DEF ReadCtxDone, TypeOK, StoreInv, StoredIsFinal, Entry
<1>12. ASSUME NEW l \in Lines, NEW p \in Patterns, RecordCoverage(l, p)
     PROVE  (StoreInv /\ StoredIsFinal)'
  BY <1>12 DEF RecordCoverage, TypeOK, StoreInv, StoredIsFinal, Entry
<1>13. ASSUME NEW l \in Lines, RecordUnknown(l)
     PROVE  (StoreInv /\ StoredIsFinal)'
  BY <1>13 DEF RecordUnknown, TypeOK, StoreInv, StoredIsFinal, Entry
<1>14. ASSUME NEW l \in Lines, CancelLine(l)
     PROVE  (StoreInv /\ StoredIsFinal)'
  BY <1>14 DEF CancelLine, TypeOK, StoreInv, StoredIsFinal, Entry
<1>15. ASSUME NEW l \in Lines, Finish(l)
     PROVE  (StoreInv /\ StoredIsFinal)'
  BY <1>15 DEF Finish, TypeOK, StoreInv, StoredIsFinal, Entry
<1>16. ASSUME NEW l \in Lines, PropagateCtx(l)
     PROVE  (StoreInv /\ StoredIsFinal)'
  BY <1>16 DEF PropagateCtx, TypeOK, StoreInv, StoredIsFinal, Entry
<1>17. ASSUME StartFlush
     PROVE  (StoreInv /\ StoredIsFinal)'
  BY <1>17 DEF StartFlush, TypeOK, StoreInv, StoredIsFinal, Entry
<1>18. ASSUME NEW p \in Patterns, FlushOne(p)
     PROVE  (StoreInv /\ StoredIsFinal)'
  <2>1. Entry(p) # OldCoverage
    <3>1. Entry(p) \in [count : Int, byLog : [Paths -> Int]]
      BY DEF Entry, TypeOK, Int32
    <3> QED
      BY <3>1, OldAssumption
  <2>2. /\ main = "flush" /\ p \in toFlush
        /\ stored' = [stored EXCEPT ![p] = Entry(p)]
        /\ toFlush' = toFlush \ {p}
        /\ UNCHANGED <<consumer, covered, covCount, covByLog, main, runErr>>
    BY <1>18 DEF FlushOne
  <2>3. \A k \in Patterns : Entry(k)' = Entry(k)
    BY <2>2 DEF Entry
  <2>4. stored'[p] = Entry(p) /\ \A k \in Patterns \ {p} : stored'[k] = stored[k]
    BY <2>2 DEF TypeOK
  <2> QED
    BY <2>1, <2>2, <2>3, <2>4 DEF StoreInv, StoredIsFinal, TypeOK
<1>19. ASSUME FlushFail
     PROVE  (StoreInv /\ StoredIsFinal)'
  BY <1>19 DEF FlushFail, TypeOK, StoreInv, StoredIsFinal, Entry
<1>20. ASSUME FlushDone
     PROVE  (StoreInv /\ StoredIsFinal)'
  BY <1>20 DEF FlushDone, TypeOK, StoreInv, StoredIsFinal, Entry
<1>21. ASSUME NEW kind \in CtxEnds, EndCtx(kind)
     PROVE  (StoreInv /\ StoredIsFinal)'
  BY <1>21 DEF EndCtx, TypeOK, StoreInv, StoredIsFinal, Entry
<1>22. ASSUME Crash
     PROVE  (StoreInv /\ StoredIsFinal)'
  BY <1>22 DEF Crash, TypeOK, StoreInv, StoredIsFinal, Entry
<1>23. CASE UNCHANGED vars
  BY <1>23 DEF StoreInv, StoredIsFinal, Entry, vars
<1> QED
  BY <1>1, <1>2, <1>3, <1>4, <1>5, <1>6, <1>7, <1>8, <1>9, <1>10, <1>11, <1>12,
     <1>13, <1>14, <1>15, <1>16, <1>17, <1>18, <1>19, <1>20, <1>21, <1>22,
     <1>23 DEF Next, Producer, Consumer, Main, Terminated

---------------------------------------------------------------------------
(* The counters. *)

LEMMA EventsFinite ==
  ASSUME NEW S \in SUBSET (Lines \X Indices)
  PROVE  IsFiniteSet(S) /\ Cardinality(S) \in Nat
<1>1. IsFiniteSet(Indices)
  BY BoundAssumption, FS_Interval DEF Indices
<1>2. IsFiniteSet(Lines \X Indices)
  BY <1>1, LinesAssumption, FS_Product
<1>3. IsFiniteSet(S)
  BY <1>2, FS_Subset
<1> QED
  BY <1>3, FS_CardinalityType

(* Incrementing a counter counts one more event.                           *)
LEMMA CountOneMore ==
  ASSUME NEW S \in SUBSET (Lines \X Indices), NEW e \in (Lines \X Indices) \ S,
         NEW n \in Int32, Cardinality(S) <= MaxInt32 => n = Cardinality(S),
         Cardinality(S \cup {e}) <= MaxInt32
  PROVE  Incr(n) = Cardinality(S \cup {e})
<1>1. Cardinality(S \cup {e}) = Cardinality(S) + 1 /\ Cardinality(S) \in Nat
  BY EventsFinite, FS_AddElement
<1> QED
  BY <1>1, CounterAssumption DEF Incr

(* Counting an event keeps a total and its split by path in step.          *)
LEMMA CountsBump ==
  ASSUME NEW S \in SUBSET (Lines \X Indices), NEW e \in (Lines \X Indices) \ S,
         NEW total \in Int32, NEW byLog \in [Paths -> Int32],
         Counts(S, total, byLog)
  PROVE  Counts(S \cup {e}, Incr(total), Bump(byLog, LogPath[e[1]]))
<1>1. Cardinality(S \cup {e}) <= MaxInt32 => Incr(total) = Cardinality(S \cup {e})
  <2>1. Cardinality(S) <= MaxInt32 => total = Cardinality(S)
    BY DEF Counts
  <2> QED
    BY <2>1, CountOneMore
<1>2. ASSUME NEW f \in Paths, Cardinality(OfPath(S \cup {e}, f)) <= MaxInt32
      PROVE  Bump(byLog, LogPath[e[1]])[f] = Cardinality(OfPath(S \cup {e}, f))
  <2> DEFINE T == OfPath(S, f)
  <2>1. T \in SUBSET (Lines \X Indices) /\ e \in (Lines \X Indices) \ T
    BY DEF OfPath
  <2>2. Cardinality(T) <= MaxInt32 => byLog[f] = Cardinality(T)
    BY DEF Counts
  <2>3. CASE LogPath[e[1]] = f
    <3>1. OfPath(S \cup {e}, f) = T \cup {e}
      BY <2>3 DEF OfPath
    <3>2. Bump(byLog, LogPath[e[1]])[f] = Incr(byLog[f])
      BY <2>3 DEF Bump
    <3>3. byLog[f] \in Int32 /\ Cardinality(T \cup {e}) <= MaxInt32
      BY <1>2, <3>1
    <3> HIDE DEF T
    <3>4. Incr(byLog[f]) = Cardinality(T \cup {e})
      BY <2>1, <2>2, <3>3, CountOneMore
    <3> QED
      BY <3>1, <3>2, <3>4
  <2>4. CASE LogPath[e[1]] # f
    <3>1. OfPath(S \cup {e}, f) = T
      BY <2>4 DEF OfPath
    <3>2. Bump(byLog, LogPath[e[1]])[f] = byLog[f]
      BY <2>4 DEF Bump
    <3> QED
      BY <1>2, <2>2, <3>1, <3>2
  <2> QED
    BY <2>3, <2>4
<1> QED
  BY <1>1, <1>2 DEF Counts

LEMMA CoverageInit == Init => CoverageExact /\ UnknownExact
<1> SUFFICES ASSUME Init PROVE CoverageExact /\ UnknownExact
  OBVIOUS
<1>1. Counts({}, 0, [f \in Paths |-> 0])
  BY FS_EmptySet DEF Counts, OfPath
<1>2. \A p \in Patterns : Recorded(p) = {}
  BY BoundAssumption DEF Init, Recorded, IsRecorded, Indices
<1>3. \A q \in Positions : RecordedUnknown(q) = {}
  BY BoundAssumption DEF Init, RecordedUnknown, IsRecordedUnknown, Indices
<1> QED
  BY <1>1, <1>2, <1>3 DEF Init, CoverageExact, UnknownExact

(* A step that leaves the hits and the coverage counters alone.             *)
LEMMA CoverageKept ==
  ASSUME CoverageExact, UNCHANGED coverVars,
         \A p \in Patterns : Recorded(p)' = Recorded(p)
  PROVE  CoverageExact'
  BY DEF CoverageExact, Counts, OfPath, coverVars

(* Scanning a log changes no log that has been read.                        *)
LEMMA ScanKeepsRead ==
  ASSUME TypeOK, PipeInv, NEW l \in Lines, NEW lg \in Logs, ScanLog(l, lg),
         NEW k \in Lines, NEW i \in Indices, i <= consumed[k]
  PROVE  scanned'[k][i] = scanned[k][i]
<1>1. scanned' = [scanned EXCEPT ![l] = Append(scanned[l], lg)]
  BY DEF ScanLog
<1>2. i \in 1 .. Len(scanned[k])
  BY ReadIsScanned, LineTypes, BoundAssumption DEF Indices
<1>3. Append(scanned[l], lg)[i] = scanned[l][i] \/ k # l
  BY <1>2, LineTypes, SeqAppend
<1> QED
  BY <1>1, <1>3 DEF TypeOK

(* The payload that Read returns is the next log of the file.               *)
LEMMA ReadsNext ==
  ASSUME TypeOK, PipeInv, NEW l \in Lines, ReadPayload(l)
  PROVE  Head(pipe[l]) = scanned[l][consumed[l] + 1]
<1>1. Head(pipe[l]) = pipe[l][1] /\ 1 \in 1 .. Len(pipe[l])
  BY LineTypes, SeqHeadTail DEF ReadPayload
<1> QED
  BY <1>1 DEF PipeInv, LinePipe

(* A step that touches neither the logs nor what was taken of them.         *)
LEMMA RecordedElse ==
  ASSUME UNCHANGED <<scanned, consumed, todo>>
  PROVE  \A p \in Patterns : Recorded(p)' = Recorded(p)
<1>1. \A p \in Patterns, k \in Lines, i \in Indices : IsRecorded(p, k, i)' <=> IsRecorded(p, k, i)
  BY DEF IsRecorded
<1> QED
  BY <1>1 DEF Recorded

LEMMA RecordedScan ==
  ASSUME TypeOK, PipeInv, NEW l \in Lines, NEW lg \in Logs, ScanLog(l, lg)
  PROVE  \A p \in Patterns : Recorded(p)' = Recorded(p)
<1>1. UNCHANGED <<consumed, todo>>
  BY DEF ScanLog
<1>2. ASSUME NEW p \in Patterns, NEW k \in Lines, NEW i \in Indices
      PROVE  IsRecorded(p, k, i)' <=> IsRecorded(p, k, i)
  BY <1>1, ScanKeepsRead DEF IsRecorded
<1> QED
  BY <1>2 DEF Recorded

(* The hits of a payload count as recorded only as they leave todo.         *)
LEMMA RecordedRead ==
  ASSUME TypeOK, PipeInv, PayloadInv, NEW l \in Lines, ReadPayload(l)
  PROVE  \A p \in Patterns : Recorded(p)' = Recorded(p)
<1>1. /\ UNCHANGED scanned
      /\ consumed'[l] = consumed[l] + 1 /\ consumed[l] \in Nat
      /\ todo[l] = {} /\ todo'[l] = scanned[l][consumed[l] + 1].hits
      /\ \A k \in Lines \ {l} : consumed'[k] = consumed[k] /\ todo'[k] = todo[k]
  <2>1. consumed' = [consumed EXCEPT ![l] = consumed[l] + 1] /\ UNCHANGED scanned
    BY DEF ReadPayload
  <2>2. consumer[l] = "read" /\ todo' = [todo EXCEPT ![l] = Head(pipe[l]).hits]
    BY DEF ReadPayload
  <2>3. todo[l] = {}
    BY <2>2 DEF PayloadInv
  <2>4. Head(pipe[l]) = scanned[l][consumed[l] + 1]
    BY ReadsNext
  <2> QED
    BY <2>1, <2>2, <2>3, <2>4, LineTypes DEF TypeOK
<1>2. ASSUME NEW p \in Patterns, NEW k \in Lines, NEW i \in Indices
      PROVE  IsRecorded(p, k, i)' <=> IsRecorded(p, k, i)
  <2>1. i \in Nat
    BY BoundAssumption DEF Indices
  <2>2. CASE k = l
    BY <1>1, <2>1, <2>2 DEF IsRecorded
  <2>3. CASE k # l
    BY <1>1, <2>3 DEF IsRecorded
  <2> QED
    BY <2>2, <2>3
<1> QED
  BY <1>2 DEF Recorded

(* Record adds the current log to the hits of its pattern, once.            *)
LEMMA RecordedRecord ==
  ASSUME TypeOK, PipeInv, PayloadInv, NEW l \in Lines, NEW p \in Patterns,
         RecordCoverage(l, p)
  PROVE  /\ <<l, consumed[l]>> \in (Lines \X Indices) \ Recorded(p)
         /\ Recorded(p)' = Recorded(p) \cup {<<l, consumed[l]>>}
         /\ \A q \in Patterns \ {p} : Recorded(q)' = Recorded(q)
<1> DEFINE e == <<l, consumed[l]>>
<1>1. /\ UNCHANGED <<scanned, consumed>>
      /\ p \in todo[l] /\ todo'[l] = todo[l] \ {p}
      /\ \A k \in Lines \ {l} : todo'[k] = todo[k]
  BY DEF RecordCoverage, TypeOK
<1>2. consumed[l] \in Indices /\ p \in scanned[l][consumed[l]].hits
  <2>1. consumed[l] > 0 /\ p \in scanned[l][consumed[l]].hits
    BY <1>1 DEF RecordCoverage, PayloadInv
  <2>2. consumed[l] <= Len(scanned[l]) /\ Len(scanned[l]) <= MaxLogs
    BY ReadIsScanned DEF TypeOK
  <2> QED
    BY <2>1, <2>2, LineTypes, BoundAssumption DEF Indices
<1>3. e \in (Lines \X Indices) \ Recorded(p)
  BY <1>1, <1>2 DEF Recorded, IsRecorded
<1>4. Recorded(p)' = Recorded(p) \cup {e}
  <2>1. ASSUME NEW k \in Lines, NEW i \in Indices
        PROVE  IsRecorded(p, k, i)' <=> IsRecorded(p, k, i) \/ <<k, i>> = e
    <3>1. CASE k = l
      BY <1>1, <1>2, <3>1, LineTypes DEF IsRecorded
    <3>2. CASE k # l
      BY <1>1, <3>2 DEF IsRecorded
    <3> QED
      BY <3>1, <3>2
  <2> HIDE DEF e
  <2> QED
    BY <1>3, <2>1 DEF Recorded
<1>5. \A q \in Patterns \ {p} : Recorded(q)' = Recorded(q)
  <2>1. ASSUME NEW q \in Patterns \ {p}, NEW k \in Lines, NEW i \in Indices
        PROVE  IsRecorded(q, k, i)' <=> IsRecorded(q, k, i)
    <3>1. q \in todo'[k] <=> q \in todo[k]
      BY <1>1
    <3> QED
      BY <1>1, <3>1 DEF IsRecorded
  <2> QED
    BY <2>1 DEF Recorded
<1> QED
  BY <1>3, <1>4, <1>5

LEMMA CoverageStep ==
  TypeOK /\ PipeInv /\ PayloadInv /\ CoverageExact /\ [Next]_vars
    => CoverageExact'
<1> SUFFICES ASSUME TypeOK, PipeInv, PayloadInv, CoverageExact, [Next]_vars PROVE CoverageExact'
  OBVIOUS
<1>1. ASSUME NEW l \in Lines, NEW lg \in Logs, ScanLog(l, lg)
     PROVE  CoverageExact'
  <2>1. UNCHANGED coverVars
    BY <1>1 DEF ScanLog
  <2> QED
    BY <2>1, <1>1, RecordedScan, CoverageKept
<1>2. ASSUME NEW l \in Lines, ScanEOF(l)
     PROVE  CoverageExact'
  BY CoverageKept, RecordedElse, <1>2 DEF ScanEOF
<1>3. ASSUME NEW l \in Lines, ScanError(l)
     PROVE  CoverageExact'
  BY CoverageKept, RecordedElse, <1>3 DEF ScanError
<1>4. ASSUME NEW l \in Lines, WriteSend(l)
     PROVE  CoverageExact'
  BY CoverageKept, RecordedElse, <1>4 DEF WriteSend
<1>5. ASSUME NEW l \in Lines, WriteCtxDone(l)
     PROVE  CoverageExact'
  BY CoverageKept, RecordedElse, <1>5 DEF WriteCtxDone
<1>6. ASSUME NEW l \in Lines, WriteReturn(l)
     PROVE  CoverageExact'
  BY CoverageKept, RecordedElse, <1>6 DEF WriteReturn
<1>7. ASSUME NEW l \in Lines, ClosePipeline(l)
     PROVE  CoverageExact'
  BY CoverageKept, RecordedElse, <1>7 DEF ClosePipeline
<1>8. ASSUME NEW l \in Lines, ProducerDone(l)
     PROVE  CoverageExact'
  BY CoverageKept, RecordedElse, <1>8 DEF ProducerDone
<1>9. ASSUME NEW l \in Lines, ReadPayload(l)
     PROVE  CoverageExact'
  <2>1. UNCHANGED coverVars
    BY <1>9 DEF ReadPayload
  <2> QED
    BY <2>1, <1>9, RecordedRead, CoverageKept
<1>10. ASSUME NEW l \in Lines, ReadEOF(l)
     PROVE  CoverageExact'
  BY CoverageKept, RecordedElse, <1>10 DEF ReadEOF
<1>11. ASSUME NEW l \in Lines, ReadCtxDone(l)
     PROVE  CoverageExact'
  BY CoverageKept, RecordedElse, <1>11 DEF ReadCtxDone
<1>12. ASSUME NEW l \in Lines, NEW p \in Patterns, RecordCoverage(l, p)
     PROVE  CoverageExact'
  <2> DEFINE e == <<l, consumed[l]>>
  <2>1. e \in (Lines \X Indices) \ Recorded(p)
    BY <1>12, RecordedRecord
  <2>2. Recorded(p)' = Recorded(p) \cup {e}
    BY <1>12, RecordedRecord
  <2>3. \A q \in Patterns \ {p} : Recorded(q)' = Recorded(q)
    BY <1>12, RecordedRecord
  <2>4. /\ covered' = covered \cup {p}
        /\ covCount'[p] = Incr(covCount[p])
        /\ covByLog'[p] = Bump(covByLog[p], LogPath[l])
        /\ \A q \in Patterns \ {p} : covCount'[q] = covCount[q] /\ covByLog'[q] = covByLog[q]
    BY <1>12 DEF RecordCoverage, TypeOK
  <2>5. Counts(Recorded(p)', covCount'[p], covByLog'[p])
    <3>1. covCount[p] \in Int32 /\ covByLog[p] \in [Paths -> Int32]
      BY DEF TypeOK
    <3>2. Counts(Recorded(p), covCount[p], covByLog[p])
      BY DEF CoverageExact
    <3>3. Recorded(p) \in SUBSET (Lines \X Indices) /\ LogPath[e[1]] = LogPath[l]
      BY DEF Recorded
    <3> HIDE DEF e
    <3>4. Counts(Recorded(p) \cup {e}, Incr(covCount[p]), Bump(covByLog[p], LogPath[e[1]]))
      BY <2>1, <3>1, <3>2, <3>3, CountsBump, Zenon
    <3> QED
      BY <2>2, <2>4, <3>3, <3>4, Zenon
  <2>6. Counts(Recorded(p), covCount[p], covByLog[p])'
    BY <2>5 DEF Counts, OfPath
  <2>7. \A q \in Patterns \ {p} : Counts(Recorded(q), covCount[q], covByLog[q])'
    BY <2>3, <2>4 DEF CoverageExact, Counts, OfPath
  <2>8. \A q \in Patterns : q \in covered' <=> Recorded(q)' # {}
    BY <2>2, <2>3, <2>4 DEF CoverageExact
  <2> QED
    BY <2>6, <2>7, <2>8 DEF CoverageExact
<1>13. ASSUME NEW l \in Lines, RecordUnknown(l)
     PROVE  CoverageExact'
  BY CoverageKept, RecordedElse, <1>13 DEF RecordUnknown
<1>14. ASSUME NEW l \in Lines, CancelLine(l)
     PROVE  CoverageExact'
  BY CoverageKept, RecordedElse, <1>14 DEF CancelLine
<1>15. ASSUME NEW l \in Lines, Finish(l)
     PROVE  CoverageExact'
  BY CoverageKept, RecordedElse, <1>15 DEF Finish
<1>16. ASSUME NEW l \in Lines, PropagateCtx(l)
     PROVE  CoverageExact'
  BY CoverageKept, RecordedElse, <1>16 DEF PropagateCtx
<1>17. ASSUME StartFlush
     PROVE  CoverageExact'
  BY CoverageKept, RecordedElse, <1>17 DEF StartFlush
<1>18. ASSUME NEW p \in Patterns, FlushOne(p)
     PROVE  CoverageExact'
  BY CoverageKept, RecordedElse, <1>18 DEF FlushOne
<1>19. ASSUME FlushFail
     PROVE  CoverageExact'
  BY CoverageKept, RecordedElse, <1>19 DEF FlushFail
<1>20. ASSUME FlushDone
     PROVE  CoverageExact'
  BY CoverageKept, RecordedElse, <1>20 DEF FlushDone
<1>21. ASSUME NEW kind \in CtxEnds, EndCtx(kind)
     PROVE  CoverageExact'
  BY CoverageKept, RecordedElse, <1>21 DEF EndCtx
<1>22. ASSUME Crash
     PROVE  CoverageExact'
  BY CoverageKept, RecordedElse, <1>22 DEF Crash
<1>23. CASE UNCHANGED vars
  BY <1>23, CoverageKept, RecordedElse DEF vars
<1> QED
  BY <1>1, <1>2, <1>3, <1>4, <1>5, <1>6, <1>7, <1>8, <1>9, <1>10, <1>11, <1>12,
     <1>13, <1>14, <1>15, <1>16, <1>17, <1>18, <1>19, <1>20, <1>21, <1>22,
     <1>23 DEF Next, Producer, Consumer, Main, Terminated

(* A step that leaves the logs, the unknown counters and the consumers that  *)
(* are about to record an unknown log alone.                               *)
LEMMA UnknownKept ==
  ASSUME UnknownExact, UNCHANGED <<scanned, consumed, unknownVars>>,
         \A k \in Lines : consumer'[k] = "unknown" <=> consumer[k] = "unknown"
  PROVE  UnknownExact'
<1>1. \A q \in Positions, k \in Lines, i \in Indices :
        IsRecordedUnknown(q, k, i)' <=> IsRecordedUnknown(q, k, i)
  BY DEF IsRecordedUnknown
<1>2. \A q \in Positions : RecordedUnknown(q)' = RecordedUnknown(q)
  BY <1>1 DEF RecordedUnknown
<1> QED
  BY <1>2 DEF UnknownExact, Counts, OfPath, unknownVars

LEMMA UnknownStep ==
  TypeOK /\ PipeInv /\ PayloadInv /\ UnknownExact /\ [Next]_vars
    => UnknownExact'
<1> SUFFICES ASSUME TypeOK, PipeInv, PayloadInv, UnknownExact, [Next]_vars PROVE UnknownExact'
  OBVIOUS
<1>1. ASSUME NEW l \in Lines, NEW lg \in Logs, ScanLog(l, lg)
     PROVE  UnknownExact'
  <2>1. UNCHANGED <<consumed, consumer, unknownVars>>
    BY <1>1 DEF ScanLog
  <2>2. ASSUME NEW q \in Positions, NEW k \in Lines, NEW i \in Indices
        PROVE  IsRecordedUnknown(q, k, i)' <=> IsRecordedUnknown(q, k, i)
    BY <2>1, <1>1, ScanKeepsRead DEF IsRecordedUnknown
  <2>3. \A q \in Positions : RecordedUnknown(q)' = RecordedUnknown(q)
    BY <2>2 DEF RecordedUnknown
  <2> QED
    BY <2>1, <2>3 DEF UnknownExact, Counts, OfPath, unknownVars
<1>2. ASSUME NEW l \in Lines, ScanEOF(l)
     PROVE  UnknownExact'
  BY UnknownKept, <1>2 DEF ScanEOF, TypeOK
<1>3. ASSUME NEW l \in Lines, ScanError(l)
     PROVE  UnknownExact'
  BY UnknownKept, <1>3 DEF ScanError, TypeOK
<1>4. ASSUME NEW l \in Lines, WriteSend(l)
     PROVE  UnknownExact'
  BY UnknownKept, <1>4 DEF WriteSend, TypeOK
<1>5. ASSUME NEW l \in Lines, WriteCtxDone(l)
     PROVE  UnknownExact'
  BY UnknownKept, <1>5 DEF WriteCtxDone, TypeOK
<1>6. ASSUME NEW l \in Lines, WriteReturn(l)
     PROVE  UnknownExact'
  BY UnknownKept, <1>6 DEF WriteReturn, TypeOK
<1>7. ASSUME NEW l \in Lines, ClosePipeline(l)
     PROVE  UnknownExact'
  BY UnknownKept, <1>7 DEF ClosePipeline, TypeOK
<1>8. ASSUME NEW l \in Lines, ProducerDone(l)
     PROVE  UnknownExact'
  BY UnknownKept, <1>8 DEF ProducerDone, TypeOK
<1>9. ASSUME NEW l \in Lines, ReadPayload(l)
     PROVE  UnknownExact'
  <2> DEFINE lg == Head(pipe[l])
  <2>1. /\ UNCHANGED <<scanned, unknownVars>>
        /\ consumer[l] = "read"
        /\ consumed' = [consumed EXCEPT ![l] = consumed[l] + 1]
        /\ consumer' = [consumer EXCEPT ![l] =
                          IF lg.hits # {} THEN "record"
                          ELSE IF lg.inRule THEN "unknown" ELSE "read"]
    BY <1>9 DEF ReadPayload
  <2>2. lg = scanned[l][consumed[l] + 1] /\ consumed[l] \in Nat
    BY <1>9, ReadsNext, LineTypes
  <2>3. /\ consumed'[l] = consumed[l] + 1
        /\ lg.hits = {} /\ lg.inRule => consumer'[l] = "unknown"
        /\ lg.hits # {} \/ ~lg.inRule => consumer'[l] # "unknown"
        /\ \A k \in Lines \ {l} : consumed'[k] = consumed[k] /\ consumer'[k] = consumer[k]
    BY <2>1 DEF TypeOK
  <2> HIDE DEF lg
  <2>4. ASSUME NEW q \in Positions, NEW k \in Lines, NEW i \in Indices
        PROVE  IsRecordedUnknown(q, k, i)' <=> IsRecordedUnknown(q, k, i)
    <3>1. i \in Nat
      BY BoundAssumption DEF Indices
    <3>2. CASE k = l /\ i = consumed[l] + 1
      BY <2>1, <2>2, <2>3, <3>1, <3>2 DEF IsRecordedUnknown
    <3>3. CASE k = l /\ i # consumed[l] + 1
      BY <2>1, <2>2, <2>3, <3>1, <3>3 DEF IsRecordedUnknown
    <3>4. CASE k # l
      BY <2>1, <2>3, <3>4 DEF IsRecordedUnknown
    <3> QED
      BY <3>2, <3>3, <3>4
  <2>5. \A q \in Positions : RecordedUnknown(q)' = RecordedUnknown(q)
    BY <2>4 DEF RecordedUnknown
  <2> QED
    BY <2>1, <2>5 DEF UnknownExact, Counts, OfPath, unknownVars
<1>10. ASSUME NEW l \in Lines, ReadEOF(l)
     PROVE  UnknownExact'
  BY UnknownKept, <1>10 DEF ReadEOF, TypeOK
<1>11. ASSUME NEW l \in Lines, ReadCtxDone(l)
     PROVE  UnknownExact'
  BY UnknownKept, <1>11 DEF ReadCtxDone, TypeOK
<1>12. ASSUME NEW l \in Lines, NEW p \in Patterns, RecordCoverage(l, p)
     PROVE  UnknownExact'
  BY UnknownKept, <1>12 DEF RecordCoverage, TypeOK
<1>13. ASSUME NEW l \in Lines, RecordUnknown(l)
     PROVE  UnknownExact'
  <2> DEFINE e == <<l, consumed[l]>>
  <2>1. /\ UNCHANGED <<scanned, consumed>>
        /\ consumer[l] = "unknown" /\ consumer'[l] = "read"
        /\ \A k \in Lines \ {l} : consumer'[k] = consumer[k]
    BY <1>13 DEF RecordUnknown, TypeOK
  <2>2. /\ payload[l] = scanned[l][consumed[l]] /\ consumed[l] > 0
        /\ payload[l].hits = {} /\ payload[l].inRule
    BY <2>1 DEF PayloadInv
  <2>3. consumed[l] \in Indices /\ consumed[l] \in 1 .. Len(scanned[l])
    <3>1. consumed[l] <= Len(scanned[l]) /\ Len(scanned[l]) <= MaxLogs
      BY ReadIsScanned DEF TypeOK
    <3> QED
      BY <2>2, <3>1, LineTypes, BoundAssumption DEF Indices
  <2>4. payload[l].position \in Positions
    <3>1. payload[l] \in Logs
      BY <2>2, <2>3, LineTypes, SeqElement
    <3> QED
      BY <3>1, LogsAssumption
  <2> PICK r \in Positions : r = payload[l].position
    BY <2>4
  <2>5. e \in (Lines \X Indices) \ RecordedUnknown(r)
    BY <2>1, <2>3 DEF RecordedUnknown, IsRecordedUnknown
  <2>6. ASSUME NEW q \in Positions, NEW k \in Lines, NEW i \in Indices
        PROVE  IsRecordedUnknown(q, k, i)' <=>
                 IsRecordedUnknown(q, k, i) \/ (q = r /\ <<k, i>> = e)
    <3>1. CASE k = l /\ i = consumed[l]
      BY <2>1, <2>2, <3>1, LineTypes DEF IsRecordedUnknown
    <3>2. CASE k = l /\ i # consumed[l]
      BY <2>1, <3>2 DEF IsRecordedUnknown
    <3>3. CASE k # l
      BY <2>1, <3>3 DEF IsRecordedUnknown
    <3> QED
      BY <3>1, <3>2, <3>3
  <2>7. /\ unkCount' = [unkCount EXCEPT ![r] = Incr(unkCount[r])]
        /\ unkByLog' = [unkByLog EXCEPT ![r] = Bump(unkByLog[r], LogPath[l])]
    BY <1>13 DEF RecordUnknown
  <2>8. LogPath[e[1]] = LogPath[l]
    OBVIOUS
  <2> HIDE DEF e
  <2>9. RecordedUnknown(r)' = RecordedUnknown(r) \cup {e}
    BY <2>4, <2>5, <2>6 DEF RecordedUnknown
  <2>10. \A q \in Positions \ {r} : RecordedUnknown(q)' = RecordedUnknown(q)
    BY <2>6 DEF RecordedUnknown
  <2>11. /\ unkCount'[r] = Incr(unkCount[r])
         /\ unkByLog'[r] = Bump(unkByLog[r], LogPath[l])
         /\ \A q \in Positions \ {r} : unkCount'[q] = unkCount[q] /\ unkByLog'[q] = unkByLog[q]
    BY <2>4, <2>7 DEF TypeOK
  <2>12. Counts(RecordedUnknown(r)', unkCount'[r], unkByLog'[r])
    <3>1. unkCount[r] \in Int32 /\ unkByLog[r] \in [Paths -> Int32]
      BY <2>4 DEF TypeOK
    <3>2. Counts(RecordedUnknown(r), unkCount[r], unkByLog[r])
      BY <2>4 DEF UnknownExact
    <3>3. RecordedUnknown(r) \in SUBSET (Lines \X Indices)
      BY DEF RecordedUnknown
    <3> QED
      BY <2>5, <2>8, <2>9, <2>11, <3>1, <3>2, <3>3, CountsBump
  <2>13. ASSUME NEW q \in Positions
         PROVE  Counts(RecordedUnknown(q)', unkCount'[q], unkByLog'[q])
    <3>1. CASE q = r
      BY <2>12, <3>1
    <3>2. CASE q # r
      BY <2>10, <2>11, <3>2 DEF UnknownExact
    <3> QED
      BY <3>1, <3>2
  <2> QED
    BY <2>13 DEF UnknownExact, Counts, OfPath
<1>14. ASSUME NEW l \in Lines, CancelLine(l)
     PROVE  UnknownExact'
  BY UnknownKept, <1>14 DEF CancelLine, TypeOK
<1>15. ASSUME NEW l \in Lines, Finish(l)
     PROVE  UnknownExact'
  BY UnknownKept, <1>15 DEF Finish, TypeOK
<1>16. ASSUME NEW l \in Lines, PropagateCtx(l)
     PROVE  UnknownExact'
  BY UnknownKept, <1>16 DEF PropagateCtx, TypeOK
<1>17. ASSUME StartFlush
     PROVE  UnknownExact'
  BY UnknownKept, <1>17 DEF StartFlush, TypeOK
<1>18. ASSUME NEW p \in Patterns, FlushOne(p)
     PROVE  UnknownExact'
  BY UnknownKept, <1>18 DEF FlushOne, TypeOK
<1>19. ASSUME FlushFail
     PROVE  UnknownExact'
  BY UnknownKept, <1>19 DEF FlushFail, TypeOK
<1>20. ASSUME FlushDone
     PROVE  UnknownExact'
  BY UnknownKept, <1>20 DEF FlushDone, TypeOK
<1>21. ASSUME NEW kind \in CtxEnds, EndCtx(kind)
     PROVE  UnknownExact'
  BY UnknownKept, <1>21 DEF EndCtx, TypeOK
<1>22. ASSUME Crash
     PROVE  UnknownExact'
  BY UnknownKept, <1>22 DEF Crash, TypeOK
<1>23. CASE UNCHANGED vars
  BY <1>23, UnknownKept DEF vars
<1> QED
  BY <1>1, <1>2, <1>3, <1>4, <1>5, <1>6, <1>7, <1>8, <1>9, <1>10, <1>11, <1>12,
     <1>13, <1>14, <1>15, <1>16, <1>17, <1>18, <1>19, <1>20, <1>21, <1>22,
     <1>23 DEF Next, Producer, Consumer, Main, Terminated

---------------------------------------------------------------------------
(* Theorems. *)

(* The inductive invariant holds in every reachable state.                 *)
THEOREM Invariance == Spec => []IInv
<1>1. Init => IInv
  BY TypeInit, ControlInit, PipeInit, PayloadInit, StoreInit, CoverageInit DEF IInv
<1>2. IInv /\ [Next]_vars => IInv'
  BY TypeStep, ControlStep, PipeStep, PayloadStep, StoreStep, CoverageStep, UnknownStep
     DEF IInv
<1> QED
  BY <1>1, <1>2, PTL DEF Spec

(* Types, int32 ranges and the capacity of the channels (pipeline.go:23).  *)
THEOREM TypeCorrect == Spec => []TypeOK
<1>1. IInv => TypeOK
  BY DEF IInv
<1> QED
  BY <1>1, Invariance, PTL

(* The channel of a line loses, repeats and reorders nothing that Scan      *)
(* returned, except the log of a Write that the end of lineCtx cut short    *)
(* (pipeline.go:32-54).                                                    *)
THEOREM PipeConserves == Spec => []Conservation
<1>1. IInv => Conservation
  <2> SUFFICES ASSUME IInv, NEW l \in Lines
               PROVE  LET missing == Len(scanned[l]) - consumed[l] - Len(pipe[l])
                      IN  /\ missing \in {0, 1}
                          /\ missing = 1 => producer[l] = "send" \/ lctx[l] # "live"
                          /\ \A k \in 1 .. Len(pipe[l]) :
                               pipe[l][k] = scanned[l][consumed[l] + k]
    BY DEF Conservation
  <2> QED
    BY DEF IInv, TypeOK, PipeInv, LinePipe
<1> QED
  BY <1>1, Invariance, PTL

(* Any number of lines recording at once, in any interleaving, count every  *)
(* hit exactly once, in total and per path (log_record/coverager.go:27-45). *)
THEOREM CoverageIsExact == Spec => []CoverageExact
<1>1. IInv => CoverageExact
  BY DEF IInv
<1> QED
  BY <1>1, Invariance, PTL

(* The same for the logs no pattern matches (unknow_recorder.go:26-47).     *)
THEOREM UnknownIsExact == Spec => []UnknownExact
<1>1. IInv => UnknownExact
  BY DEF IInv
<1> QED
  BY <1>1, Invariance, PTL

(* No intermediate count reaches the store, even when the process is killed *)
(* or a write fails in the middle of Flush (log_record/coverager.go:47-59). *)
THEOREM StoreIsFinal == Spec => []StoredIsFinal
<1>1. IInv => StoredIsFinal
  BY DEF IInv
<1> QED
  BY <1>1, Invariance, PTL

(* A line returns nil only when its whole file was recorded, up to the      *)
(* deadline that run drops (scanner.go:122-127).                           *)
THEOREM NilIsComplete == Spec => []NilMeansAll
<1>1. IInv => NilMeansAll
  <2> SUFFICES ASSUME IInv, NEW l \in Lines, consumer[l] = "done"
               PROVE  /\ retErr[l] = "nil" /\ err2[l] # "deadline" =>
                           source[l] = "eof" /\ consumed[l] = Len(scanned[l]) /\ todo[l] = {}
                      /\ source[l] = "broken" => retErr[l] # "nil"
    BY DEF NilMeansAll
  <2>1. producer[l] = "done" /\ todo[l] = {}
    BY DEF IInv, Control, PayloadInv
  <2>2. source[l] = "broken" => retErr[l] # "nil"
    BY <2>1 DEF IInv, Control, CtxErrs
  <2>3. ASSUME retErr[l] = "nil", err2[l] # "deadline"
        PROVE  source[l] = "eof" /\ consumed[l] = Len(scanned[l])
    <3>1. err2[l] = "nil" /\ err1[l] = "nil" /\ pipe[l] = <<>> /\ source[l] = "eof"
      BY <2>1, <2>3 DEF IInv, Control, CtxErrs
    <3>2. Len(scanned[l]) - consumed[l] - Len(pipe[l]) = 0
      BY <2>1, <3>1 DEF IInv, PipeInv, LinePipe, CtxErrs
    <3>3. /\ Len(scanned[l]) \in Nat /\ consumed[l] \in Nat /\ Len(pipe[l]) = 0
      BY <3>1, LineTypes, SeqLen DEF IInv
    <3> QED
      BY <3>1, <3>2, <3>3
  <2> QED
    BY <2>1, <2>2, <2>3
<1> QED
  BY <1>1, Invariance, PTL

(* End to end: a run without error whose context stays alive stores the     *)
(* hits of every log that Scan returned (scanner.go:57-75).                *)
THEOREM RunIsWhole == Spec => []WholeRun
<1>1. IInv => WholeRun
  <2> SUFFICES ASSUME IInv, main = "returned", ~runErr, ctx = "live", NEW p \in Patterns
               PROVE  IF Matching(p) = {} THEN stored[p] = OldCoverage
                      ELSE /\ stored[p] # OldCoverage
                           /\ Cardinality(Matching(p)) <= MaxInt32 =>
                                stored[p].count = Cardinality(Matching(p))
    BY DEF WholeRun
  <2>1. /\ p \in covered <=> stored[p] # OldCoverage
        /\ \A l \in Lines : consumer[l] = "done"
    BY DEF IInv, StoreInv
  <2>2. ASSUME NEW l \in Lines
        PROVE  consumed[l] = Len(scanned[l]) /\ todo[l] = {}
    <3>1. consumer[l] = "done" /\ producer[l] = "done" /\ pipe[l] = <<>> /\ todo[l] = {}
      BY <2>1 DEF IInv, Control, PayloadInv
    <3>2. Len(scanned[l]) - consumed[l] - Len(pipe[l]) = 0
      BY <3>1 DEF IInv, Control, PipeInv, LinePipe, CtxErrs
    <3>3. /\ Len(scanned[l]) \in Nat /\ consumed[l] \in Nat /\ Len(pipe[l]) = 0
      BY <3>1, LineTypes, SeqLen DEF IInv
    <3> QED
      BY <3>1, <3>2, <3>3
  <2>3. Matching(p) = Recorded(p)
    <3>1. ASSUME NEW e \in Lines \X Indices
          PROVE  IsRecorded(p, e[1], e[2]) <=>
                   e[2] <= Len(scanned[e[1]]) /\ p \in scanned[e[1]][e[2]].hits
      BY <2>2 DEF IsRecorded
    <3> QED
      BY <3>1 DEF Matching, Recorded
  <2>4. /\ p \in covered <=> Recorded(p) # {}
        /\ Cardinality(Recorded(p)) <= MaxInt32 => covCount[p] = Cardinality(Recorded(p))
    BY DEF IInv, CoverageExact, Counts
  <2>5. stored[p] # OldCoverage => stored[p].count = covCount[p]
    <3>1. stored[p] # OldCoverage => stored[p] = Entry(p)
      BY DEF IInv, StoredIsFinal
    <3>2. Entry(p).count = covCount[p]
      BY DEF Entry
    <3> QED
      BY <3>1, <3>2
  <2> QED
    BY <2>1, <2>3, <2>4, <2>5
<1> QED
  BY <1>1, Invariance, PTL

---------------------------------------------------------------------------
(* Refinement. *)

(* A step that changes neither the ledger nor what is published.           *)
LEMMA LedgerStutter ==
  ASSUME \A p \in Patterns : Recorded(p)' = Recorded(p),
         (\A l \in Lines : consumer[l] = "done")' <=> \A l \in Lines : consumer[l] = "done",
         UNCHANGED <<stored, main>>
  PROVE  UNCHANGED Ledger!vars
  BY DEF Ledger!vars, Running

LEMMA LedgerQuiet ==
  ASSUME UNCHANGED <<scanned, consumed, todo, stored, main>>,
         (\A l \in Lines : consumer[l] = "done")' <=> \A l \in Lines : consumer[l] = "done"
  PROVE  UNCHANGED Ledger!vars
  BY RecordedElse, LedgerStutter

(* The entry Flush writes for p is the total of p in the ledger.            *)
LEMMA EntryIsTotal ==
  ASSUME Cardinality(Lines \X Indices) <= MaxInt32, TypeOK, CoverageExact,
         NEW p \in Patterns
  PROVE  Entry(p) = Ledger!Total(p)
<1>1. ASSUME NEW S \in SUBSET (Lines \X Indices)
      PROVE  Cardinality(S) <= MaxInt32
  <2>1. IsFiniteSet(Lines \X Indices)
    BY EventsFinite
  <2>2. Cardinality(S) <= Cardinality(Lines \X Indices)
    BY <2>1, FS_Subset
  <2> QED
    BY <2>2, EventsFinite, CounterAssumption
<1>2. Recorded(p) \in SUBSET (Lines \X Indices)
  BY DEF Recorded
<1>3. covCount[p] = Cardinality(Recorded(p))
  BY <1>1, <1>2 DEF CoverageExact, Counts
<1>4. \A f \in Paths : covByLog[p][f] = Cardinality(OfPath(Recorded(p), f))
  <2> TAKE f \in Paths
  <2>1. OfPath(Recorded(p), f) \in SUBSET (Lines \X Indices)
    BY <1>2 DEF OfPath
  <2>2. Cardinality(OfPath(Recorded(p), f)) <= MaxInt32
    BY <1>1, <2>1
  <2> QED
    BY <2>2 DEF CoverageExact, Counts
<1>5. covByLog[p] = [f \in Paths |-> Cardinality(OfPath(Recorded(p), f))]
  BY <1>4 DEF TypeOK
<1>6. Ledger!Total(p) =
        [count |-> Cardinality(Recorded(p)),
         byLog |-> [f \in Paths |-> Cardinality(OfPath(Recorded(p), f))]]
  <2> DEFINE led == [q \in Patterns |-> Recorded(q)][p]
             perPath(S) == [f \in Paths |-> Cardinality({h \in S : LogPath[h[1]] = f})]
  <2>1. led = Recorded(p)
    OBVIOUS
  <2>2. \A S : Ledger!Cardinality(S) = Cardinality(S)
    BY Zenon DEF Ledger!Cardinality, Cardinality
  <2>3. Ledger!Total(p) = [count |-> Cardinality(led), byLog |-> perPath(led)]
    BY <2>2, Zenon DEF Ledger!Total, Paths
  <2>4. perPath(Recorded(p)) = [f \in Paths |-> Cardinality(OfPath(Recorded(p), f))]
    BY Zenon DEF OfPath
  <2> HIDE DEF led, perPath
  <2> QED
    BY <2>1, <2>3, <2>4
<1> QED
  BY <1>3, <1>5, <1>6 DEF Entry

LEMMA LedgerStep ==
  Cardinality(Lines \X Indices) <= MaxInt32 /\ TypeOK /\ PipeInv /\ PayloadInv
    /\ CoverageExact /\ StoreInv /\ [Next]_vars
    => [Ledger!Next]_(Ledger!vars)
<1> SUFFICES ASSUME Cardinality(Lines \X Indices) <= MaxInt32, TypeOK, PipeInv, PayloadInv, CoverageExact, StoreInv, [Next]_vars
             PROVE [Ledger!Next]_(Ledger!vars)
  OBVIOUS
<1>1. ASSUME NEW l \in Lines, NEW lg \in Logs, ScanLog(l, lg)
     PROVE  [Ledger!Next]_(Ledger!vars)
  <2>1. \A p \in Patterns : Recorded(p)' = Recorded(p)
    BY <1>1, RecordedScan
  <2>2. (\A k \in Lines : consumer[k] = "done")' <=> \A k \in Lines : consumer[k] = "done"
    BY <1>1 DEF ScanLog, TypeOK
  <2>3. UNCHANGED <<stored, main>>
    BY <1>1 DEF ScanLog
  <2> QED
    BY <2>1, <2>2, <2>3, LedgerStutter
<1>2. ASSUME NEW l \in Lines, ScanEOF(l)
     PROVE  [Ledger!Next]_(Ledger!vars)
  BY LedgerQuiet, <1>2 DEF ScanEOF, TypeOK
<1>3. ASSUME NEW l \in Lines, ScanError(l)
     PROVE  [Ledger!Next]_(Ledger!vars)
  BY LedgerQuiet, <1>3 DEF ScanError, TypeOK
<1>4. ASSUME NEW l \in Lines, WriteSend(l)
     PROVE  [Ledger!Next]_(Ledger!vars)
  BY LedgerQuiet, <1>4 DEF WriteSend, TypeOK
<1>5. ASSUME NEW l \in Lines, WriteCtxDone(l)
     PROVE  [Ledger!Next]_(Ledger!vars)
  BY LedgerQuiet, <1>5 DEF WriteCtxDone, TypeOK
<1>6. ASSUME NEW l \in Lines, WriteReturn(l)
     PROVE  [Ledger!Next]_(Ledger!vars)
  BY LedgerQuiet, <1>6 DEF WriteReturn, TypeOK
<1>7. ASSUME NEW l \in Lines, ClosePipeline(l)
     PROVE  [Ledger!Next]_(Ledger!vars)
  BY LedgerQuiet, <1>7 DEF ClosePipeline, TypeOK
<1>8. ASSUME NEW l \in Lines, ProducerDone(l)
     PROVE  [Ledger!Next]_(Ledger!vars)
  BY LedgerQuiet, <1>8 DEF ProducerDone, TypeOK
<1>9. ASSUME NEW l \in Lines, ReadPayload(l)
     PROVE  [Ledger!Next]_(Ledger!vars)
  <2>1. \A p \in Patterns : Recorded(p)' = Recorded(p)
    BY <1>9, RecordedRead
  <2>2. (\A k \in Lines : consumer[k] = "done")' <=> \A k \in Lines : consumer[k] = "done"
    BY <1>9 DEF ReadPayload, TypeOK
  <2>3. UNCHANGED <<stored, main>>
    BY <1>9 DEF ReadPayload
  <2> QED
    BY <2>1, <2>2, <2>3, LedgerStutter
<1>10. ASSUME NEW l \in Lines, ReadEOF(l)
     PROVE  [Ledger!Next]_(Ledger!vars)
  BY LedgerQuiet, <1>10 DEF ReadEOF, TypeOK
<1>11. ASSUME NEW l \in Lines, ReadCtxDone(l)
     PROVE  [Ledger!Next]_(Ledger!vars)
  BY LedgerQuiet, <1>11 DEF ReadCtxDone, TypeOK
<1>12. ASSUME NEW l \in Lines, NEW p \in Patterns, RecordCoverage(l, p)
     PROVE  [Ledger!Next]_(Ledger!vars)
  <2> DEFINE e == <<l, consumed[l]>>
  <2>1. /\ e \in (Lines \X Indices) \ Recorded(p)
        /\ Recorded(p)' = Recorded(p) \cup {e}
        /\ \A q \in Patterns \ {p} : Recorded(q)' = Recorded(q)
    BY <1>12, RecordedRecord
  <2>2. /\ ~(\A k \in Lines : consumer[k] = "done") /\ ~(\A k \in Lines : consumer'[k] = "done")
        /\ Running /\ Running' /\ UNCHANGED stored
    BY <1>12 DEF RecordCoverage, TypeOK, Running
  <2> HIDE DEF e
  <2>3. Ledger!Observe(p, e)
    BY <2>1, <2>2 DEF Ledger!Observe
  <2>4. e \in Ledger!Hits
    BY <2>1 DEF Ledger!Hits
  <2> QED
    BY <2>3, <2>4 DEF Ledger!Next
<1>13. ASSUME NEW l \in Lines, RecordUnknown(l)
     PROVE  [Ledger!Next]_(Ledger!vars)
  BY LedgerQuiet, <1>13 DEF RecordUnknown, TypeOK
<1>14. ASSUME NEW l \in Lines, CancelLine(l)
     PROVE  [Ledger!Next]_(Ledger!vars)
  BY LedgerQuiet, <1>14 DEF CancelLine, TypeOK
<1>15. ASSUME NEW l \in Lines, Finish(l)
     PROVE  [Ledger!Next]_(Ledger!vars)
  <2>1. \A p \in Patterns : Recorded(p)' = Recorded(p)
    BY <1>15, RecordedElse DEF Finish
  <2>2. UNCHANGED <<stored, main>> /\ Running /\ consumer[l] = "wait"
    BY <1>15 DEF Finish
  <2>3. ~(\A k \in Lines : consumer[k] = "done")
    BY <2>2
  <2>4. CASE \A k \in Lines : consumer'[k] = "done"
    BY <2>1, <2>2, <2>3, <2>4 DEF Ledger!Next, Ledger!Seal, Running
  <2>5. CASE ~(\A k \in Lines : consumer'[k] = "done")
    BY <2>1, <2>2, <2>3, <2>5, LedgerStutter
  <2> QED
    BY <2>4, <2>5
<1>16. ASSUME NEW l \in Lines, PropagateCtx(l)
     PROVE  [Ledger!Next]_(Ledger!vars)
  BY LedgerQuiet, <1>16 DEF PropagateCtx, TypeOK
<1>17. ASSUME StartFlush
     PROVE  [Ledger!Next]_(Ledger!vars)
  <2>1. \A p \in Patterns : Recorded(p)' = Recorded(p)
    BY <1>17, RecordedElse DEF StartFlush
  <2>2. UNCHANGED <<stored, consumer>> /\ Running /\ Running'
    BY <1>17 DEF StartFlush, Running
  <2> QED
    BY <2>1, <2>2 DEF Ledger!vars
<1>18. ASSUME NEW p \in Patterns, FlushOne(p)
     PROVE  [Ledger!Next]_(Ledger!vars)
  <2>1. \A q \in Patterns : Recorded(q)' = Recorded(q)
    BY <1>18, RecordedElse DEF FlushOne
  <2>2. /\ UNCHANGED <<main, consumer>> /\ Running /\ main = "flush" /\ p \in toFlush
        /\ stored' = [stored EXCEPT ![p] = Entry(p)]
    BY <1>18 DEF FlushOne
  <2>3. (\A l \in Lines : consumer[l] = "done") /\ Recorded(p) # {}
    BY <2>2 DEF StoreInv, TypeOK, CoverageExact
  <2>4. Entry(p) = Ledger!Total(p)
    BY EntryIsTotal
  <2> QED
    BY <2>1, <2>2, <2>3, <2>4 DEF Ledger!Next, Ledger!Publish, Running
<1>19. ASSUME FlushFail
     PROVE  [Ledger!Next]_(Ledger!vars)
  <2>1. \A p \in Patterns : Recorded(p)' = Recorded(p)
    BY <1>19, RecordedElse DEF FlushFail
  <2>2. UNCHANGED <<stored, consumer>> /\ Running /\ ~Running'
    BY <1>19 DEF FlushFail, Running
  <2> QED
    BY <2>1, <2>2 DEF Ledger!Next, Ledger!Stop
<1>20. ASSUME FlushDone
     PROVE  [Ledger!Next]_(Ledger!vars)
  <2>1. \A p \in Patterns : Recorded(p)' = Recorded(p)
    BY <1>20, RecordedElse DEF FlushDone
  <2>2. UNCHANGED <<stored, consumer>> /\ Running /\ ~Running'
    BY <1>20 DEF FlushDone, Running
  <2> QED
    BY <2>1, <2>2 DEF Ledger!Next, Ledger!Stop
<1>21. ASSUME NEW kind \in CtxEnds, EndCtx(kind)
     PROVE  [Ledger!Next]_(Ledger!vars)
  BY LedgerQuiet, <1>21 DEF EndCtx, TypeOK
<1>22. ASSUME Crash
     PROVE  [Ledger!Next]_(Ledger!vars)
  <2>1. \A p \in Patterns : Recorded(p)' = Recorded(p)
    BY <1>22, RecordedElse DEF Crash
  <2>2. UNCHANGED <<stored, consumer>> /\ Running /\ ~Running'
    BY <1>22 DEF Crash, Running
  <2> QED
    BY <2>1, <2>2 DEF Ledger!Next, Ledger!Stop
<1>23. CASE UNCHANGED vars
  BY <1>23, LedgerQuiet DEF vars
<1> QED
  BY <1>1, <1>2, <1>3, <1>4, <1>5, <1>6, <1>7, <1>8, <1>9, <1>10, <1>11, <1>12,
     <1>13, <1>14, <1>15, <1>16, <1>17, <1>18, <1>19, <1>20, <1>21, <1>22,
     <1>23 DEF Next, Producer, Consumer, Main, Terminated

(* The threads, the channels and the shared counters implement the ledger:  *)
(* every hit is entered once, before the ledger is sealed, and what is      *)
(* published are the totals of the sealed ledger.  The bound says that the  *)
(* totals fit an int32.                                                    *)
THEOREM Refinement ==
  ASSUME Cardinality(Lines \X Indices) <= MaxInt32
  PROVE  Spec => RefinesLedger
<1>1. Init => Ledger!Init
  <2> SUFFICES ASSUME Init PROVE Ledger!Init
    OBVIOUS
  <2>1. \A p \in Patterns : Recorded(p) = {}
    BY BoundAssumption DEF Init, Recorded, IsRecorded, Indices
  <2>2. ~(\A l \in Lines : consumer[l] = "done") /\ Running
    BY LinesAssumption DEF Init, Running
  <2> QED
    BY <2>1, <2>2 DEF Ledger!Init, Init
<1>2. IInv /\ [Next]_vars => [Ledger!Next]_(Ledger!vars)
  BY LedgerStep DEF IInv
<1> QED
  BY <1>1, <1>2, Invariance, PTL DEF Spec, RefinesLedger, Ledger!Spec

===========================================================================
