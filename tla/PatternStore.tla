---------------------------- MODULE PatternStore ----------------------------
(***************************************************************************)
(* The pattern store from its entities down to the bytes in LevelDB: keys, *)
(* values, prefix scans and what the report makes of them                  *)
(* (storage/keyvalue, storage/leveldb, reporter/coverager.go), over the    *)
(* messages of WireFormat.  It implements EntityStore.                     *)
(*                                                                         *)
(* LevelDB is a function from keys to values; a batch goes in as a whole   *)
(* or fails.  A process may end at any time, and the pool with it.         *)
(* `seen` is a history variable: the messages that db and pool give back.  *)
(***************************************************************************)
EXTENDS WireFormat

CONSTANTS
    Puts,      \* records [kind, pos, msg]: what clients write; the rule has pos Nil
    MaxWrites, \* PoolOptions; 0 takes the default
    MaxSize,
    MaxCalls   \* bound of the model

ASSUME LimitAssumption == MaxWrites \in Nat /\ MaxSize \in Nat /\ MaxCalls \in Nat

VARIABLES
    db,    \* the LevelDB database
    pool,  \* a WritePool over it
    seen,  \* what the scans of db and the batch of the pool decode to
    call,  \* the last call and its result
    calls  \* how many there were

vars == <<db, pool, seen, call, calls>>

Kinds == {"log", "cov", "rule"}

---------------------------------------------------------------------------
(* Keys and values.  The numbers are the bytes of the text next to them.   *)

Prefix(kind) ==
    CASE kind = "log" -> <<108, 111, 103, 58>>        \* log:
      [] kind = "cov" -> <<99, 111, 118, 58>>         \* cov:
      [] kind = "rule" -> <<114, 117, 108, 101, 58>>  \* rule:

(* The rule is stored under "rule:log_pattern".                            *)
RuleKey == Prefix("rule") \o <<108, 111, 103, 95, 112, 97, 116, 116, 101, 114, 110>>

(* Patterns and coverage under one prefix: breaks RefinesEntities.         *)
EncodeKeyShared(kind, pos) ==
    IF pos = Nil THEN Failed ELSE Prefix("log") \o MarshalPosition(pos)

(* EncodeLogKey and EncodeCoverageKey.                                     *)
EncodeKey(kind, pos) ==
    IF pos = Nil THEN Failed ELSE Prefix(kind) \o MarshalPosition(pos)

Key(p) == IF p.kind = "rule" THEN RuleKey ELSE EncodeKey(p.kind, p.pos)

(* The bytes of a message of each kind, in any order of the maps in it.    *)
Values(kind, msg) ==
    CASE kind = "log" -> {MarshalLogPattern(msg)}
      [] kind = "cov" -> {MarshalCoverage(msg, order) : order \in SetToSeqs(DOMAIN msg.covCountByLog)}
      [] kind = "rule" -> {MarshalLogPatternRule(msg)}

Unmarshal(kind, value) ==
    CASE kind = "log" -> UnmarshalLogPattern(value, EmptyLogPattern)
      [] kind = "cov" -> UnmarshalCoverage(value, EmptyCoverage)
      [] kind = "rule" -> UnmarshalLogPatternRule(value, EmptyLogPatternRule)

---------------------------------------------------------------------------
(* Reading.                                                                *)

(* bytes.Compare                                                           *)
Before(a, b) ==
    \/ IsStrictPrefix(a, b)
    \/ \E i \in DOMAIN a \cap DOMAIN b : a[i] < b[i] /\ SubSeq(a, 1, i - 1) = SubSeq(b, 1, i - 1)

(* ScanPrefix seeks the prefix, and Next goes on in the order of the keys  *)
(* up to the first one without it.                                         *)
ScanPrefix(d, prefix) ==
    LET sought == SetToSortSeq({k \in DOMAIN d : ~Before(k, prefix)}, Before)
        end    == SelectInSeq(sought, LAMBDA k : ~IsPrefix(prefix, k))
        keys   == IF end = 0 THEN sought ELSE SubSeq(sought, 1, end - 1)
    IN  [i \in DOMAIN keys |-> d[keys[i]]]

(* The messages that the callback of a scan gets to see.                   *)
Scan(d, kind) ==
    LET values == ScanPrefix(d, Prefix(kind))
    IN  [i \in DOMAIN values |-> Unmarshal(kind, values[i])]

(* PosToStr without the column: breaks ReportAgrees.                       *)
PosToStrLine(pos) ==
    pos.packagePath.repo \o <<58>> \o pos.filePath \o <<58, pos.lineNumber>>

(* PosToStr, the identity of a position in the report and in the matcher;  *)
(* 58 is ":", and a number stands for its digits.                          *)
PosToStr(pos) ==
    pos.packagePath.repo \o <<58>> \o pos.filePath
      \o <<58, pos.lineNumber, 58, pos.columnOffset>>

(* Coverager.load: the first pattern with an identity makes its detail,    *)
(* the last coverage with it is shown there, and one without a detail      *)
(* ends the process.                                                       *)
Detailed(patterns) ==
    FoldLeft(LAMBDA d, m : d @@ (PosToStr(m.pos) :> [pattern |-> m, coverage |-> Nil]),
             <<>>, patterns)

Cover(details, m) ==
    [path \in DOMAIN details |->
        IF path = PosToStr(m.pos) THEN [details[path] EXCEPT !.coverage = m] ELSE details[path]]

Report(details, coverage) ==
    [total   |-> Cardinality(DOMAIN details),
     cov     |-> Len(coverage),
     fatal   |-> \E m \in ToSet(coverage) : PosToStr(m.pos) \notin DOMAIN details,
     details |-> FoldLeft(Cover, details, coverage)]

LoadReport == Report(Detailed(Scan(db, "log")), Scan(db, "cov"))

---------------------------------------------------------------------------
(* Writing.                                                                *)

NewPool == [wr |-> Nil, writes |-> 0, size |-> 0]

maxWrites == IF MaxWrites <= 0 THEN 32000 ELSE MaxWrites
maxSize == IF MaxSize <= 0 THEN 32 * 1024 * 1024 ELSE MaxSize

NoPut == [kind |-> "none"]

Called(op, put, ok) ==
    /\ calls < MaxCalls
    /\ calls' = calls + 1
    /\ call' = [op |-> op, put |-> put, ok |-> ok]

(* What a scan of one kind reads, by position; Failed if a value does not  *)
(* decode or a position comes twice.                                       *)
PosOf(kind, msg) == IF kind = "rule" THEN Nil ELSE msg.pos

ByPosition(kind, msgs) ==
    IF Failed \in ToSet(msgs) \/ Cardinality({PosOf(kind, m) : m \in ToSet(msgs)}) # Len(msgs)
    THEN Failed
    ELSE FoldLeft(LAMBDA e, m : (PosOf(kind, m) :> m) @@ e, <<>>, msgs)

(* The put that an entry of the batch came from.                           *)
PutOf(kind, msg) ==
    [kind |-> kind, msg |-> msg, pos |-> IF msg = Failed THEN Failed ELSE PosOf(kind, msg)]

Decoded(batch) ==
    [i \in DOMAIN batch |->
        LET kind == CHOOSE k \in Kinds : IsPrefix(Prefix(k), batch[i].key)
        IN  PutOf(kind, Unmarshal(kind, batch[i].value))]

(* The step to database d and pool p.                                      *)
Becomes(d, p) ==
    /\ db' = d
    /\ pool' = p
    /\ seen' = [entities |-> [k \in Kinds |-> ByPosition(k, Scan(d, k))],
                staged |-> IF p.wr = Nil THEN <<>> ELSE Decoded(p.wr)]

(* The database after a batch, whose entries count in their order.         *)
Applied(batch) == FoldLeft(LAMBDA d, kv : (kv.key :> kv.value) @@ d, db, batch)

Init ==
    /\ db = <<>>
    /\ pool = NewPool
    /\ seen = [entities |-> [k \in Kinds |-> <<>>], staged |-> <<>>]
    /\ call = [op |-> "open", put |-> NoPut, ok |-> TRUE]
    /\ calls = 0

(* Store.WriteLogPattern, WriteLogCoverage, WriteLogPatternRule: a batch   *)
(* of one.                                                                 *)
Write(p, value) ==
    /\ Called("write", p, TRUE)
    /\ Key(p) # Failed
    /\ Becomes(Applied(<<[key |-> Key(p), value |-> value]>>), pool)

(* The key cannot be encoded, or closing the writer fails.                 *)
WriteFails(p) ==
    /\ Called("write", p, FALSE)
    /\ UNCHANGED <<db, pool, seen>>

(* WritePool.Write up to the question whether the pool is full.            *)
Buffered(p, value) ==
    [wr     |-> Append(IF pool.wr = Nil THEN <<>> ELSE pool.wr, [key |-> Key(p), value |-> value]),
     writes |-> pool.writes + 1,
     size   |-> pool.size + Len(Key(p)) + Len(value)]

(* Full only with one write more than allowed: breaks TypeOK.              *)
FullLate(buffered) == maxWrites < buffered.writes \/ maxSize < buffered.size

Full(buffered) == maxWrites <= buffered.writes \/ maxSize <= buffered.size

PoolWrite(p, value) ==
    /\ Called("stage", p, TRUE)
    /\ Key(p) # Failed /\ ~Full(Buffered(p, value))
    /\ Becomes(db, Buffered(p, value))

PoolWriteFlush(p, value) ==
    /\ Called("stage", p, TRUE)
    /\ Key(p) # Failed /\ Full(Buffered(p, value))
    /\ Becomes(Applied(Buffered(p, value).wr), NewPool)

(* Flush forgets the writer also when closing it failed.                   *)
PoolWriteFails(p, value) ==
    /\ Called("stage", p, FALSE)
    /\ Key(p) # Failed /\ Full(Buffered(p, value))
    /\ Becomes(db, NewPool)

PoolFlush ==
    /\ Called("flush", NoPut, TRUE)
    /\ Becomes(IF pool.wr = Nil THEN db ELSE Applied(pool.wr), NewPool)

PoolFlushFails ==
    /\ Called("flush", NoPut, FALSE)
    /\ pool.wr # Nil
    /\ Becomes(db, NewPool)

(* The process ends without a Flush, and another one opens the database.   *)
Reopen ==
    /\ Called("open", NoPut, TRUE)
    /\ call.op # "open"
    /\ Becomes(db, NewPool)

Done == calls = MaxCalls /\ UNCHANGED vars

Next ==
    \/ \E p \in Puts :
         \/ WriteFails(p)
         \/ \E value \in Values(p.kind, p.msg) :
              \/ Write(p, value)
              \/ PoolWrite(p, value)
              \/ PoolWriteFlush(p, value)
              \/ PoolWriteFails(p, value)
    \/ PoolFlush
    \/ PoolFlushFails
    \/ Reopen
    \/ Done

Spec == Init /\ [][Next]_vars

---------------------------------------------------------------------------
(* Properties.                                                             *)

(* Keys and values are bytes, and the pool's counters agree with what it   *)
(* keeps back: less than either limit.                                     *)
TypeOK ==
    /\ \A k \in DOMAIN db : ToSet(k) \cup ToSet(db[k]) \subseteq 0 .. 255
    /\ pool = NewPool \/
         /\ pool.writes = Len(pool.wr) /\ pool.writes \in 1 .. maxWrites - 1
         /\ pool.size < maxSize
         /\ pool.size = FoldLeft(LAMBDA n, kv : n + Len(kv.key) + Len(kv.value), 0, pool.wr)
    /\ calls \in 0 .. MaxCalls

Abstract == INSTANCE EntityStore WITH
    entities <- seen.entities, staged <- seen.staged

(* Reading back gives the messages entered last, each under its own kind   *)
(* and position: no two positions share a key, no scan runs into another   *)
(* kind, and no value changes on its way through the bytes (keyvalue.go:   *)
(* 171-224).  A full or flushed pool enters all of its writes in their     *)
(* order, or none and says so (keyvalue.go:135-168).                       *)
RefinesEntities == [][Abstract!Next]_(Abstract!vars)

(* A report of these patterns and this coverage.                           *)
Agrees(report, log, cov) ==
    /\ report.total = Cardinality(DOMAIN log)
    /\ report.cov = Cardinality(DOMAIN cov)
    /\ report.fatal <=> ~(DOMAIN cov \subseteq DOMAIN log)
    /\ \A d \in {report.details[path] : path \in DOMAIN report.details} :
         /\ d.pattern = log[d.pattern.pos]
         /\ d.coverage = IF d.pattern.pos \in DOMAIN cov THEN cov[d.pattern.pos] ELSE Nil

(* The report knows positions by PosToStr, the store by their bytes: they  *)
(* must tell the same positions apart, or a pattern is left out, or        *)
(* coverage shown at another one (coverager.go:63, 84).                    *)
ReportAgrees ==
    LET log == seen.entities["log"] cov == seen.entities["cov"]
    IN  Failed \notin {log, cov} => Agrees(LoadReport, log, cov)

(* No field is half read: a value cut off anywhere is an error, or the     *)
(* message of the fields that are complete (pb.go, every "postIndex > l"   *)
(* and "iNdEx >= l").  Looked at in a database of one entry: what a value is   *)
(* read as does not depend on the others.                                  *)
CutNoticed ==
    call.op = "write" /\ call.ok /\ DOMAIN db = {Key(call.put)} =>
        LET value == db[Key(call.put)]
        IN  \A n \in 0 .. Len(value) - 1 :
              LET cut == SubSeq(value, 1, n)
                  msg == Unmarshal(call.put.kind, cut)
              IN  msg = Failed \/ cut \in Values(call.put.kind, msg)
=============================================================================
