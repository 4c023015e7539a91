----------------------------- MODULE WireFormat -----------------------------
(***************************************************************************)
(* The bytes of the messages in the store: Size, Marshal and Unmarshal as  *)
(* proto/logpattern.pb.go has them, one operator per message.              *)
(*                                                                         *)
(* A byte is a number, a string a sequence of bytes.  A message is a       *)
(* record; Nil is a missing sub-message.  A nil slice or map is the empty  *)
(* one.  Failed stands for an error of any kind.                            *)
(***************************************************************************)
EXTENDS Integers, Sequences, FiniteSets, SequencesExt, FiniteSetsExt, TLC

CONSTANTS Nil, Failed

ASSUME NilAssumption == Nil # Failed

---------------------------------------------------------------------------
(* The messages, as `new` makes them.                                      *)

EmptyPackagePath == [repo |-> <<>>, path |-> <<>>]
EmptyPosition == [packagePath |-> Nil, filePath |-> <<>>, lineNumber |-> 0, columnOffset |-> 0]
EmptyFuncInfo == [name |-> <<>>, pos |-> Nil, code |-> <<>>]
EmptyLogPattern == [pos |-> Nil, func |-> Nil, level |-> <<>>, signature |-> <<>>]
EmptyCoverage == [pos |-> Nil, covCount |-> 0, covCountByLog |-> <<>>]
EmptyLogPatternRule == [logLevel |-> <<>>, logSignatures |-> <<>>]

---------------------------------------------------------------------------
(* Varints.  An int32 is widened to 64 bits with its sign, and written in  *)
(* ten groups of seven bits, the lowest first and without the zeros at the *)
(* end.                                                                    *)

Group(n, k) ==
    IF k < 5 THEN (n \div 128 ^ k) % 128
    ELSE IF n >= 0 THEN 0 ELSE IF k = 9 THEN 1 ELSE 127

(* sovLogpattern: how many bytes encodeVarintLogpattern makes room for.    *)
Sov(n) == IF n < 0 THEN 10 ELSE 1 + Cardinality({k \in 1 .. 4 : n >= 128 ^ k})

(* Every byte but the last one carries the bit 128.                        *)
Varint(n) ==
    LET last == Max({0} \cup {k \in 1 .. 9 : Group(n, k) # 0})
    IN  [i \in 1 .. Sov(n) |-> Group(n, i - 1) + (IF i - 1 < last THEN 128 ELSE 0)]

(* The wire types in use, and the tag of a field.                          *)
VarintType == 0
BytesType == 2
Tag(num, wire) == <<num * 8 + wire>>

---------------------------------------------------------------------------
(* Size.                                                                   *)

SizeBytes(l) == 1 + l + Sov(l)
SizeString(s) == IF s = <<>> THEN 0 ELSE SizeBytes(Len(s))
SizeInt32(n) == IF n = 0 THEN 0 ELSE 1 + Sov(n)
SizeStrings(ss) == FoldLeft(LAMBDA sum, s : sum + SizeBytes(Len(s)), 0, ss)
SizeMessage(m, Size(_)) == IF m = Nil THEN 0 ELSE SizeBytes(Size(m))

SizePackagePath(m) == SizeString(m.repo) + SizeString(m.path)

SizePosition(m) ==
    SizeMessage(m.packagePath, SizePackagePath) + SizeString(m.filePath)
      + SizeInt32(m.lineNumber) + SizeInt32(m.columnOffset)

SizeFuncInfo(m) ==
    SizeString(m.name) + SizeMessage(m.pos, SizePosition) + SizeString(m.code)

SizeLogPattern(m) ==
    SizeMessage(m.pos, SizePosition) + SizeMessage(m.func, SizeFuncInfo)
      + SizeString(m.level) + SizeStrings(m.signature)

SizeCoverage(m) ==
    SizeMessage(m.pos, SizePosition) + SizeInt32(m.covCount)
      + MapThenSumSet(LAMBDA k : SizeBytes(SizeBytes(Len(k)) + 1 + Sov(m.covCountByLog[k])),
                      DOMAIN m.covCountByLog)

SizeLogPatternRule(m) == SizeStrings(m.logLevel) + SizeStrings(m.logSignatures)

---------------------------------------------------------------------------
(* MarshalToSizedBuffer: what is written, from the end of the buffer on.   *)

PutBytes(num, s) == Tag(num, BytesType) \o Varint(Len(s)) \o s
PutString(num, s) == IF s = <<>> THEN <<>> ELSE PutBytes(num, s)
PutInt32(num, n) == IF n = 0 THEN <<>> ELSE Tag(num, VarintType) \o Varint(n)
PutStrings(num, ss) == FoldLeft(LAMBDA done, s : done \o PutBytes(num, s), <<>>, ss)
PutMessage(num, m, Bytes(_)) == IF m = Nil THEN <<>> ELSE PutBytes(num, Bytes(m))

BytesPackagePath(m) == PutString(1, m.repo) \o PutString(2, m.path)

BytesPosition(m) ==
    PutMessage(1, m.packagePath, BytesPackagePath) \o PutString(2, m.filePath)
      \o PutInt32(3, m.lineNumber) \o PutInt32(4, m.columnOffset)

BytesFuncInfo(m) ==
    PutString(1, m.name) \o PutMessage(2, m.pos, BytesPosition) \o PutString(3, m.code)

BytesLogPattern(m) ==
    PutMessage(1, m.pos, BytesPosition) \o PutMessage(2, m.func, BytesFuncInfo)
      \o PutString(3, m.level) \o PutStrings(4, m.signature)

(* The entries of a map come in any order.  An entry has both its fields,  *)
(* zero or not.                                                            *)
BytesCoverage(m, order) ==
    PutMessage(1, m.pos, BytesPosition) \o PutInt32(2, m.covCount)
      \o PutStrings(3, [i \in DOMAIN order |->
             PutBytes(1, order[i]) \o Tag(2, VarintType) \o Varint(m.covCountByLog[order[i]])])

BytesLogPatternRule(m) == PutStrings(1, m.logLevel) \o PutStrings(2, m.logSignatures)

(* Marshal makes a buffer of the given size, fills it from its end on and  *)
(* returns its first Len(bytes) bytes; a buffer too small is a panic, here *)
(* no bytes at all.                                                        *)
InBuffer(size, bytes) ==
    IF Len(bytes) > size THEN <<>>
    ELSE SubSeq([i \in 1 .. size - Len(bytes) |-> 0] \o bytes, 1, Len(bytes))

MarshalPosition(m) == InBuffer(SizePosition(m), BytesPosition(m))
MarshalLogPattern(m) == InBuffer(SizeLogPattern(m), BytesLogPattern(m))
MarshalLogPatternRule(m) == InBuffer(SizeLogPatternRule(m), BytesLogPatternRule(m))
MarshalCoverage(m, order) == InBuffer(SizeCoverage(m), BytesCoverage(m, order))

---------------------------------------------------------------------------
(* Reading.  An index counts the bytes read so far.                        *)

(* How long the varint at i is: at most ten bytes.  0 if there is none.    *)
VarintLen(b, i) ==
    LET ends == {k \in 1 .. 10 : i + k <= Len(b) /\ b[i + k] < 128}
    IN  IF ends = {} THEN 0 ELSE Min(ends)

Groups(b, i) ==
    LET n == VarintLen(b, i) IN [k \in 0 .. 9 |-> IF k < n THEN b[i + k + 1] % 128 ELSE 0]

(* The low 32 bits of a varint, as an int32.                               *)
Int32(g) ==
    LET high == g[4] % 16
    IN  g[0] + g[1] * 2 ^ 7 + g[2] * 2 ^ 14 + g[3] * 2 ^ 21
          + (IF high < 8 THEN high ELSE high - 16) * 2 ^ 28

(* A length as an int.  A negative one and one past every end of a buffer  *)
(* are both an error.                                                      *)
TooLong == 2 ^ 28
Length(g) ==
    IF g[9] % 2 = 1 \/ \E k \in 4 .. 8 : g[k] # 0 THEN TooLong
    ELSE g[0] + g[1] * 2 ^ 7 + g[2] * 2 ^ 14 + g[3] * 2 ^ 21

(* int32(wire >> 3)                                                        *)
FieldNum(g) ==
    g[0] \div 8 + g[1] * 2 ^ 4 + g[2] * 2 ^ 11 + g[3] * 2 ^ 18
      + (IF g[4] < 64 THEN g[4] ELSE g[4] - 128) * 2 ^ 25

(* The end of a value that begins at i; of a group, the end of its tag.    *)
ValueEnd(b, i, wire) ==
    CASE wire = 0 -> i + VarintLen(b, i)
      [] wire = 1 -> i + 8
      [] wire = 2 -> i + VarintLen(b, i) + Length(Groups(b, i))
      [] wire = 5 -> i + 4
      [] OTHER -> i

(* skipLogpattern: the index after the field at i, its nested groups       *)
(* included, or Failed.  It may lie past the end.                          *)
RECURSIVE Skip(_, _, _)
Skip(b, i, depth) ==
    LET t    == VarintLen(b, i)
        wire == b[i + 1] % 8
        next == CASE wire = 3 -> depth + 1 [] wire = 4 -> depth - 1 [] OTHER -> depth
    IN  IF \/ i >= Len(b) \/ t = 0 \/ wire > 5 \/ next < 0
           \/ wire \in {0, 2} /\ VarintLen(b, i + t) = 0
        THEN Failed
        ELSE IF next = 0 THEN ValueEnd(b, i + t, wire)
        ELSE Skip(b, ValueEnd(b, i + t, wire), next)

(* A field as the loop of every Unmarshal reads it: its number, its value  *)
(* and where that lies.  Bad is the field that made Unmarshal return.      *)
Bad == [num |-> 0, value |-> 0, from |-> TooLong, to |-> TooLong]

VarintField(num, g, to) == [num |-> num, value |-> Int32(g), from |-> to, to |-> to]

BytesField(b, num, from, length) ==
    IF from + length > Len(b) THEN Bad
    ELSE [num |-> num, value |-> SubSeq(b, from + 1, from + length),
          from |-> from, to |-> from + length]

(* Unmarshal goes on after an unknown field.                               *)
UnknownField(b, num, to) ==
    IF to = Failed \/ to > Len(b) THEN Bad ELSE [num |-> num, value |-> 0, from |-> to, to |-> to]

(* The field at i; `wires` has the wire types of the known ones.           *)
FieldAt(b, i, wires) ==
    LET start == i + VarintLen(b, i)
        num   == FieldNum(Groups(b, i))
        wire  == b[i + 1] % 8
        end   == start + VarintLen(b, start)
    IN  IF start = i \/ wire = 4 \/ num <= 0 THEN Bad
        ELSE IF num \notin DOMAIN wires THEN UnknownField(b, num, Skip(b, i, 0))
        ELSE IF wire # wires[num] \/ end = start THEN Bad
        ELSE IF wire = VarintType THEN VarintField(num, Groups(b, start), end)
        ELSE BytesField(b, num, end, Length(Groups(b, start)))

(* The loop: the fields read so far, and those from i on.  After Bad there *)
(* are none.                                                               *)
RECURSIVE Fields(_, _, _)
Fields(b, wires, done) ==
    LET i == IF done = <<>> THEN 0 ELSE Last(done).to
    IN  IF i >= Len(b) THEN done
        ELSE Fields(b, wires, Append(done, FieldAt(b, i, wires)))

(* The loop's own errors are forgotten: breaks CutNoticed.                 *)
WholeLenient(fields, m) ==
    IF \E name \in DOMAIN m : m[name] = Failed THEN Failed ELSE m

(* What Unmarshal returns, m being the message it has read the fields into. *)
Whole(fields, m) ==
    IF \/ \E i \in DOMAIN fields : fields[i].num = Bad.num
       \/ \E name \in DOMAIN m : m[name] = Failed
    THEN Failed ELSE m

(* Store every field in message m with Put.                                *)
Store(fields, m, Put(_, _)) == Whole(fields, FoldLeft(Put, m, fields))

Decode(b, m, wires, Put(_, _)) == Store(Fields(b, wires, <<>>), m, Put)

(* A sub-message that comes twice is read into the same one.               *)
Merge(old, empty, b, Unmarshal(_, _)) ==
    IF old = Failed THEN Failed ELSE Unmarshal(b, IF old = Nil THEN empty ELSE old)

---------------------------------------------------------------------------
(* Unmarshal.                                                              *)

UnmarshalPackagePath(b, new) ==
    Decode(b, new, <<BytesType, BytesType>>, LAMBDA m, f :
        CASE f.num = 1 -> [m EXCEPT !.repo = f.value]
          [] f.num = 2 -> [m EXCEPT !.path = f.value]
          [] OTHER -> m)

UnmarshalPosition(b, new) ==
    Decode(b, new, <<BytesType, BytesType, VarintType, VarintType>>, LAMBDA m, f :
        CASE f.num = 1 -> [m EXCEPT !.packagePath =
                              Merge(@, EmptyPackagePath, f.value, UnmarshalPackagePath)]
          [] f.num = 2 -> [m EXCEPT !.filePath = f.value]
          [] f.num = 3 -> [m EXCEPT !.lineNumber = f.value]
          [] f.num = 4 -> [m EXCEPT !.columnOffset = f.value]
          [] OTHER -> m)

UnmarshalFuncInfo(b, new) ==
    Decode(b, new, <<BytesType, BytesType, BytesType>>, LAMBDA m, f :
        CASE f.num = 1 -> [m EXCEPT !.name = f.value]
          [] f.num = 2 -> [m EXCEPT !.pos = Merge(@, EmptyPosition, f.value, UnmarshalPosition)]
          [] f.num = 3 -> [m EXCEPT !.code = f.value]
          [] OTHER -> m)

UnmarshalLogPattern(b, new) ==
    Decode(b, new, <<BytesType, BytesType, BytesType, BytesType>>, LAMBDA m, f :
        CASE f.num = 1 -> [m EXCEPT !.pos = Merge(@, EmptyPosition, f.value, UnmarshalPosition)]
          [] f.num = 2 -> [m EXCEPT !.func = Merge(@, EmptyFuncInfo, f.value, UnmarshalFuncInfo)]
          [] f.num = 3 -> [m EXCEPT !.level = f.value]
          [] f.num = 4 -> [m EXCEPT !.signature = Append(@, f.value)]
          [] OTHER -> m)

(* The entry of a map between i and `to`.  Its wire types are not looked   *)
(* at, and only the end of b limits its key.  Marshal writes one value, so *)
(* that `mapvalue |=` of a second one does not occur.                      *)
RECURSIVE MapEntry(_, _, _, _)
MapEntry(b, i, to, entry) ==
    LET start == i + VarintLen(b, i)
        num   == FieldNum(Groups(b, i))
        end   == start + VarintLen(b, start)
        key   == BytesField(b, num, end, Length(Groups(b, start)))
        skip  == Skip(b, i, 0)
    IN  IF i >= to THEN entry
        ELSE IF start = i \/ (num \in {1, 2} /\ end = start) THEN Failed
        ELSE IF num = 1
             THEN IF key.num = Bad.num THEN Failed
                  ELSE MapEntry(b, key.to, to, [entry EXCEPT !.key = key.value])
        ELSE IF num = 2 THEN MapEntry(b, end, to, [entry EXCEPT !.value = Int32(Groups(b, start))])
        ELSE IF skip = Failed \/ skip > to THEN Failed
        ELSE MapEntry(b, skip, to, entry)

UnmarshalCoverage(b, new) ==
    Decode(b, new, <<BytesType, VarintType, BytesType>>, LAMBDA m, f :
        CASE f.num = 1 -> [m EXCEPT !.pos = Merge(@, EmptyPosition, f.value, UnmarshalPosition)]
          [] f.num = 2 -> [m EXCEPT !.covCount = f.value]
          [] f.num = 3 ->
               LET entry == MapEntry(b, f.from, f.to, [key |-> <<>>, value |-> 0])
               IN  [m EXCEPT !.covCountByLog =
                       IF @ = Failed \/ entry = Failed THEN Failed
                       ELSE (entry.key :> entry.value) @@ @]
          [] OTHER -> m)

UnmarshalLogPatternRule(b, new) ==
    Decode(b, new, <<BytesType, BytesType>>, LAMBDA m, f :
        CASE f.num = 1 -> [m EXCEPT !.logLevel = Append(@, f.value)]
          [] f.num = 2 -> [m EXCEPT !.logSignatures = Append(@, f.value)]
          [] OTHER -> m)
=============================================================================
