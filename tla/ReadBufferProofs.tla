-------------------------- MODULE ReadBufferProofs --------------------------
(***************************************************************************)
(* ReadBuffer, for a buffer of any size and lines of any number and        *)
(* length.  The argument follows the places in the file: where each line   *)
(* begins (Where), and where the unread part of the buffer does (Place).   *)
(* Once the buffer has moved under a slice, append may write over unread   *)
(* bytes, but never a newline: the lines that are still counted are lines  *)
(* of the file even then.                                                  *)
(***************************************************************************)
EXTENDS ReadBuffer, SequenceLemmas

---------------------------------------------------------------------------
(* The inductive invariant.                                                *)

Byte == Nat \X Nat

(* The first i lines with their newlines, and how many bytes they have.    *)
Before(i) == FlattenSeq([k \in 1 .. i |-> Append(Line(k), Newline(k))])
Pos(i) == Len(Before(i))

(* Where the file goes on after i lines.                                   *)
Where(i) == IF i = Len(lengths) THEN Len(Data) ELSE Pos(i)

(* Where in the file the unread part of the buffer begins.                 *)
Place == offset - (end - start)

(* Lines f .. l, one after the other.                                      *)
Gathered(f, l) == FlattenSeq([i \in 1 .. l - f + 1 |-> Line(f + i - 1)])

Slice == [shared : BOOLEAN, from : Nat, len : Nat, bytes : Seq(Byte)]

FileType == lengths \in Seq(Nat) /\ finalNL \in BOOLEAN

Types ==
    /\ FileType
    /\ offset \in 0 .. Len(Data)
    /\ buf \in Seq(Byte) /\ Len(buf) = Size
    /\ start \in Nat /\ end \in Nat /\ start <= end /\ end <= Size
    /\ sawEOF \in BOOLEAN /\ shifted \in BOOLEAN
    /\ pc \in {"call", "fetch", "parse", "eof", "toolong"}
    /\ lines \in 0 .. Len(lengths) /\ first \in 1 .. lines + 1
    /\ content \in Slice
    /\ content.shared => content.from + content.len <= Size

(* The lines returned end before the unread part, and a newline in it is   *)
(* one of the file at its own place.                                       *)
Counted ==
    /\ 0 <= Place /\ Where(lines) <= Place
    /\ sawEOF => offset = Len(Data)
    /\ \A k \in 1 .. end - start : buf[start + k][2] = 0 => Data[Place + k][2] = 0

(* Until a shift, the unread part is what the file has after the lines     *)
(* returned.                                                               *)
Exact ==
    ~shifted =>
      /\ Place = Where(lines)
      /\ \A k \in 1 .. end - start : buf[start + k] = Data[Place + k]

(* Until a shift, the content lies before the unread part.                 *)
Kept ==
    /\ pc = "call" => content = NoContent /\ first = lines + 1
    /\ ~shifted /\ content.shared => content.from + content.len <= start
    /\ ~shifted => Bytes(content) = Gathered(first, lines)

IInv == Types /\ Counted /\ Exact /\ Kept

---------------------------------------------------------------------------
(* The bytes of the file.                                                  *)

LEMMA LineType ==
  ASSUME FileType, NEW i \in 1 .. Len(lengths)
  PROVE  /\ lengths[i] \in Nat /\ i \in Nat
         /\ Line(i) \in Seq(Byte) /\ Len(Line(i)) = lengths[i]
         /\ \A j \in 1 .. lengths[i] : Line(i)[j] = <<i, j>>
         /\ Newline(i) = <<i, 0>> /\ Newline(i) \in Byte
<1>1. lengths[i] \in Nat /\ i \in Nat
  BY DEF FileType
<1>2. \A j \in 1 .. lengths[i] : <<i, j>> \in Byte
  BY <1>1 DEF Byte
<1>3. Line(i) \in [1 .. lengths[i] -> Byte]
  BY <1>2 DEF Line
<1>4. Line(i) \in Seq(Byte) /\ Len(Line(i)) = lengths[i]
  BY <1>1, <1>3
<1> QED
  BY <1>1, <1>4 DEF Line, Newline, Byte

LEMMA FullLine ==
  ASSUME FileType, NEW i \in 1 .. Len(lengths)
  PROVE  LET full == Append(Line(i), Newline(i))
         IN  /\ full \in Seq(Byte) /\ Len(full) = lengths[i] + 1
             /\ \A j \in 1 .. lengths[i] + 1 :
                  full[j] = IF j = lengths[i] + 1 THEN <<i, 0>> ELSE <<i, j>>
<1> DEFINE full == Append(Line(i), Newline(i))
<1>1. /\ Line(i) \in Seq(Byte) /\ Newline(i) \in Byte
      /\ Len(Line(i)) = lengths[i] /\ lengths[i] \in Nat
  BY LineType
<1>2. full \in Seq(Byte) /\ Len(full) = lengths[i] + 1
  BY <1>1
<1>3. \A j \in 1 .. lengths[i] + 1 :
        full[j] = IF j = lengths[i] + 1 THEN Newline(i) ELSE Line(i)[j]
  BY <1>1
<1>4. \A j \in 1 .. lengths[i] + 1 : j # lengths[i] + 1 => j \in 1 .. lengths[i]
  BY <1>1
<1> QED
  BY <1>2, <1>3, <1>4, LineType

LEMMA BeforeNone == Before(0) = <<>> /\ Pos(0) = 0
<1>1. [k \in 1 .. 0 |-> Append(Line(k), Newline(k))] = <<>>
  OBVIOUS
<1>2. Before(0) = <<>>
  BY <1>1, FlattenNone, Zenon DEF Before
<1> QED
  BY <1>2 DEF Pos

LEMMA BeforeMore ==
  ASSUME FileType, NEW i \in Nat, i + 1 <= Len(lengths)
  PROVE  Before(i + 1) = Before(i) \o Append(Line(i + 1), Newline(i + 1))
<1> DEFINE s == [k \in 1 .. i |-> Append(Line(k), Newline(k))]
           t == [k \in 1 .. i + 1 |-> Append(Line(k), Newline(k))]
<1>1. Len(s) = i /\ Len(t) = i + 1 /\ Agree(s, t, i)
  BY DEF Agree
<1>2. FlattenSeq(t) = IF i = 0 THEN t[1] ELSE FlattenSeq(s) \o t[i + 1]
  <2> HIDE DEF s, t
  <2> QED
    BY <1>1, FlattenMore
<1>3. t[i + 1] = Append(Line(i + 1), Newline(i + 1))
  OBVIOUS
<1>4. Before(i + 1) = FlattenSeq(t) /\ Before(i) = FlattenSeq(s)
  BY DEF Before
<1>5. CASE i = 0
  <2>1. i + 1 \in 1 .. Len(lengths)
    BY DEF FileType
  <2>2. t[i + 1] \in Seq(Byte)
    BY <1>3, <2>1, FullLine
  <2>3. Before(i) = <<>>
    BY <1>5, BeforeNone
  <2>4. Before(i + 1) = t[i + 1]
    BY <1>2, <1>4, <1>5
  <2> HIDE DEF s, t
  <2>5. <<>> \o t[i + 1] = t[i + 1]
    BY <2>2
  <2> QED
    BY <1>3, <2>3, <2>4, <2>5
<1>6. CASE i # 0
  <2> HIDE DEF s, t
  <2> QED
    BY <1>2, <1>3, <1>4, <1>6
<1> QED
  BY <1>5, <1>6

LEMMA BeforeType ==
  ASSUME FileType, NEW i \in 0 .. Len(lengths)
  PROVE  Before(i) \in Seq(Byte) /\ Pos(i) \in Nat
<1> DEFINE S == {m \in Nat : m <= Len(lengths) => Before(m) \in Seq(Byte)}
<1>1. 0 \in S
  <2>1. Before(0) \in Seq(Byte)
    <3>1. <<>> \in Seq(Byte)
      OBVIOUS
    <3> QED
      BY <3>1, BeforeNone, Zenon
  <2> QED
    BY <2>1
<1>2. ASSUME NEW m \in Nat, m \in S PROVE m + 1 \in S
  <2> SUFFICES ASSUME m + 1 <= Len(lengths) PROVE Before(m + 1) \in Seq(Byte)
    OBVIOUS
  <2>1. m + 1 \in 1 .. Len(lengths) /\ Before(m) \in Seq(Byte)
    BY <1>2 DEF FileType
  <2>2. Append(Line(m + 1), Newline(m + 1)) \in Seq(Byte)
    BY <2>1, FullLine
  <2>3. Before(m + 1) = Before(m) \o Append(Line(m + 1), Newline(m + 1))
    BY BeforeMore
  <2>4. Before(m) \o Append(Line(m + 1), Newline(m + 1)) \in Seq(Byte)
    BY <2>1, <2>2, Concat, Zenon
  <2> QED
    BY <2>3, <2>4, Zenon
<1> HIDE DEF S
<1>3. Nat \subseteq S
  BY <1>1, <1>2, Induction
<1>4. Before(i) \in Seq(Byte)
  BY <1>3 DEF S
<1> QED
  BY <1>4 DEF Pos

LEMMA PosMore ==
  ASSUME FileType, NEW i \in 1 .. Len(lengths)
  PROVE  Pos(i) = Pos(i - 1) + lengths[i] + 1
<1>1. PICK m \in Nat : m = i - 1 /\ m + 1 = i /\ m \in 0 .. Len(lengths)
  BY DEF FileType
<1>2. Before(i) = Before(m) \o Append(Line(i), Newline(i))
  <2>1. m + 1 <= Len(lengths)
    BY <1>1
  <2>2. Before(m + 1) = Before(m) \o Append(Line(m + 1), Newline(m + 1))
    BY <2>1, BeforeMore
  <2> QED
    BY <1>1, <2>2, Zenon
<1>3. Before(m) \in Seq(Byte)
  BY <1>1, BeforeType
<1>4. /\ Append(Line(i), Newline(i)) \in Seq(Byte)
      /\ Len(Append(Line(i), Newline(i))) = lengths[i] + 1
  BY FullLine
<1>5. lengths[i] \in Nat
  BY LineType
<1>6. Len(Before(i)) = Len(Before(m)) + (lengths[i] + 1)
  <2>1. Len(Before(m) \o Append(Line(i), Newline(i))) =
          Len(Before(m)) + Len(Append(Line(i), Newline(i)))
    BY <1>3, <1>4, Concat, Zenon
  <2> QED
    BY <1>2, <1>4, <2>1, Zenon
<1> QED
  BY <1>1, <1>3, <1>5, <1>6 DEF Pos

(* Later lines begin later.                                                *)
LEMMA PosOrder ==
  ASSUME FileType, NEW i \in 0 .. Len(lengths), NEW j \in 0 .. Len(lengths), i <= j
  PROVE  Pos(i) <= Pos(j)
<1> DEFINE S == {m \in Nat : i <= m /\ m <= Len(lengths) => Pos(i) <= Pos(m)}
<1>1. 0 \in S
  <2>1. i <= 0 => i = 0
    BY DEF FileType
  <2> QED
    BY <2>1, BeforeNone
<1>2. ASSUME NEW m \in Nat, m \in S PROVE m + 1 \in S
  <2> SUFFICES ASSUME i <= m + 1, m + 1 <= Len(lengths) PROVE Pos(i) <= Pos(m + 1)
    OBVIOUS
  <2>1. m + 1 \in 1 .. Len(lengths) /\ m \in 0 .. Len(lengths) /\ (m + 1) - 1 = m
    BY DEF FileType
  <2>2. Pos(m + 1) = Pos(m) + lengths[m + 1] + 1
    BY <2>1, PosMore
  <2>3. lengths[m + 1] \in Nat /\ Pos(m) \in Nat /\ Pos(m + 1) \in Nat /\ Pos(i) \in Nat
    <3>1. lengths[m + 1] \in Nat
      BY <2>1, LineType, Zenon
    <3>2. m + 1 \in 0 .. Len(lengths)
      BY <2>1 DEF FileType
    <3> QED
      BY <2>1, <3>1, <3>2, BeforeType, Zenon
  <2>4. CASE i = m + 1
    BY <2>3, <2>4
  <2>5. CASE i <= m
    <3>1. Pos(i) <= Pos(m)
      BY <1>2, <2>1, <2>5
    <3> QED
      BY <2>2, <2>3, <3>1
  <2> QED
    BY <2>4, <2>5 DEF FileType
<1> HIDE DEF S
<1>3. Nat \subseteq S
  BY <1>1, <1>2, Induction
<1>4. j \in S
  BY <1>3 DEF FileType
<1> QED
  BY <1>4 DEF S, FileType

(* Byte j of line i, the newline being one more than the line is long.     *)
ByteOf(i, j) == IF j = lengths[i] + 1 THEN <<i, 0>> ELSE <<i, j>>

LEMMA BeforeBytes ==
  ASSUME FileType, NEW m \in 0 .. Len(lengths),
         NEW i \in 1 .. m, NEW j \in 1 .. lengths[i] + 1
  PROVE  /\ Pos(i - 1) + j \in 1 .. Pos(m)
         /\ Before(m)[Pos(i - 1) + j] = ByteOf(i, j)
<1> DEFINE S == {l \in Nat : i <= l /\ l <= Len(lengths) =>
                    /\ Pos(i - 1) + j \in 1 .. Pos(l)
                    /\ Before(l)[Pos(i - 1) + j] = ByteOf(i, j)}
<1>0. /\ i \in 1 .. Len(lengths) /\ i - 1 \in 0 .. Len(lengths) /\ lengths[i] \in Nat
      /\ Pos(i - 1) \in Nat /\ m \in Nat /\ j \in Nat
  <2>1. i \in 1 .. Len(lengths) /\ i - 1 \in 0 .. Len(lengths) /\ m \in Nat
    BY DEF FileType
  <2>2. lengths[i] \in Nat /\ Pos(i - 1) \in Nat
    BY <2>1, LineType, BeforeType, Zenon
  <2>3. j \in Nat
    BY <2>2
  <2> QED
    BY <2>1, <2>2, <2>3
<1>1. 0 \in S
  BY <1>0
<1>2. ASSUME NEW l \in Nat, l \in S PROVE l + 1 \in S
  <2> SUFFICES ASSUME i <= l + 1, l + 1 <= Len(lengths)
               PROVE  /\ Pos(i - 1) + j \in 1 .. Pos(l + 1)
                      /\ Before(l + 1)[Pos(i - 1) + j] = ByteOf(i, j)
    OBVIOUS
  <2>1. l + 1 \in 1 .. Len(lengths) /\ l \in 0 .. Len(lengths) /\ (l + 1) - 1 = l
    BY DEF FileType
  <2>2. Before(l) \in Seq(Byte) /\ Pos(l) \in Nat /\ Len(Before(l)) = Pos(l)
    BY <2>1, BeforeType DEF Pos
  <2>3. PICK full : /\ full = Append(Line(l + 1), Newline(l + 1))
                    /\ full \in Seq(Byte) /\ Len(full) = lengths[l + 1] + 1
                    /\ \A k \in 1 .. lengths[l + 1] + 1 :
                         full[k] = IF k = lengths[l + 1] + 1 THEN <<l + 1, 0>> ELSE <<l + 1, k>>
    BY <2>1, FullLine
  <2>4. Before(l + 1) = Before(l) \o full
    BY <2>1, <2>3, BeforeMore
  <2>5. Pos(l + 1) = Pos(l) + lengths[l + 1] + 1 /\ lengths[l + 1] \in Nat
    BY <2>1, PosMore, LineType
  <2>6. CASE i = l + 1
    <3>1. Pos(i - 1) = Pos(l) /\ j \in 1 .. lengths[l + 1] + 1
      BY <2>1, <2>6
    <3>2. (Before(l) \o full)[Pos(l) + j] = full[j]
      <4>1. j \in 1 .. Len(full)
        BY <2>3, <3>1
      <4>2. full \in Seq(Byte) /\ Before(l) \in Seq(Byte)
        BY <2>2, <2>3
      <4>3. (Before(l) \o full)[Len(Before(l)) + j] = full[j]
        BY <4>1, <4>2, ConcatRight, Zenon
      <4> QED
        BY <2>2, <4>3, Zenon
    <3>3. full[j] = ByteOf(i, j)
      BY <2>3, <2>6, <3>1 DEF ByteOf
    <3>4. Pos(i - 1) + j \in 1 .. Pos(l + 1)
      <4>1. ASSUME NEW a \in Nat, NEW x \in Nat, NEW k \in 1 .. x + 1
            PROVE  a + k \in 1 .. a + x + 1
        OBVIOUS
      <4> QED
        BY <2>2, <2>5, <3>1, <4>1, Zenon
    <3> QED
      BY <2>4, <3>1, <3>2, <3>3, <3>4
  <2>7. CASE i <= l
    <3>1. /\ Pos(i - 1) + j \in 1 .. Pos(l)
          /\ Before(l)[Pos(i - 1) + j] = ByteOf(i, j)
      BY <1>2, <2>1, <2>7
    <3>2. (Before(l) \o full)[Pos(i - 1) + j] = Before(l)[Pos(i - 1) + j]
      BY <2>2, <2>3, <3>1, ConcatLeft
    <3>3. Pos(i - 1) + j \in 1 .. Pos(l + 1)
      <4>1. ASSUME NEW a \in Nat, NEW x \in Nat, NEW k \in 1 .. a
            PROVE  k \in 1 .. a + x + 1
        OBVIOUS
      <4> QED
        BY <2>2, <2>5, <3>1, <4>1, Zenon
    <3> QED
      BY <2>4, <3>1, <3>2, <3>3
  <2> QED
    BY <1>0, <2>6, <2>7
<1> HIDE DEF S
<1>3. Nat \subseteq S
  BY <1>1, <1>2, Induction
<1>4. m \in S
  BY <1>0, <1>3
<1> QED
  BY <1>0, <1>4 DEF S

(* Every byte belongs to a line.                                           *)
LEMMA BeforeCovers ==
  ASSUME FileType, NEW m \in 0 .. Len(lengths), NEW k \in 1 .. Pos(m)
  PROVE  \E i \in 1 .. m : \E j \in 1 .. lengths[i] + 1 : k = Pos(i - 1) + j
<1> DEFINE S == {l \in Nat : l <= Len(lengths) /\ k \in 1 .. Pos(l) =>
                    \E i \in 1 .. l : \E j \in 1 .. lengths[i] + 1 : k = Pos(i - 1) + j}
<1>1. 0 \in S
  BY BeforeNone
<1>2. ASSUME NEW l \in Nat, l \in S PROVE l + 1 \in S
  <2> SUFFICES ASSUME l + 1 <= Len(lengths), k \in 1 .. Pos(l + 1)
               PROVE  \E i \in 1 .. l + 1 : \E j \in 1 .. lengths[i] + 1 : k = Pos(i - 1) + j
    OBVIOUS
  <2>1. l + 1 \in 1 .. Len(lengths) /\ l \in 0 .. Len(lengths) /\ (l + 1) - 1 = l
    BY DEF FileType
  <2>2. Pos(l + 1) = Pos(l) + lengths[l + 1] + 1 /\ lengths[l + 1] \in Nat
    BY <2>1, PosMore, LineType
  <2>3. Pos(l) \in Nat
    BY <2>1, BeforeType
  <2>4. CASE k \in 1 .. Pos(l)
    <3>1. PICK i \in 1 .. l : \E j \in 1 .. lengths[i] + 1 : k = Pos(i - 1) + j
      BY <1>2, <2>1, <2>4
    <3>2. i \in 1 .. l + 1
      OBVIOUS
    <3> QED
      BY <3>1, <3>2
  <2>5. CASE k \notin 1 .. Pos(l)
    <3>1. k - Pos(l) \in 1 .. lengths[l + 1] + 1 /\ k = Pos(l) + (k - Pos(l))
      BY <2>2, <2>3, <2>5
    <3>2. l + 1 \in 1 .. l + 1 /\ Pos((l + 1) - 1) = Pos(l)
      BY <2>1
    <3> QED
      BY <3>1, <3>2
  <2> QED
    BY <2>4, <2>5
<1> HIDE DEF S
<1>3. Nat \subseteq S
  BY <1>1, <1>2, Induction
<1>4. m \in S
  BY <1>3 DEF FileType
<1> QED
  BY <1>4 DEF S, FileType

(* The file is its lines, up to the last newline.                          *)
LEMMA DataIs ==
  ASSUME FileType
  PROVE  LET n == Len(lengths)
         IN  Data = IF n = 0 \/ finalNL THEN Before(n) ELSE Before(n - 1) \o Line(n)
<1> DEFINE n == Len(lengths)
           t == [i \in 1 .. n |->
                   IF i < n \/ finalNL THEN Append(Line(i), Newline(i)) ELSE Line(i)]
<1>1. Data = FlattenSeq(t) /\ n \in Nat
  BY DEF Data, FileType
<1>2. CASE n = 0 \/ finalNL
  <2>1. t = [i \in 1 .. n |-> Append(Line(i), Newline(i))]
    BY <1>2
  <2> QED
    BY <1>1, <1>2, <2>1 DEF Before
<1>3. CASE n # 0 /\ ~finalNL
  <2>1. PICK m \in Nat : m = n - 1 /\ n = m + 1
    BY <1>1, <1>3
  <2> DEFINE s == [k \in 1 .. m |-> Append(Line(k), Newline(k))]
  <2>2. Len(s) = m /\ Len(t) = m + 1
    BY <2>1
  <2>3. Agree(s, t, m)
    <3> SUFFICES ASSUME NEW i \in 1 .. m PROVE s[i] = t[i]
      BY Zenon DEF Agree
    <3>1. i < n /\ i \in 1 .. n
      BY <2>1
    <3> QED
      BY <3>1
  <2>4. t[m + 1] = Line(n)
    BY <1>3, <2>1
  <2>5. FlattenSeq(s) = Before(m)
    BY DEF Before
  <2>6. FlattenSeq(t) = IF m = 0 THEN t[m + 1] ELSE FlattenSeq(s) \o t[m + 1]
    <3> HIDE DEF s, t
    <3> QED
      BY <2>2, <2>3, FlattenMore
  <2> HIDE DEF s, t
  <2>7. CASE m = 0
    <3>1. Before(m) = <<>>
      BY <2>7, BeforeNone
    <3>2. n \in 1 .. Len(lengths)
      BY <1>1, <1>3
    <3>3. Line(n) \in Seq(Byte)
      BY <3>2, LineType
    <3>4. <<>> \o Line(n) = Line(n)
      BY <3>3
    <3>5. Data = Line(n)
      BY <1>1, <2>4, <2>6, <2>7
    <3> QED
      BY <1>3, <2>1, <3>1, <3>4, <3>5
  <2>8. CASE m # 0
    <3>1. Data = Before(m) \o Line(n)
      BY <1>1, <2>4, <2>5, <2>6, <2>8
    <3> QED
      BY <1>3, <2>1, <3>1
  <2> QED
    BY <2>7, <2>8
<1> QED
  BY <1>2, <1>3

LEMMA DataBytes ==
  ASSUME FileType
  PROVE  LET n == Len(lengths)
         IN  /\ Data \in Seq(Byte) /\ Len(Data) \in Nat
             /\ Len(Data) = IF n = 0 \/ finalNL THEN Pos(n) ELSE Pos(n) - 1
             /\ \A k \in 1 .. Len(Data) : Data[k] = Before(n)[k]
<1> DEFINE n == Len(lengths)
<1>1. n \in Nat /\ Before(n) \in Seq(Byte)
  BY BeforeType DEF FileType
<1>2. CASE n = 0 \/ finalNL
  BY <1>1, <1>2, DataIs DEF Pos
<1>3. CASE n # 0 /\ ~finalNL
  <2>1. PICK m \in Nat : m = n - 1 /\ n = m + 1 /\ m \in 0 .. n /\ n \in 1 .. Len(lengths)
    <3>1. /\ n - 1 \in Nat /\ n = (n - 1) + 1 /\ n - 1 \in 0 .. n
          /\ n \in 1 .. Len(lengths)
      BY <1>1, <1>3
    <3> QED
      BY <3>1
  <2>2. Data = Before(m) \o Line(n)
    BY <1>3, <2>1, DataIs
  <2>3. Before(m) \in Seq(Byte) /\ Pos(m) \in Nat /\ Len(Before(m)) = Pos(m)
    BY <2>1, BeforeType DEF Pos
  <2>4. PICK full : /\ full = Append(Line(n), Newline(n))
                    /\ full \in Seq(Byte) /\ Len(full) = lengths[n] + 1
                    /\ \A k \in 1 .. lengths[n] + 1 :
                         full[k] = IF k = lengths[n] + 1 THEN <<n, 0>> ELSE <<n, k>>
    BY <2>1, FullLine
  <2>5. /\ Line(n) \in Seq(Byte) /\ Len(Line(n)) = lengths[n] /\ lengths[n] \in Nat
        /\ \A k \in 1 .. lengths[n] : Line(n)[k] = <<n, k>>
    BY <2>1, LineType
  <2>6. Before(n) = Before(m) \o full
    <3>1. m + 1 <= Len(lengths)
      BY <1>1, <2>1
    <3>2. Before(m + 1) = Before(m) \o Append(Line(m + 1), Newline(m + 1))
      BY <3>1, BeforeMore
    <3> QED
      BY <2>1, <2>4, <3>2, Zenon
  <2>7. Pos(n) = Pos(m) + lengths[n] + 1
    BY <2>1, PosMore
  <2>8. Data \in Seq(Byte) /\ Len(Data) = Pos(m) + lengths[n]
    <3>1. /\ Before(m) \o Line(n) \in Seq(Byte)
          /\ Len(Before(m) \o Line(n)) = Len(Before(m)) + Len(Line(n))
      <4>1. Line(n) \in Seq(Byte)
        BY <2>5
      <4> QED
        BY <2>3, <4>1, Concat, Zenon
    <3> QED
      BY <2>2, <2>3, <2>5, <3>1, Zenon
  <2>9. ASSUME NEW k \in 1 .. Len(Data)
        PROVE  Data[k] = Before(n)[k]
    <3>1. CASE k <= Pos(m)
      <4>1. k \in 1 .. Len(Before(m))
        BY <2>3, <3>1
      <4>2. Data[k] = Before(m)[k]
        BY <2>2, <2>3, <2>5, <4>1, ConcatLeft
      <4>3. Before(n)[k] = Before(m)[k]
        BY <2>3, <2>4, <2>6, <4>1, ConcatLeft
      <4> QED
        BY <4>2, <4>3
    <3>2. CASE k > Pos(m)
      <4>1. PICK j \in 1 .. lengths[n] : k = Pos(m) + j
        <5>1. k - Pos(m) \in 1 .. lengths[n] /\ k = Pos(m) + (k - Pos(m))
          BY <2>3, <2>5, <2>8, <3>2
        <5> QED
          BY <5>1
      <4>2. j \in 1 .. lengths[n] + 1 /\ j # lengths[n] + 1
        BY <2>5
      <4>3. Data[Pos(m) + j] = Line(n)[j]
        <5>1. j \in 1 .. Len(Line(n))
          BY <2>5
        <5>2. (Before(m) \o Line(n))[Len(Before(m)) + j] = Line(n)[j]
          <6>1. Line(n) \in Seq(Byte) /\ Before(m) \in Seq(Byte)
            BY <2>3, <2>5
          <6> QED
            BY <5>1, <6>1, ConcatRight, Zenon
        <5> QED
          BY <2>2, <2>3, <5>2, Zenon
      <4>4. Before(n)[Pos(m) + j] = full[j]
        <5>1. j \in 1 .. Len(full)
          BY <2>4, <4>2
        <5>2. full \in Seq(Byte) /\ Before(m) \in Seq(Byte)
          BY <2>3, <2>4
        <5>3. (Before(m) \o full)[Len(Before(m)) + j] = full[j]
          BY <5>1, <5>2, ConcatRight, Zenon
        <5> QED
          BY <2>3, <2>6, <5>3, Zenon
      <4> QED
        BY <2>4, <2>5, <4>1, <4>2, <4>3, <4>4
    <3> QED
      BY <2>3, <3>1, <3>2
  <2> QED
    BY <1>3, <2>3, <2>5, <2>7, <2>8, <2>9
<1> QED
  BY <1>2, <1>3


---------------------------------------------------------------------------
(* Where the lines are.                                                    *)

LEMMA WhereType ==
  ASSUME FileType, NEW i \in 0 .. Len(lengths)
  PROVE  /\ Where(i) \in 0 .. Len(Data) /\ Len(Data) \in Nat
         /\ Where(0) = 0 /\ Where(Len(lengths)) = Len(Data)
         /\ i # Len(lengths) => Where(i) = Pos(i)
<1> DEFINE n == Len(lengths)
<1>1. /\ Len(Data) \in Nat /\ n \in Nat
      /\ Len(Data) = IF n = 0 \/ finalNL THEN Pos(n) ELSE Pos(n) - 1
  BY DataBytes DEF FileType
<1>2. CASE i = n
  BY <1>1, <1>2, BeforeNone DEF Where
<1>3. CASE i # n
  <2>1. n \in 1 .. Len(lengths) /\ n - 1 \in 0 .. Len(lengths) /\ i <= n - 1
    BY <1>1, <1>3
  <2>2. Pos(i) \in Nat /\ Pos(n - 1) \in Nat /\ lengths[n] \in Nat
    BY <2>1, BeforeType, LineType
  <2>3. Pos(i) <= Pos(n - 1)
    BY <2>1, PosOrder
  <2>4. Pos(n) = Pos(n - 1) + lengths[n] + 1
    BY <2>1, PosMore
  <2>5. Pos(i) <= Len(Data)
    BY <1>1, <2>2, <2>3, <2>4
  <2>6. Where(i) = Pos(i) /\ Where(0) = 0 /\ Where(n) = Len(Data)
    BY <1>3, <2>1, BeforeNone DEF Where
  <2> QED
    BY <1>1, <2>2, <2>5, <2>6
<1> QED
  BY <1>2, <1>3

LEMMA WhereOrder ==
  ASSUME FileType, NEW i \in 0 .. Len(lengths), NEW j \in 0 .. Len(lengths), i <= j
  PROVE  Where(i) <= Where(j)
<1>1. CASE j = Len(lengths)
  BY <1>1, WhereType
<1>2. CASE j # Len(lengths)
  <2>1. i # Len(lengths)
    BY <1>2 DEF FileType
  <2>2. Where(i) = Pos(i) /\ Where(j) = Pos(j)
    BY <1>2, <2>1, WhereType
  <2> QED
    BY <2>2, PosOrder
<1> QED
  BY <1>1, <1>2

(* After i lines comes line i + 1, and then its newline or the end.        *)
LEMMA WhereLine ==
  ASSUME FileType, NEW i \in 0 .. Len(lengths), i # Len(lengths)
  PROVE  LET w == Where(i)
             l == lengths[i + 1]
         IN  /\ i + 1 \in 1 .. Len(lengths) /\ l \in Nat /\ w \in Nat
             /\ \A j \in 1 .. l : w + j \in 1 .. Len(Data) /\ Data[w + j] = <<i + 1, j>>
             /\ \/ /\ w + l + 1 \in 1 .. Len(Data) /\ Data[w + l + 1] = <<i + 1, 0>>
                   /\ Where(i + 1) = w + l + 1
                \/ Len(Data) = w + l /\ Where(i + 1) = w + l
<1> DEFINE n == Len(lengths)
           w == Where(i)
           l == lengths[i + 1]
<1>1. /\ i + 1 \in 1 .. n /\ n \in Nat /\ n \in 0 .. n /\ (i + 1) - 1 = i
  BY DEF FileType
<1>2. l \in Nat /\ Pos(i + 1) \in Nat /\ Pos(i) \in Nat
  BY <1>1, LineType, BeforeType
<1>3. w = Pos(i) /\ Len(Data) \in Nat
  BY WhereType
<1>4. Pos(i + 1) = w + l + 1
  BY <1>1, <1>3, PosMore
<1>5. /\ Len(Data) = IF n = 0 \/ finalNL THEN Pos(n) ELSE Pos(n) - 1
      /\ \A k \in 1 .. Len(Data) : Data[k] = Before(n)[k]
  BY DataBytes
<1>6. Pos(i + 1) <= Pos(n) /\ Pos(n) \in Nat
  BY <1>1, PosOrder, BeforeType
<1>7. Where(i + 1) = IF i + 1 = n THEN Len(Data) ELSE Pos(i + 1)
  BY DEF Where
<1>8. ASSUME NEW j \in 1 .. l + 1, w + j <= Len(Data)
      PROVE  w + j \in 1 .. Len(Data) /\ Data[w + j] = ByteOf(i + 1, j)
  <2>1. Before(n)[Pos((i + 1) - 1) + j] = ByteOf(i + 1, j)
    BY <1>1, BeforeBytes
  <2>2. w + j \in 1 .. Len(Data)
    BY <1>2, <1>3, <1>8
  <2> QED
    BY <1>1, <1>3, <1>5, <2>1, <2>2
<1> HIDE DEF w, l
<1>9. ASSUME NEW j \in 1 .. l
      PROVE  w + j \in 1 .. Len(Data) /\ Data[w + j] = <<i + 1, j>>
  <2>1. j \in 1 .. l + 1 /\ j # l + 1 /\ w + j <= Len(Data)
    BY <1>2, <1>3, <1>4, <1>5, <1>6
  <2> QED
    BY <1>8, <2>1 DEF ByteOf, l
<1>10. CASE w + l + 1 <= Len(Data)
  <2>1. l + 1 \in 1 .. l + 1 /\ w + (l + 1) = w + l + 1
    BY <1>2, <1>3
  <2>2. w + l + 1 \in 1 .. Len(Data) /\ Data[w + l + 1] = ByteOf(i + 1, l + 1)
    BY <1>8, <1>10, <2>1
  <2>3. Data[w + l + 1] = <<i + 1, 0>>
    BY <2>2 DEF ByteOf, l
  <2>4. Where(i + 1) = w + l + 1
    BY <1>3, <1>4, <1>5, <1>6, <1>7, <1>10
  <2> QED
    BY <1>1, <1>2, <1>3, <1>9, <2>2, <2>3, <2>4 DEF w, l
<1>11. CASE ~(w + l + 1 <= Len(Data))
  <2>1. Len(Data) = w + l /\ Pos(n) = Pos(i + 1)
    BY <1>2, <1>3, <1>4, <1>5, <1>6, <1>11
  <2>2. i + 1 = n
    <3> SUFFICES ASSUME i + 1 # n PROVE FALSE
      OBVIOUS
    <3>1. i + 2 \in 1 .. n /\ i + 2 \in 0 .. n /\ (i + 2) - 1 = i + 1
      BY <1>1
    <3>2. Pos(i + 2) = Pos(i + 1) + lengths[i + 2] + 1 /\ lengths[i + 2] \in Nat
      BY <3>1, PosMore, LineType
    <3>3. Pos(i + 2) <= Pos(n)
      BY <1>1, <3>1, PosOrder
    <3> QED
      BY <1>2, <1>6, <2>1, <3>2, <3>3
  <2>3. Where(i + 1) = w + l
    BY <1>7, <2>1, <2>2
  <2> QED
    BY <1>1, <1>2, <1>3, <1>9, <2>1, <2>3 DEF w, l
<1> QED
  BY <1>10, <1>11

(* A newline ends a line.                                                  *)
LEMMA WhereNewline ==
  ASSUME FileType, NEW k \in 1 .. Len(Data), Data[k][2] = 0
  PROVE  \E i \in 1 .. Len(lengths) : k = Where(i)
<1> DEFINE n == Len(lengths)
<1>1. n \in Nat /\ n \in 0 .. n
  BY DEF FileType
<1>2. /\ Len(Data) = IF n = 0 \/ finalNL THEN Pos(n) ELSE Pos(n) - 1
      /\ \A m \in 1 .. Len(Data) : Data[m] = Before(n)[m]
      /\ Len(Data) \in Nat /\ Pos(n) \in Nat
  BY <1>1, DataBytes, BeforeType
<1>3. k \in 1 .. Pos(n)
  BY <1>2
<1>4. PICK i \in 1 .. n : \E j \in 1 .. lengths[i] + 1 : k = Pos(i - 1) + j
  BY <1>1, <1>3, BeforeCovers
<1>5. PICK j \in 1 .. lengths[i] + 1 : k = Pos(i - 1) + j
  BY <1>4
<1>6. Data[k] = ByteOf(i, j)
  BY <1>1, <1>2, <1>5, BeforeBytes
<1>7. lengths[i] \in Nat /\ i \in 0 .. Len(lengths)
  BY <1>1, LineType
<1>8. j = lengths[i] + 1
  <2> SUFFICES ASSUME j # lengths[i] + 1 PROVE FALSE
    OBVIOUS
  <2>1. Data[k] = <<i, j>>
    BY <1>6 DEF ByteOf
  <2>2. Data[k][2] = j
    BY <2>1
  <2> QED
    BY <1>7, <2>2
<1>9. Pos(i) = Pos(i - 1) + lengths[i] + 1
  BY PosMore
<1>10. i - 1 \in 0 .. Len(lengths)
  BY <1>1
<1>11. k = Pos(i)
  <2>1. Pos(i - 1) \in Nat
    BY <1>10, BeforeType, Zenon
  <2>2. k = Pos(i - 1) + (lengths[i] + 1)
    BY <1>5, <1>8
  <2> QED
    BY <1>7, <1>9, <2>1, <2>2
<1>12. CASE i = n
  <2>1. k = Len(Data)
    BY <1>2, <1>11, <1>12
  <2> QED
    BY <1>12, <2>1 DEF Where
<1>13. CASE i # n
  BY <1>11, <1>13 DEF Where
<1> QED
  BY <1>12, <1>13


---------------------------------------------------------------------------
(* The content and the token.                                              *)

LEMMA GatheredNone ==
  ASSUME NEW l \in Nat
  PROVE  Gathered(l + 1, l) = <<>>
<1>1. [i \in 1 .. l - (l + 1) + 1 |-> Line((l + 1) + i - 1)] = <<>>
  OBVIOUS
<1> QED
  BY <1>1, FlattenNone, Zenon DEF Gathered

LEMMA GatheredMore ==
  ASSUME FileType, NEW l \in 0 .. Len(lengths), l # Len(lengths), NEW f \in 1 .. l + 1
  PROVE  Gathered(f, l + 1) = Gathered(f, l) \o Line(l + 1)
<1> DEFINE s == [i \in 1 .. l - f + 1 |-> Line(f + i - 1)]
           t == [i \in 1 .. (l + 1) - f + 1 |-> Line(f + i - 1)]
<1>1. PICK m \in Nat : m = l - f + 1 /\ (l + 1) - f + 1 = m + 1 /\ f + (m + 1) - 1 = l + 1
  <2>1. /\ l - f + 1 \in Nat /\ (l + 1) - f + 1 = (l - f + 1) + 1
        /\ f + ((l - f + 1) + 1) - 1 = l + 1
    OBVIOUS
  <2> QED
    BY <2>1
<1>2. Len(s) = m /\ Len(t) = m + 1
  BY <1>1
<1>3. Agree(s, t, m)
  BY <1>1 DEF Agree
<1>4. t[m + 1] = Line(l + 1)
  BY <1>1
<1>5. Gathered(f, l) = FlattenSeq(s) /\ Gathered(f, l + 1) = FlattenSeq(t)
  BY DEF Gathered
<1>6. FlattenSeq(t) = IF m = 0 THEN t[m + 1] ELSE FlattenSeq(s) \o t[m + 1]
  <2> HIDE DEF s, t
  <2> QED
    BY <1>2, <1>3, FlattenMore
<1> HIDE DEF s, t
<1>7. CASE m = 0
  <2>1. f = l + 1
    BY <1>1, <1>7
  <2>2. Gathered(f, l) = <<>>
    BY <2>1, GatheredNone
  <2>3. l + 1 \in 1 .. Len(lengths)
    BY DEF FileType
  <2>4. Line(l + 1) \in Seq(Byte)
    BY <2>3, LineType
  <2>5. <<>> \o Line(l + 1) = Line(l + 1)
    BY <2>4
  <2>6. Gathered(f, l + 1) = Line(l + 1)
    BY <1>4, <1>5, <1>6, <1>7
  <2> QED
    BY <2>2, <2>5, <2>6
<1>8. CASE m # 0
  BY <1>4, <1>5, <1>6, <1>8
<1> QED
  BY <1>7, <1>8

(* What the scanner finds at the front of the unread part.                 *)
LEMMA Token ==
  ASSUME Types, TokenLength # -1
  PROVE  LET t == TokenLength
         IN  /\ t \in Nat /\ start + t <= end
             /\ \A k \in 1 .. t : buf[start + k][2] # 0
             /\ \/ start + t < end /\ buf[start + t + 1][2] = 0
                \/ start + t = end /\ sawEOF /\ 0 < t
<1> DEFINE I == {i \in start + 1 .. end : buf[i][2] = 0}
<1>1. start \in Nat /\ end \in Nat /\ start <= end
  BY DEF Types
<1>2. CASE I # {}
  <2>1. I \in SUBSET Nat
    BY <1>1
  <2>2. PICK m : m = Min(I)
    OBVIOUS
  <2>3. m \in I /\ \A i \in I : m <= i
    BY <1>2, <2>1, <2>2, Least
  <2>4. m # 0 /\ TokenLength = m - start - 1
    <3>1. m # 0
      BY <1>1, <2>3
    <3>2. TokenLength =
            LET nl == IF I # {} THEN Min(I) ELSE 0
            IN  IF nl # 0 THEN nl - start - 1
                ELSE IF sawEOF /\ end > start THEN end - start
                ELSE -1
      BY DEF TokenLength, SelectInSubSeq
    <3> QED
      BY <1>2, <2>2, <3>1, <3>2
  <2>5. m \in start + 1 .. end /\ m \in Nat /\ buf[m][2] = 0
    BY <1>1, <2>3
  <2>6. ASSUME NEW k \in 1 .. m - start - 1
        PROVE  buf[start + k][2] # 0
    <3>1. start + k \in start + 1 .. end /\ ~(m <= start + k)
      BY <1>1, <2>5
    <3> QED
      BY <2>3, <3>1
  <2>7. PICK t : t = m - start - 1
    OBVIOUS
  <2>8. t \in Nat /\ start + t < end /\ start + t + 1 = m /\ start + t <= end
    BY <1>1, <2>5, <2>7
  <2>9. TokenLength = t /\ \A k \in 1 .. t : buf[start + k][2] # 0
    BY <2>4, <2>6, <2>7
  <2> QED
    BY <2>5, <2>8, <2>9
<1>3. CASE I = {}
  <2>1. TokenLength = IF sawEOF /\ end > start THEN end - start ELSE -1
    BY <1>3 DEF TokenLength, SelectInSubSeq
  <2>2. TokenLength = end - start /\ sawEOF /\ end > start
    BY <2>1
  <2>3. ASSUME NEW k \in 1 .. end - start
        PROVE  buf[start + k][2] # 0
    <3>1. start + k \in start + 1 .. end
      BY <1>1
    <3> QED
      BY <1>3, <3>1
  <2> QED
    BY <1>1, <2>2, <2>3
<1> QED
  BY <1>2, <1>3


(* Where the unread part begins once the token is returned.                *)
After == IF start + TokenLength < end THEN start + TokenLength + 1 ELSE end

(* A token is the end of at least one line of the file.                    *)
LEMMA TokenCounts ==
  ASSUME Types, Counted, TokenLength # -1
  PROVE  /\ lines # Len(lengths) /\ After \in Nat
         /\ start + TokenLength <= After /\ After <= end
         /\ Where(lines + 1) <= offset - (end - After)
<1>1. PICK t \in Nat : /\ t = TokenLength /\ start + t <= end
                       /\ \/ start + t < end /\ buf[start + t + 1][2] = 0
                          \/ start + t = end /\ sawEOF /\ 0 < t
  BY Token
<1>2. /\ FileType /\ Len(lengths) \in Nat /\ lines \in 0 .. Len(lengths)
      /\ start \in Nat /\ end \in Nat /\ start <= end /\ offset \in 0 .. Len(Data)
  BY DEF Types, FileType
<1>3. /\ Len(Data) \in Nat /\ Where(Len(lengths)) = Len(Data)
      /\ Where(lines) \in 0 .. Len(Data)
  BY <1>2, WhereType
<1>4. 0 <= Place /\ Where(lines) <= Place /\ Place = offset - (end - start)
  BY DEF Counted, Place
<1>5. CASE start + t < end /\ buf[start + t + 1][2] = 0
  <2>1. After = start + t + 1
    BY <1>1, <1>5 DEF After
  <2>2. PICK q : q = Place + (t + 1)
    OBVIOUS
  <2>3. q \in 1 .. Len(Data) /\ q = offset - (end - After)
    <3>1. offset \in Nat /\ offset <= Len(Data)
      BY <1>2, <1>3
    <3>2. Place \in Nat
      BY <1>2, <1>4, <3>1
    <3>3. q = offset - (end - After)
      BY <1>2, <1>4, <2>1, <2>2, <3>1
    <3>4. 1 <= q /\ q <= offset /\ q \in Nat
      BY <1>2, <1>4, <1>5, <2>2, <3>1, <3>2
    <3> QED
      BY <1>3, <3>1, <3>3, <3>4
  <2>4. Data[q][2] = 0
    <3>1. t + 1 \in 1 .. end - start /\ start + (t + 1) = start + t + 1
      BY <1>2, <1>5
    <3> QED
      BY <1>5, <2>2, <3>1 DEF Counted
  <2>5. PICK i \in 1 .. Len(lengths) : q = Where(i)
    BY <1>2, <2>3, <2>4, WhereNewline
  <2>6. i \in 0 .. Len(lengths)
    BY <1>2
  <2>7. lines < i
    <3> SUFFICES ASSUME i <= lines PROVE FALSE
      BY <1>2
    <3>1. Where(i) <= Where(lines)
      BY <1>2, <2>6, WhereOrder
    <3> QED
      BY <1>2, <1>3, <1>4, <2>2, <2>5, <3>1
  <2>8. lines + 1 \in 0 .. Len(lengths) /\ lines + 1 <= i /\ lines # Len(lengths)
    BY <1>2, <2>7
  <2>9. Where(lines + 1) <= q
    BY <1>2, <2>5, <2>6, <2>8, WhereOrder
  <2> QED
    BY <1>1, <1>2, <1>5, <2>1, <2>3, <2>8, <2>9
<1>6. CASE start + t = end /\ sawEOF /\ 0 < t
  <2>1. After = end
    BY <1>1, <1>2, <1>6 DEF After
  <2>2. offset = Len(Data) /\ offset - (end - After) = Len(Data)
    BY <1>2, <1>3, <1>6, <2>1 DEF Counted
  <2>3. lines # Len(lengths)
    BY <1>2, <1>3, <1>4, <1>6, <2>2
  <2>4. lines + 1 \in 0 .. Len(lengths)
    BY <1>2, <2>3
  <2>5. Where(lines + 1) <= Len(Data)
    BY <1>2, <1>3, <2>4, WhereType
  <2> QED
    BY <1>1, <1>2, <1>6, <2>1, <2>2, <2>3, <2>5
<1> QED
  BY <1>1, <1>5, <1>6

(* Until a shift, it is the next line.                                     *)
LEMMA TokenIsLine ==
  ASSUME Types, Counted, Exact, TokenLength # -1, ~shifted
  PROVE  /\ Where(lines + 1) = offset - (end - After)
         /\ SubSeq(buf, start + 1, start + TokenLength) = Line(lines + 1)
<1>1. PICK t \in Nat : /\ t = TokenLength /\ start + t <= end
                       /\ \A k \in 1 .. t : buf[start + k][2] # 0
                       /\ \/ start + t < end /\ buf[start + t + 1][2] = 0
                          \/ start + t = end /\ sawEOF /\ 0 < t
  BY Token
<1>2. /\ FileType /\ Len(lengths) \in Nat /\ lines \in 0 .. Len(lengths)
      /\ start \in Nat /\ end \in Nat /\ start <= end /\ offset \in 0 .. Len(Data)
      /\ buf \in Seq(Byte) /\ Len(buf) = Size /\ end <= Size
  BY DEF Types, FileType
<1>3. lines # Len(lengths)
  BY TokenCounts
<1>4. PICK w, l : w = Where(lines) /\ l = lengths[lines + 1]
  OBVIOUS
<1>5. /\ lines + 1 \in 1 .. Len(lengths) /\ l \in Nat /\ w \in Nat
      /\ \A j \in 1 .. l : w + j \in 1 .. Len(Data) /\ Data[w + j] = <<lines + 1, j>>
      /\ \/ /\ w + l + 1 \in 1 .. Len(Data) /\ Data[w + l + 1] = <<lines + 1, 0>>
            /\ Where(lines + 1) = w + l + 1
         \/ Len(Data) = w + l /\ Where(lines + 1) = w + l
  BY <1>2, <1>3, <1>4, WhereLine
<1>6. /\ w = offset - (end - start)
      /\ \A k \in 1 .. end - start : buf[start + k] = Data[w + k]
  BY <1>4 DEF Exact, Place
<1>7. Len(Data) \in Nat
  BY <1>2, DataBytes
<1>8. ASSUME t > l PROVE FALSE
  <2>1. l + 1 \in 1 .. t /\ l + 1 \in 1 .. end - start /\ w + (l + 1) = w + l + 1
    <3>1. l \in Nat /\ w \in Nat /\ start \in Nat /\ end \in Nat /\ start + t <= end
      BY <1>1, <1>2, <1>5
    <3> QED
      BY <1>8, <3>1
  <2>2. w + l + 1 <= Len(Data)
    BY <1>1, <1>2, <1>5, <1>6, <1>7, <1>8
  <2>3. Data[w + l + 1] = <<lines + 1, 0>>
    BY <1>5, <1>7, <2>2
  <2>4. buf[start + (l + 1)] = <<lines + 1, 0>>
    BY <1>6, <2>1, <2>3
  <2>5. buf[start + (l + 1)][2] = 0
    BY <2>4
  <2> QED
    BY <1>1, <2>1, <2>5
<1>9. t = l /\ Where(lines + 1) = offset - (end - After)
  <2>1. CASE start + t < end /\ buf[start + t + 1][2] = 0
    <3>1. After = start + t + 1
      BY <1>1, <2>1 DEF After
    <3>2. t + 1 \in 1 .. end - start /\ start + (t + 1) = start + t + 1
      <4>1. start \in Nat /\ end \in Nat
        BY <1>2
      <4> QED
        BY <2>1, <4>1
    <3>3. Data[w + (t + 1)][2] = 0
      BY <1>6, <2>1, <3>2
    <3>4. ASSUME t < l PROVE FALSE
      <4>1. t + 1 \in 1 .. l
        BY <1>5, <3>4
      <4>2. Data[w + (t + 1)] = <<lines + 1, t + 1>>
        BY <1>5, <4>1
      <4>3. Data[w + (t + 1)][2] = t + 1
        BY <4>2
      <4> QED
        BY <3>3, <4>3
    <3>5. t = l
      BY <1>5, <1>8, <3>4
    <3>6. Where(lines + 1) = w + l + 1
      BY <1>2, <1>5, <1>6, <1>7, <2>1, <3>5
    <3> QED
      BY <1>2, <1>5, <1>6, <3>1, <3>5, <3>6
  <2>2. CASE start + t = end /\ sawEOF /\ 0 < t
    <3>1. After = end /\ offset = Len(Data)
      BY <1>1, <1>2, <2>2 DEF After, Counted
    <3>2. l <= t
      <4>1. CASE l = 0
        BY <4>1
      <4>2. CASE l # 0
        <5>1. l \in 1 .. l
          BY <1>5, <4>2
        <5>2. w + l \in 1 .. Len(Data)
          BY <1>5, <5>1
        <5> QED
          <6>1. w + l <= Len(Data) /\ Len(Data) = offset /\ offset = w + t
            BY <1>2, <1>6, <1>7, <2>2, <3>1, <5>2
          <6> QED
            BY <1>5, <1>7, <6>1
      <4> QED
        BY <4>1, <4>2
    <3>3. t = l
      BY <1>5, <1>8, <3>2
    <3>4. /\ start \in Nat /\ end \in Nat /\ offset \in Nat /\ w \in Nat /\ l \in Nat
          /\ w = offset - (end - start) /\ start + l = end /\ offset = Len(Data)
      BY <1>2, <1>5, <1>6, <1>7, <2>2, <3>1, <3>3
    <3>5. offset = w + l /\ offset = offset - (end - end)
      BY <3>4
    <3>6. Where(lines + 1) = w + l
      BY <1>5, <3>4, <3>5
    <3> QED
      BY <3>1, <3>3, <3>5, <3>6
  <2> QED
    BY <1>1, <2>1, <2>2
<1>10. SubSeq(buf, start + 1, start + t) = Line(lines + 1)
  <2>1. /\ Line(lines + 1) \in Seq(Byte) /\ Len(Line(lines + 1)) = l
        /\ \A j \in 1 .. l : Line(lines + 1)[j] = <<lines + 1, j>>
    BY <1>2, <1>4, <1>5, LineType
  <2>2. PICK s : s = SubSeq(buf, start + 1, start + t)
    OBVIOUS
  <2>3. s \in Seq(Byte) /\ Len(s) = t /\ \A k \in 1 .. t : s[k] = buf[start + k]
    <3>1. start + t <= Len(buf) /\ start \in Nat /\ buf \in Seq(Byte)
      BY <1>1, <1>2
    <3>2. /\ SubSeq(buf, start + 1, start + t) \in Seq(Byte)
          /\ Len(SubSeq(buf, start + 1, start + t)) = t
          /\ \A k \in 1 .. t : SubSeq(buf, start + 1, start + t)[k] = buf[start + k]
      BY <3>1, Part, Zenon
    <3> QED
      BY <2>2, <3>2, Zenon
  <2>4. \A k \in 1 .. t : s[k] = Line(lines + 1)[k]
    <3> SUFFICES ASSUME NEW k \in 1 .. t PROVE s[k] = Line(lines + 1)[k]
      OBVIOUS
    <3>1. k \in 1 .. end - start
      BY <1>1, <1>2
    <3> QED
      BY <1>5, <1>6, <1>9, <2>1, <2>3, <3>1
  <2>5. s = Line(lines + 1)
    BY <1>9, <2>1, <2>3, <2>4, SameSeq
  <2> QED
    BY <2>2, <2>5
<1> QED
  BY <1>1, <1>9, <1>10


---------------------------------------------------------------------------
(* The steps.                                                              *)

(* The file does not change.                                               *)
LEMMA Steady ==
  ASSUME UNCHANGED <<lengths, finalNL>>
  PROVE  /\ Data' = Data /\ (FileType' <=> FileType) /\ Len(lengths)' = Len(lengths)
         /\ Where(lines)' = Where(lines')
         /\ Gathered(first, lines)' = Gathered(first', lines')
<1>1. Data' = Data
  BY DEF Data, Line, Newline
<1>2. Where(lines)' = Where(lines')
  BY <1>1 DEF Where, Pos, Before, Line, Newline
<1>3. Gathered(first, lines)' = Gathered(first', lines')
  BY DEF Gathered, Line
<1> QED
  BY <1>1, <1>2, <1>3 DEF FileType

LEMMA NothingKept ==
  ASSUME FileType, lines \in Nat
  PROVE  /\ Bytes(NoContent) = Gathered(lines + 1, lines)
         /\ NoContent \in Slice /\ ~NoContent.shared
<1>1. Gathered(lines + 1, lines) = <<>>
  BY GatheredNone
<1>2. NoContent = [shared |-> FALSE, from |-> 0, len |-> 0, bytes |-> <<>>]
  BY DEF NoContent, Own
<1>3. NoContent \in Slice /\ ~NoContent.shared /\ NoContent.bytes = <<>>
  BY <1>2 DEF Slice
<1>4. Bytes(NoContent) = <<>>
  BY <1>3 DEF Bytes
<1> QED
  BY <1>1, <1>3, <1>4

LEMMA InitInv == Init => IInv
<1> SUFFICES ASSUME Init PROVE IInv
  OBVIOUS
<1>1. FileType
  <2>1. PICK m \in 0 .. MaxLines : lengths \in [1 .. m -> 0 .. MaxLength]
    BY DEF Init, BoundedSeq, SeqOf
  <2>2. m \in Nat /\ 0 .. MaxLength \subseteq Nat
    BY BoundAssumption
  <2>3. lengths \in Seq(Nat)
    BY <2>1, <2>2
  <2> QED
    BY <2>3 DEF Init, FileType
<1>2. Len(Data) \in Nat /\ Where(0) = 0 /\ Len(lengths) \in Nat
  BY <1>1, DataBytes, WhereType DEF FileType
<1>3. buf \in Seq(Byte) /\ Len(buf) = Size
  <2>1. <<0, 0>> \in Byte
    BY DEF Byte
  <2>2. Size \in Nat /\ buf = [k \in 1 .. Size |-> <<0, 0>>]
    BY SizeAssumption DEF Init
  <2>3. buf \in [1 .. Size -> Byte]
    BY <2>1, <2>2
  <2> QED
    BY <2>2, <2>3
<1>4. Bytes(NoContent) = Gathered(1, 0) /\ NoContent \in Slice /\ ~NoContent.shared
  BY <1>1, NothingKept DEF Init
<1>5. /\ offset = 0 /\ start = 0 /\ end = 0 /\ sawEOF = FALSE /\ pc = "call"
      /\ lines = 0 /\ first = 1 /\ content = NoContent /\ shifted = FALSE
  BY DEF Init
<1>6. Types
  <2>1. content \in Slice /\ (content.shared => content.from + content.len <= Size)
    BY <1>4, <1>5, Zenon
  <2>2. offset \in 0 .. Len(Data) /\ lines \in 0 .. Len(lengths) /\ first \in 1 .. lines + 1
    BY <1>2, <1>5
  <2>3. /\ start \in Nat /\ end \in Nat /\ start <= end /\ end <= Size
    BY <1>5, SizeAssumption
  <2>4. /\ sawEOF \in BOOLEAN /\ shifted \in BOOLEAN
        /\ pc \in {"call", "fetch", "parse", "eof", "toolong"}
    BY <1>5, Zenon
  <2> QED
    BY <1>1, <1>3, <2>1, <2>2, <2>3, <2>4, Zenon DEF Types
<1>7. Counted /\ Exact
  BY <1>2, <1>5 DEF Counted, Exact, Place
<1>8. Kept
  BY <1>4, <1>5 DEF Kept
<1> QED
  BY <1>6, <1>7, <1>8 DEF IInv

(* Steps that leave the buffer alone and keep or drop the content.         *)
LEMMA QuietStep ==
  ASSUME IInv, TooLong \/ EndOfFile \/ Accepted \/ Skipped \/ Incomplete
  PROVE  IInv'
<1>1. /\ UNCHANGED <<lengths, finalNL, offset, buf, start, end, sawEOF, lines, shifted>>
      /\ pc' \in {"call", "fetch", "eof", "toolong"}
      /\ \/ UNCHANGED <<first, content>> /\ pc' # "call"
         \/ first' = lines + 1 /\ content' = NoContent
  BY DEF TooLong, EndOfFile, Accepted, Skipped, Incomplete, bufferVars, NoContent
<1>2. /\ Data' = Data /\ (FileType' <=> FileType) /\ Len(lengths)' = Len(lengths)
      /\ Where(lines)' = Where(lines')
      /\ Gathered(first, lines)' = Gathered(first', lines')
  BY <1>1, Steady
<1>3. Types /\ Counted /\ Exact /\ Kept /\ FileType /\ lines \in Nat
  BY DEF IInv, Types
<1>4. /\ Bytes(NoContent) = Gathered(lines + 1, lines)
      /\ NoContent \in Slice /\ ~NoContent.shared
  BY <1>3, NothingKept
<1>5. Types'
  BY <1>1, <1>2, <1>3, <1>4 DEF Types
<1>6. Counted'
  BY <1>1, <1>2, <1>3 DEF Counted, Place
<1>7. Exact'
  BY <1>1, <1>2, <1>3 DEF Exact, Place
<1>8. Kept'
  <2>1. CASE UNCHANGED <<first, content>> /\ pc' # "call"
    <3>1. Bytes(content)' = Bytes(content)
      BY <1>1, <2>1 DEF Bytes
    <3> QED
      BY <1>1, <1>2, <1>3, <2>1, <3>1 DEF Kept
  <2>2. CASE first' = lines + 1 /\ content' = NoContent
    <3>1. Bytes(content)' = Gathered(first', lines')
      <4>1. Bytes(content)' = content'.bytes
        BY <1>4, <2>2 DEF Bytes
      <4>2. Bytes(NoContent) = NoContent.bytes
        BY <1>4 DEF Bytes
      <4> QED
        BY <1>1, <1>4, <2>2, <4>1, <4>2
    <3>2. NoContent' = NoContent
      BY DEF NoContent, Own
    <3> QED
      BY <1>1, <1>2, <1>4, <2>2, <3>1, <3>2 DEF Kept
  <2> QED
    BY <1>1, <2>1, <2>2
<1> QED
  BY <1>5, <1>6, <1>7, <1>8 DEF IInv


(* A read moves the unread part at most, and continues it with the next    *)
(* bytes of the file.                                                      *)
LEMMA RefillStep ==
  ASSUME IInv, NEW n \in 0 .. Size, Refill(n)
  PROVE  IInv'
<1>1. PICK kept, base :
        /\ kept = IF NeedsShift THEN end - start ELSE end
        /\ base = IF NeedsShift THEN Shifted ELSE buf
        /\ ~sawEOF /\ kept < Size
        /\ n <= Size - kept /\ n <= Len(Data) - offset
        /\ n = 0 => offset = Len(Data)
        /\ buf' = [k \in 1 .. Size |->
                      IF k \in kept + 1 .. kept + n THEN Data[offset + k - kept]
                      ELSE base[k]]
        /\ start' = IF NeedsShift THEN 0 ELSE start
        /\ end' = kept + n
        /\ offset' = offset + n
        /\ sawEOF' = (n = 0)
        /\ shifted' = (shifted \/ (NeedsShift /\ content.shared))
        /\ UNCHANGED <<lengths, finalNL, pc, lines, first, content>>
  BY Zenon DEF Refill
<1>2. /\ Data' = Data /\ (FileType' <=> FileType) /\ Len(lengths)' = Len(lengths)
      /\ Where(lines)' = Where(lines')
      /\ Gathered(first, lines)' = Gathered(first', lines')
  BY <1>1, Steady
<1>3. Types /\ Counted /\ Exact /\ Kept /\ FileType
  BY DEF IInv, Types
<1>4. /\ Data \in Seq(Byte) /\ Len(Data) \in Nat /\ offset \in 0 .. Len(Data)
      /\ buf \in Seq(Byte) /\ Len(buf) = Size /\ Size \in Nat
      /\ start \in Nat /\ end \in Nat /\ start <= end /\ end <= Size
  BY <1>3, DataBytes, SizeAssumption DEF Types
<1>0. PICK s, e : s = start' /\ e = end'
  OBVIOUS
<1>5. /\ kept \in Nat /\ n \in Nat /\ end - start <= kept
      /\ s \in Nat /\ e \in Nat /\ s <= e /\ e <= Size /\ e - s = (end - start) + n
  BY <1>0, <1>1, <1>4
<1>6. \A k \in 1 .. Size : base[k] \in Byte
  <2>1. \A k \in 1 .. Size : buf[k] \in Byte
    BY <1>4
  <2>2. \A k \in 1 .. Size : k <= end - start => start + k \in 1 .. Size
    BY <1>4
  <2>3. \A k \in 1 .. Size : Shifted[k] \in Byte
    BY <2>1, <2>2 DEF Shifted
  <2> QED
    BY <1>1, <2>1, <2>3
<1>7. \A k \in kept + 1 .. kept + n : Data[offset + k - kept] \in Byte
  <2> SUFFICES ASSUME NEW k \in kept + 1 .. kept + n
               PROVE  Data[offset + k - kept] \in Byte
    OBVIOUS
  <2>1. n <= Len(Data) - offset
    BY <1>1
  <2>2. offset + k - kept \in 1 .. Len(Data)
    BY <1>4, <1>5, <2>1
  <2> QED
    BY <1>4, <2>2
<1>8. buf' \in Seq(Byte) /\ Len(buf') = Size
  <2>1. buf' \in [1 .. Size -> Byte]
    BY <1>1, <1>6, <1>7
  <2> QED
    BY <1>4, <2>1
<1>9. Place' = Place
  BY <1>0, <1>1, <1>4, <1>5 DEF Place
<1>10. ASSUME NEW k \in 1 .. e - s
       PROVE  buf'[s + k] = IF k <= end - start THEN buf[start + k] ELSE Data[Place + k]
  <2>0. k \in Nat /\ 1 <= k /\ s + k <= e /\ k <= (end - start) + n
    <3>1. /\ s \in Nat /\ e \in Nat /\ e - s = (end - start) + n
          /\ end \in Nat /\ start \in Nat
      BY <1>4, <1>5
    <3> QED
      BY <3>1
  <2>1. s + k \in 1 .. Size
    <3>1. s \in Nat /\ e \in Nat /\ e <= Size /\ Size \in Nat
      BY <1>4, <1>5
    <3> QED
      BY <2>0, <3>1
  <2>2. buf'[s + k] = IF s + k \in kept + 1 .. kept + n
                           THEN Data[offset + (s + k) - kept] ELSE base[s + k]
    BY <1>1, <2>1
  <2>3. /\ s + end - start = kept
        /\ s \in Nat /\ start \in Nat /\ end \in Nat /\ kept \in Nat /\ offset \in Nat
        /\ n \in Nat
    BY <1>0, <1>1, <1>4, <1>5
  <2>4. CASE k <= end - start
    <3>1. s + k \notin kept + 1 .. kept + n
      BY <2>0, <2>3, <2>4
    <3>2. base[s + k] = buf[start + k]
      <4>1. CASE NeedsShift
        <5>1. s + k = k /\ base = Shifted /\ k \in 1 .. Size
          BY <1>0, <1>1, <2>1, <4>1
        <5> QED
          BY <2>4, <5>1 DEF Shifted
      <4>2. CASE ~NeedsShift
        BY <1>0, <1>1, <4>2
      <4> QED
        BY <4>1, <4>2
    <3> QED
      BY <2>2, <2>4, <3>1, <3>2
  <2>5. CASE k > end - start
    <3>1. s + k \in kept + 1 .. kept + n
      BY <2>0, <2>3, <2>5
    <3>2. offset + (s + k) - kept = Place + k
      BY <2>0, <2>3 DEF Place
    <3> QED
      BY <1>4, <2>2, <2>5, <3>1, <3>2
  <2> QED
    BY <1>4, <2>4, <2>5
<1>11. Types'
  <2>1. offset' \in 0 .. Len(Data)
    BY <1>1, <1>4, <1>5
  <2>2. /\ sawEOF' \in BOOLEAN /\ shifted' \in BOOLEAN
        /\ pc' \in {"call", "fetch", "parse", "eof", "toolong"}
        /\ lines' \in 0 .. Len(lengths) /\ first' \in 1 .. lines' + 1
        /\ content' \in Slice
        /\ content'.shared => content'.from + content'.len <= Size
    BY <1>1, <1>3 DEF Types, Slice
  <2> QED
    BY <1>0, <1>2, <1>3, <1>5, <1>8, <2>1, <2>2 DEF Types
<1>12. Counted'
  <2>1. 0 <= Place' /\ Where(lines)' <= Place'
    BY <1>1, <1>2, <1>3, <1>9 DEF Counted
  <2>2. ASSUME sawEOF' PROVE offset' = Len(Data)
    <3>1. n = 0
      BY <1>1, <2>2, Zenon
    <3>2. offset = Len(Data) /\ offset' = offset + n
      BY <1>1, <3>1, Zenon
    <3> QED
      BY <1>4, <3>1, <3>2
  <2>3. ASSUME NEW k \in 1 .. e - s, buf'[s + k][2] = 0
        PROVE  Data[Place + k][2] = 0
    <3>1. CASE k <= end - start
      <4>1. k \in 1 .. end - start
        BY <1>4, <3>1
      <4> QED
        BY <1>3, <1>10, <2>3, <3>1, <4>1 DEF Counted
    <3>2. CASE ~(k <= end - start)
      BY <1>10, <2>3, <3>2
    <3> QED
      BY <3>1, <3>2
  <2> QED
    BY <1>0, <1>2, <1>9, <2>1, <2>2, <2>3 DEF Counted
<1>13. Exact'
  <2> SUFFICES ASSUME ~shifted'
               PROVE  /\ Place' = Where(lines)'
                      /\ \A k \in 1 .. e - s : buf'[s + k] = Data[Place + k]
    BY <1>0, <1>2, <1>9 DEF Exact
  <2>1. ~shifted
    BY <1>1
  <2>2. ASSUME NEW k \in 1 .. e - s
        PROVE  buf'[s + k] = Data[Place + k]
    <3>1. CASE k <= end - start
      <4>1. k \in 1 .. end - start
        BY <1>4, <3>1
      <4> QED
        BY <1>3, <1>10, <2>1, <3>1, <4>1 DEF Exact
    <3>2. CASE ~(k <= end - start)
      BY <1>10, <3>2
    <3> QED
      BY <3>1, <3>2
  <2> QED
    BY <1>1, <1>2, <1>3, <1>9, <2>1, <2>2 DEF Exact
<1>14. Kept'
  <2>1. pc' = "call" => content' = NoContent' /\ first' = lines' + 1
    BY <1>1, <1>3 DEF Kept, NoContent, Own
  <2>2. ASSUME ~shifted'
        PROVE  /\ content'.shared => content'.from + content'.len <= start'
               /\ Bytes(content)' = Gathered(first', lines')
    <3>1. ~shifted /\ (content.shared => ~NeedsShift)
      BY <1>1, <1>3, <2>2 DEF Types
    <3>2. content' = content /\ Bytes(content) = Gathered(first', lines')
      BY <1>1, <1>3, <3>1 DEF Kept
    <3>3. CASE content.shared
      <4>1. content.from + content.len <= start /\ start' = start /\ kept = end /\ base = buf
        BY <1>1, <1>3, <3>1, <3>3 DEF Kept
      <4>2. PICK a, m : a = content.from /\ m = content.len
        OBVIOUS
      <4>3. a \in Nat /\ m \in Nat /\ a + m <= start
        BY <1>3, <4>1, <4>2 DEF Types, Slice
      <4>4. SubSeq(buf', a + 1, a + m) = SubSeq(buf, a + 1, a + m)
        <5>1. \A k \in 1 .. m : buf'[a + k] = buf[a + k]
          <6> SUFFICES ASSUME NEW k \in 1 .. m PROVE buf'[a + k] = buf[a + k]
            OBVIOUS
          <6>1. a + k \in 1 .. Size /\ a + k \notin kept + 1 .. kept + n
            BY <1>4, <1>5, <4>1, <4>3
          <6> QED
            BY <1>1, <4>1, <6>1
        <5>2. a + m <= Len(buf) /\ a + m <= Len(buf')
          BY <1>4, <1>8, <4>3
        <5> QED
          BY <1>4, <1>8, <4>3, <5>1, <5>2, SamePart
      <4> QED
        BY <3>2, <3>3, <4>1, <4>2, <4>4 DEF Bytes
    <3>4. CASE ~content.shared
      BY <3>2, <3>4 DEF Bytes
    <3> QED
      BY <3>3, <3>4
  <2> QED
    BY <1>2, <2>1, <2>2 DEF Kept
<1> QED
  BY <1>11, <1>12, <1>13, <1>14 DEF IInv


(* What ReturnLine makes of the content and the buffer, tok being the      *)
(* bytes of the token: the buffer changes only behind the content, and     *)
(* gets no newline.                                                        *)
Returned(tok) ==
    /\ buf' \in Seq(Byte) /\ Len(buf') = Size
    /\ \A k \in 1 .. Size : buf'[k] = buf[k] \/ buf'[k][2] # 0
    /\ content' \in Slice
    /\ content'.shared => content'.from + content'.len <= Size
    /\ ~shifted =>
         /\ \A k \in start + Len(tok) + 1 .. Size : buf'[k] = buf[k]
         /\ content'.shared => content'.from + content'.len <= start + Len(tok)
    /\ Bytes(content)' = IF pc = "call" THEN tok ELSE Bytes(content) \o tok

LEMMA TokenBytes ==
  ASSUME Types, NEW t \in Nat, start + t <= end
  PROVE  LET tok == Bytes(Alias(start, t))
         IN  /\ tok = SubSeq(buf, start + 1, start + t)
             /\ tok \in Seq(Byte) /\ Len(tok) = t
             /\ \A k \in 1 .. t : tok[k] = buf[start + k]
<1>1. Bytes(Alias(start, t)) = SubSeq(buf, start + 1, start + t)
  BY DEF Bytes, Alias
<1>2. start \in Nat /\ buf \in Seq(Byte) /\ start + t <= Len(buf)
  BY SizeAssumption DEF Types
<1>3. /\ SubSeq(buf, start + 1, start + t) \in Seq(Byte)
      /\ Len(SubSeq(buf, start + 1, start + t)) = t
      /\ \A k \in 1 .. t : SubSeq(buf, start + 1, start + t)[k] = buf[start + k]
  BY <1>2, Part, Zenon
<1> QED
  BY <1>1, <1>3, Zenon

LEMMA ContentBytes ==
  ASSUME Types
  PROVE  Bytes(content) \in Seq(Byte)
<1>1. /\ content \in Slice /\ buf \in Seq(Byte) /\ Size \in Nat /\ Len(buf) = Size
      /\ content.shared => content.from + content.len <= Size
  BY SizeAssumption DEF Types
<1>2. PICK a \in Nat, m \in Nat : a = content.from /\ m = content.len
  BY <1>1 DEF Slice
<1>3. CASE content.shared
  <2>1. a + m <= Len(buf)
    BY <1>1, <1>2, <1>3
  <2>2. SubSeq(buf, a + 1, a + m) \in Seq(Byte)
    BY <1>1, <2>1, Part, Zenon
  <2> QED
    BY <1>2, <1>3, <2>2 DEF Bytes
<1>4. CASE ~content.shared
  BY <1>1, <1>4 DEF Bytes, Slice
<1> QED
  BY <1>3, <1>4

(* A new slice, or the first one.                                          *)
LEMMA ReturnFirst ==
  ASSUME Types, NEW t \in Nat, start + t <= end, pc = "call",
         content' = Alias(start, t), buf' = buf
  PROVE  Returned(Bytes(Alias(start, t)))
<1>1. PICK tok : /\ tok = Bytes(Alias(start, t)) /\ tok = SubSeq(buf, start + 1, start + t)
                 /\ Len(tok) = t
  BY TokenBytes
<1>2. /\ start \in Nat /\ end \in Nat /\ end <= Size /\ Size \in Nat
      /\ buf \in Seq(Byte) /\ Len(buf) = Size
  BY SizeAssumption DEF Types
<1>3. content' = [shared |-> TRUE, from |-> start, len |-> t, bytes |-> <<>>]
  BY DEF Alias
<1>4. content' \in Slice
  BY <1>2, <1>3 DEF Slice
<1>5. content'.shared /\ content'.from = start /\ content'.len = t
  BY <1>3
<1>6. Bytes(content)' = tok
  BY <1>1, <1>5 DEF Bytes
<1>7. start + t <= Size
  BY <1>2
<1> QED
  BY <1>1, <1>2, <1>4, <1>5, <1>6, <1>7 DEF Returned

LEMMA ReturnNew ==
  ASSUME Types, NEW t \in Nat, start + t <= end, pc # "call",
         content' = Own(Bytes(content) \o Bytes(Alias(start, t))), buf' = buf
  PROVE  Returned(Bytes(Alias(start, t)))
<1>1. PICK tok : /\ tok = Bytes(Alias(start, t)) /\ tok \in Seq(Byte) /\ Len(tok) = t
  BY TokenBytes
<1>2. PICK all : all = Bytes(content) \o tok
  OBVIOUS
<1>3. all \in Seq(Byte)
  BY <1>1, <1>2, ContentBytes, Concat
<1>4. content' = [shared |-> FALSE, from |-> 0, len |-> 0, bytes |-> all]
  BY <1>1, <1>2 DEF Own
<1>5. content' \in Slice /\ ~content'.shared /\ content'.bytes = all
  BY <1>3, <1>4 DEF Slice
<1>6. Bytes(content)' = all
  BY <1>5 DEF Bytes
<1>7. buf \in Seq(Byte) /\ Len(buf) = Size
  BY DEF Types
<1> QED
  BY <1>1, <1>2, <1>5, <1>6, <1>7 DEF Returned

(* append in place.                                                        *)
InPlace(t) ==
    /\ content.shared /\ content.from + content.len + t <= Size
    /\ content' = Alias(content.from, content.len + t)
    /\ buf' = [k \in 1 .. Size |->
                 IF k \in content.from + content.len + 1 .. content.from + content.len + t
                 THEN Bytes(Alias(start, t))[k - content.from - content.len] ELSE buf[k]]

LEMMA ReturnInPlace ==
  ASSUME Types, Kept, NEW t \in Nat, start + t <= end, pc # "call",
         \A k \in 1 .. t : buf[start + k][2] # 0, InPlace(t)
  PROVE  Returned(Bytes(Alias(start, t)))
<1>1. PICK tok : /\ tok = Bytes(Alias(start, t)) /\ tok \in Seq(Byte) /\ Len(tok) = t
                 /\ \A k \in 1 .. t : tok[k] = buf[start + k]
  BY TokenBytes
<1>2. PICK a \in Nat, m \in Nat : a = content.from /\ m = content.len
  <2>1. content.from \in Nat /\ content.len \in Nat
    BY DEF Types, Slice
  <2> QED
    BY <2>1
<1>3. /\ a \in Nat /\ m \in Nat /\ a + m + t <= Size /\ Size \in Nat
      /\ start \in Nat /\ end \in Nat /\ end <= Size
  BY <1>2, SizeAssumption DEF Types, Slice, InPlace
<1>4. buf \in Seq(Byte) /\ Len(buf) = Size
  BY DEF Types
<1>5. PICK new : new = [k \in 1 .. Size |-> IF k \in a + m + 1 .. a + m + t
                                            THEN tok[k - a - m] ELSE buf[k]]
  OBVIOUS
<1>6. buf' = new
  BY <1>1, <1>2, <1>5 DEF InPlace
<1>7. \A k \in a + m + 1 .. a + m + t : k - a - m \in 1 .. t
  BY <1>3
<1>8. new \in Seq(Byte) /\ Len(new) = Size
  <2>1. \A k \in 1 .. Size : new[k] \in Byte
    BY <1>1, <1>4, <1>5, <1>7
  <2>2. new \in [1 .. Size -> Byte]
    BY <1>5, <2>1
  <2> QED
    BY <1>3, <2>2
<1>9. ASSUME NEW k \in 1 .. Size
      PROVE  new[k] = buf[k] \/ new[k][2] # 0
  <2>1. CASE k \in a + m + 1 .. a + m + t
    <3>1. k - a - m \in 1 .. t /\ new[k] = tok[k - a - m]
      BY <1>5, <1>7, <2>1
    <3>2. new[k] = buf[start + (k - a - m)]
      BY <1>1, <3>1
    <3> QED
      BY <3>1, <3>2
  <2>2. CASE k \notin a + m + 1 .. a + m + t
    BY <1>5, <2>2
  <2> QED
    BY <2>1, <2>2
<1>10. content' = [shared |-> TRUE, from |-> a, len |-> m + t, bytes |-> <<>>]
  BY <1>2 DEF Alias, InPlace
<1>11. /\ content' \in Slice /\ content'.shared
       /\ content'.from = a /\ content'.len = m + t /\ a + (m + t) = a + m + t
  <2>1. PICK c : c = content'
    OBVIOUS
  <2>2. c = [shared |-> TRUE, from |-> a, len |-> m + t, bytes |-> <<>>]
    BY <1>10, <2>1
  <2>3. m + t \in Nat /\ a + (m + t) = a + m + t /\ <<>> \in Seq(Byte)
    BY <1>3
  <2>4. c \in Slice /\ c.shared /\ c.from = a /\ c.len = m + t
    BY <2>2, <2>3 DEF Slice
  <2> QED
    BY <2>1, <2>3, <2>4
<1>12. ASSUME ~shifted
       PROVE  /\ \A k \in start + t + 1 .. Size : new[k] = buf[k]
              /\ a + m + t <= start + t
  <2>1. a + m <= start
    BY <1>2, <1>12 DEF Kept, InPlace
  <2>2. ASSUME NEW k \in start + t + 1 .. Size
        PROVE  new[k] = buf[k]
    <3>1. k \in 1 .. Size /\ k \notin a + m + 1 .. a + m + t
      BY <1>3, <2>1
    <3> QED
      BY <1>5, <3>1
  <2> QED
    BY <1>3, <2>1, <2>2
<1>13. Bytes(content)' = Bytes(content) \o tok
  <2>1. /\ Bytes(content) = SubSeq(buf, a + 1, a + m)
        /\ Bytes(content)' = SubSeq(new, a + 1, a + (m + t))
    BY <1>2, <1>6, <1>11 DEF Bytes, InPlace
  <2>2. ASSUME NEW k \in 1 .. m PROVE new[a + k] = buf[a + k]
    <3>1. a + k \in 1 .. Size /\ a + k \notin a + m + 1 .. a + m + t
      BY <1>3
    <3> QED
      BY <1>5, <3>1
  <2>3. ASSUME NEW k \in 1 .. t PROVE new[a + (m + k)] = tok[k]
    <3>1. /\ a + (m + k) \in 1 .. Size /\ a + (m + k) \in a + m + 1 .. a + m + t
          /\ (a + (m + k)) - a - m = k
      BY <1>3
    <3> QED
      BY <1>5, <3>1
  <2>4. a + m + t <= Len(buf) /\ a + m + t <= Len(new)
    BY <1>3, <1>4, <1>8
  <2>5. SubSeq(new, a + 1, a + (m + t)) = SubSeq(buf, a + 1, a + m) \o tok
    <3>1. /\ buf \in Seq(Byte) /\ new \in Seq(Byte) /\ tok \in Seq(Byte) /\ Len(tok) = t
      BY <1>1, <1>4, <1>8
    <3>2. Continues(Byte, buf, new, tok, a, m, t)
      BY <1>3, <2>2, <2>3, <2>4, <3>1 DEF Continues
    <3>3. Joins(buf, new, tok, a, m, t)
      BY <3>2, PartMore
    <3> QED
      BY <3>3 DEF Joins
  <2> QED
    BY <2>1, <2>5
<1> QED
  BY <1>1, <1>3, <1>6, <1>8, <1>9, <1>11, <1>12, <1>13 DEF Returned


LEMMA ReturnMakes ==
  ASSUME Types, Kept, ReturnLine
  PROVE  Returned(Bytes(Alias(start, TokenLength)))
<1>1. PICK t \in Nat : /\ t = TokenLength /\ start + t <= end
                       /\ \A k \in 1 .. t : buf[start + k][2] # 0
  BY Token DEF ReturnLine
<1>2. PICK token : token = Alias(start, t)
  OBVIOUS
<1>3. token.len = t
  BY <1>2 DEF Alias
<1>4. IF pc = "call" THEN content' = token /\ buf' = buf
      ELSE content' = AppendSlice(content, token) /\ buf' = Written(content, token)
  BY <1>1, <1>2 DEF ReturnLine
<1>5. CASE pc = "call"
  BY <1>1, <1>2, <1>4, <1>5, ReturnFirst
<1>6. CASE pc # "call" /\ content.shared /\ content.from + content.len + t <= Size
  <2>1. AppendSlice(content, token) = Alias(content.from, content.len + t)
    BY <1>3, <1>6 DEF AppendSlice
  <2>2. Alias(content.from, content.len + t).shared
    BY DEF Alias
  <2>3. Written(content, token) =
          [k \in 1 .. Size |->
             IF k \in content.from + content.len + 1 .. content.from + content.len + t
             THEN Bytes(token)[k - content.from - content.len] ELSE buf[k]]
    BY <1>3, <2>1, <2>2 DEF Written
  <2>4. InPlace(t)
    BY <1>2, <1>4, <1>6, <2>1, <2>3 DEF InPlace
  <2> QED
    BY <1>1, <1>6, <2>4, ReturnInPlace
<1>7. CASE pc # "call" /\ ~(content.shared /\ content.from + content.len + t <= Size)
  <2>1. AppendSlice(content, token) = Own(Bytes(content) \o Bytes(token))
    BY <1>3, <1>7 DEF AppendSlice
  <2>2. ~Own(Bytes(content) \o Bytes(token)).shared
    BY DEF Own
  <2>3. Written(content, token) = buf
    BY <2>1, <2>2 DEF Written
  <2>4. content' = Own(Bytes(content) \o Bytes(Alias(start, t))) /\ buf' = buf
    BY <1>2, <1>4, <1>7, <2>1, <2>3
  <2> QED
    BY <1>1, <1>7, <2>4, ReturnNew
<1> QED
  BY <1>5, <1>6, <1>7

(* A returned line is counted and, until a shift, is the next of the file. *)
LEMMA ReturnStep ==
  ASSUME IInv, ReturnLine
  PROVE  IInv'
<1>1. Types /\ Counted /\ Exact /\ Kept /\ FileType /\ TokenLength # -1 /\ Reading
  BY DEF IInv, Types, ReturnLine
<1>2. PICK t \in Nat : /\ t = TokenLength /\ start + t <= end
  BY <1>1, Token
<1>3. PICK tok : /\ tok = Bytes(Alias(start, t)) /\ tok = SubSeq(buf, start + 1, start + t)
                 /\ Len(tok) = t
  BY <1>1, <1>2, TokenBytes
<1>4. Returned(tok)
  BY <1>1, <1>2, <1>3, ReturnMakes
<1>5. /\ start' = After /\ lines' = lines + 1 /\ pc' = "parse"
      /\ UNCHANGED <<lengths, finalNL, offset, end, sawEOF, first, shifted>>
  BY <1>1 DEF ReturnLine, After
<1>6. /\ Data' = Data /\ (FileType' <=> FileType) /\ Len(lengths)' = Len(lengths)
      /\ Where(lines)' = Where(lines')
      /\ Gathered(first, lines)' = Gathered(first', lines')
  BY <1>5, Steady
<1>7. /\ lines # Len(lengths) /\ After \in Nat /\ start + t <= After /\ After <= end
      /\ Where(lines + 1) <= offset - (end - After)
  BY <1>1, <1>2, TokenCounts
<1>8. /\ start \in Nat /\ end \in Nat /\ start <= end /\ end <= Size /\ Size \in Nat
      /\ offset \in 0 .. Len(Data) /\ lines \in 0 .. Len(lengths) /\ first \in 1 .. lines + 1
      /\ Len(Data) \in Nat /\ Len(lengths) \in Nat
  BY <1>1, DataBytes, SizeAssumption DEF Types, FileType
<1>9. PICK s : s = After
  OBVIOUS
<1>10. Place' = Place + (s - start) /\ Place' = offset - (end - s)
  BY <1>5, <1>7, <1>8, <1>9 DEF Place
<1>11. Types'
  <2>1. lines' \in 0 .. Len(lengths) /\ first' \in 1 .. lines' + 1
    BY <1>5, <1>7, <1>8
  <2>2. /\ buf' \in Seq(Byte) /\ Len(buf') = Size /\ content' \in Slice
        /\ content'.shared => content'.from + content'.len <= Size
    BY <1>4 DEF Returned
  <2>3. /\ sawEOF' \in BOOLEAN /\ shifted' \in BOOLEAN
        /\ pc' \in {"call", "fetch", "parse", "eof", "toolong"}
        /\ offset' \in 0 .. Len(Data) /\ end' \in Nat /\ end' <= Size
    BY <1>1, <1>5 DEF Types
  <2>4. start' \in Nat /\ start' <= end'
    BY <1>5, <1>7
  <2> QED
    BY <1>1, <1>6, <2>1, <2>2, <2>3, <2>4 DEF Types
<1>12. Counted'
  <2>1. 0 <= Place' /\ Where(lines)' <= Place'
    <3>1. 0 <= Place'
      BY <1>1, <1>7, <1>8, <1>9, <1>10 DEF Counted, Place
    <3> QED
      BY <1>5, <1>6, <1>7, <1>9, <1>10, <3>1
  <2>2. sawEOF' => offset' = Len(Data)
    BY <1>1, <1>5 DEF Counted
  <2>3. ASSUME NEW k \in 1 .. end - s, buf'[s + k][2] = 0
        PROVE  Data[Place' + k][2] = 0
    <3>1. s + k \in 1 .. Size
      BY <1>7, <1>8, <1>9
    <3>2. buf[s + k][2] = 0
      BY <1>4, <2>3, <3>1 DEF Returned
    <3>3. PICK j \in 1 .. end - start : j = (s - start) + k /\ s + k = start + j
      <4>1. /\ (s - start) + k \in 1 .. end - start
            /\ s + k = start + ((s - start) + k)
        BY <1>7, <1>8, <1>9
      <4> QED
        BY <4>1
    <3>4. Data[Place + j][2] = 0
      BY <1>1, <3>2, <3>3 DEF Counted
    <3>5. Place' + k = Place + j
      BY <1>7, <1>8, <1>9, <1>10, <3>3 DEF Place
    <3> QED
      BY <3>4, <3>5
  <2> QED
    BY <1>5, <1>6, <1>9, <2>1, <2>2, <2>3 DEF Counted
<1>13. Exact'
  <2> SUFFICES ASSUME ~shifted
               PROVE  /\ Place' = Where(lines)'
                      /\ \A k \in 1 .. end - s : buf'[s + k] = Data[Place' + k]
    BY <1>5, <1>6, <1>9 DEF Exact
  <2>1. Where(lines + 1) = offset - (end - After)
    BY <1>1, TokenIsLine
  <2>2. ASSUME NEW k \in 1 .. end - s
        PROVE  buf'[s + k] = Data[Place' + k]
    <3>1. s + k \in start + t + 1 .. Size
      BY <1>7, <1>8, <1>9
    <3>2. buf'[s + k] = buf[s + k]
      BY <1>3, <1>4, <3>1 DEF Returned
    <3>3. PICK j \in 1 .. end - start : j = (s - start) + k /\ s + k = start + j
      <4>1. /\ (s - start) + k \in 1 .. end - start
            /\ s + k = start + ((s - start) + k)
        BY <1>7, <1>8, <1>9
      <4> QED
        BY <4>1
    <3>4. buf[s + k] = Data[Place + j]
      BY <1>1, <3>3 DEF Exact
    <3>5. Place' + k = Place + j
      BY <1>7, <1>8, <1>9, <1>10, <3>3 DEF Place
    <3> QED
      BY <3>2, <3>4, <3>5
  <2> QED
    BY <1>5, <1>6, <1>9, <1>10, <2>1, <2>2
<1>14. Kept'
  <2> SUFFICES ASSUME ~shifted
               PROVE  /\ content'.shared => content'.from + content'.len <= After
                      /\ Bytes(content)' = Gathered(first, lines + 1)
    BY <1>5, <1>6 DEF Kept
  <2>1. content'.shared => content'.from + content'.len <= After
    <3> SUFFICES ASSUME content'.shared PROVE content'.from + content'.len <= After
      OBVIOUS
    <3>1. content'.from + content'.len <= start + t
      BY <1>3, <1>4 DEF Returned
    <3>2. content'.from \in Nat /\ content'.len \in Nat
      BY <1>4 DEF Returned, Slice
    <3> QED
      BY <1>7, <1>8, <3>1, <3>2
  <2>2. tok = Line(lines + 1)
    BY <1>1, <1>2, <1>3, TokenIsLine
  <2>3. Gathered(first, lines + 1) = Gathered(first, lines) \o Line(lines + 1)
    BY <1>1, <1>7, <1>8, GatheredMore
  <2>4. CASE pc = "call"
    <3>1. Gathered(first, lines) = <<>>
      BY <1>1, <1>8, <2>4, GatheredNone DEF Kept
    <3>2. lines + 1 \in 1 .. Len(lengths)
      BY <1>7, <1>8
    <3>3. <<>> \o Line(lines + 1) = Line(lines + 1)
      <4>1. Line(lines + 1) \in Seq(Byte)
        BY <1>1, <3>2, LineType
      <4> QED
        BY <4>1
    <3>4. Bytes(content)' = tok
      BY <1>4, <2>4 DEF Returned
    <3> QED
      BY <2>1, <2>2, <2>3, <3>1, <3>3, <3>4
  <2>5. CASE pc # "call"
    <3>1. Bytes(content)' = Bytes(content) \o tok
      BY <1>4, <2>5 DEF Returned
    <3>2. Bytes(content) = Gathered(first, lines)
      BY <1>1 DEF Kept
    <3> QED
      BY <2>1, <2>2, <2>3, <3>1, <3>2
  <2> QED
    BY <2>4, <2>5
<1> QED
  BY <1>11, <1>12, <1>13, <1>14 DEF IInv

---------------------------------------------------------------------------
(* The theorems.                                                           *)

LEMMA InvStep == IInv /\ [Next]_vars => IInv'
<1> SUFFICES ASSUME IInv, [Next]_vars PROVE IInv'
  OBVIOUS
<1>1. ASSUME NEW n \in 0 .. Size, Refill(n) PROVE IInv'
  BY <1>1, RefillStep
<1>2. CASE TooLong \/ EndOfFile \/ Accepted \/ Skipped \/ Incomplete
  BY <1>2, QuietStep
<1>3. CASE ReturnLine
  BY <1>3, ReturnStep
<1>4. CASE UNCHANGED vars
  <2>1. /\ UNCHANGED <<lengths, finalNL, offset, buf, start, end, sawEOF, pc, lines>>
        /\ UNCHANGED <<first, content, shifted>>
    BY <1>4 DEF vars, bufferVars
  <2>2. /\ Data' = Data /\ (FileType' <=> FileType) /\ Len(lengths)' = Len(lengths)
        /\ Where(lines)' = Where(lines')
        /\ Gathered(first, lines)' = Gathered(first', lines')
    BY <2>1, Steady
  <2>3. Types'
    BY <2>1, <2>2 DEF IInv, Types
  <2>4. Counted' /\ Exact'
    BY <2>1, <2>2 DEF IInv, Counted, Exact, Place
  <2>5. Kept'
    BY <2>1, <2>2 DEF IInv, Kept, Bytes, NoContent, Own
  <2> QED
    BY <2>3, <2>4, <2>5 DEF IInv
<1> QED
  BY <1>1, <1>2, <1>3, <1>4 DEF Next, Terminated

(* The inductive invariant holds in every reachable state.                 *)
THEOREM Invariance == Spec => []IInv
  BY InitInv, InvStep, PTL DEF Spec

(* The indices stay within the buffer, no slice reaches beyond its end,    *)
(* and no more lines are returned than the file has, also when append has  *)
(* written over unread bytes.                                              *)
THEOREM TypeCorrect == Spec => []TypeOK
<1>1. IInv => TypeOK
  <2> SUFFICES ASSUME IInv PROVE TypeOK
    OBVIOUS
  <2>1. Types
    BY DEF IInv
  <2>2. DOMAIN buf = 1 .. Size
    BY <2>1 DEF Types
  <2> QED
    BY <2>1, <2>2 DEF Types, TypeOK
<1> QED
  BY <1>1, Invariance, PTL

(* Until the buffer moves under the content, Parse sees the lines of the   *)
(* file, however the reads were cut and whatever append wrote.             *)
THEOREM ContentIsTheFile == Spec => []IntactUntilShift
<1>1. IInv => IntactUntilShift
  BY DEF IInv, Kept, IntactUntilShift, Intact, Gathered
<1> QED
  BY <1>1, Invariance, PTL
===========================================================================
