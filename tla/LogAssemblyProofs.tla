------------------------- MODULE LogAssemblyProofs -------------------------
(***************************************************************************)
(* Proofs about LogAssembly, for files of any lines and any length: types, *)
(* what becomes of every line, and what a truncated line costs.            *)
(***************************************************************************)
EXTENDS LogAssembly, SequenceLemmas

---------------------------------------------------------------------------
(* The inductive invariant.                                                *)

(* The content never runs past the next line, and a call starts with none. *)
Pending ==
    /\ First \in 1 .. next
    /\ pc = "call" => First = next
    /\ pc = "parse" => First < next

(* Scan goes on with what it gathered only while that is incomplete.       *)
Gathered(last) == \A i \in First .. last : Outcome(Joined(First, i)) = "incomplete"
Gathering ==
    /\ pc = "parse" => Gathered(next - 2)
    /\ pc = "fetch" => Gathered(next - 1)

Blocks ==
    \A i \in 1 .. Len(blocks) :
        /\ BlockExact(blocks[i])
        /\ blocks[i].first = IF i = 1 THEN 1 ELSE blocks[i - 1].last + 1

(* What has been given up holds no complete log, but for its last line.    *)
NoneLost ==
    /\ \A i \in 1 .. Len(blocks) :
         \A k \in blocks[i].first .. blocks[i].last - 1 : ~Complete(file[k])
    /\ pc = "parse" => \A k \in First .. next - 2 : ~Complete(file[k])
    /\ pc = "fetch" => \A k \in First .. next - 1 : ~Complete(file[k])

IInv ==
    /\ TypeOK /\ blocks \in Seq(ToSet(blocks))
    /\ Pending
    /\ content = Joined(First, next - 1)
    /\ Gathering
    /\ Blocks
    /\ NoneLost

---------------------------------------------------------------------------
(* The parser.                                                             *)

LEMMA ClosersFinite ==
  ASSUME NEW line \in Seq(Tokens)
  PROVE  IsFiniteSet(Closers(line)) /\ Cardinality(Closers(line)) \in Nat
<1>1. IsFiniteSet(1 .. Len(line)) /\ Closers(line) \subseteq 1 .. Len(line)
  BY FS_Interval DEF Closers
<1> QED
  BY <1>1, FS_Subset, FS_CardinalityType

(* Text put before a line leaves its brackets where they are.              *)
LEMMA MoreClosers ==
  ASSUME NEW text \in Seq(Tokens), NEW line \in Seq(Tokens)
  PROVE  Cardinality(Closers(line)) <= Cardinality(Closers(text \o line))
<1> DEFINE shift == [i \in Closers(line) |-> i + Len(text)]
<1>1. text \o line \in Seq(Tokens) /\ Len(text) \in Nat
  OBVIOUS
<1>2. ASSUME NEW i \in Closers(line)
      PROVE  i + Len(text) \in Closers(text \o line)
  BY <1>1 DEF Closers
<1>3. Closers(line) \subseteq Nat
  BY DEF Closers
<1>4. shift \in Injection(Closers(line), Closers(text \o line))
  BY <1>1, <1>2, <1>3 DEF Injection, IsInjective
<1> HIDE DEF shift
<1> QED
  BY <1>1, <1>4, ClosersFinite, FS_Injection

(* A log that is complete has the brackets of all four fields, and what    *)
(* has them is not incomplete, whatever text comes before it.              *)
LEMMA CompleteEnds ==
  ASSUME NEW text \in Seq(Tokens), NEW line \in Seq(Tokens),
         Complete(line)
  PROVE  Outcome(text \o line) # "incomplete"
<1>1. Cardinality(Closers(line)) \in Nat /\ Cardinality(Closers(text \o line)) \in Nat
  <2>1. text \o line \in Seq(Tokens)
    OBVIOUS
  <2> QED
    BY <2>1, ClosersFinite
<1>2. FieldErr(line, 4) = "nil"
  BY DEF Complete, Outcome
<1>3. Cardinality(Closers(line)) >= 4
  BY <1>1, <1>2 DEF FieldErr
<1>4. Cardinality(Closers(text \o line)) >= 4
  BY <1>1, <1>3, MoreClosers
<1>5. \A k \in 1 .. 4 : FieldErr(text \o line, k) # "incomplete"
  BY <1>1, <1>4 DEF FieldErr
<1> QED
  BY <1>5 DEF Outcome

---------------------------------------------------------------------------
(* Runs of lines.                                                          *)

LEMMA JoinedNone ==
  ASSUME NEW i \in Int, NEW j \in Int, j < i
  PROVE  Joined(i, j) = <<>>
<1>1. SubSeq(file, i, j) = <<>>
  OBVIOUS
<1> QED
  BY <1>1, FlattenNone, Zenon DEF Joined

LEMMA JoinedType ==
  ASSUME file \in Seq(Seq(Tokens)), NEW i \in 1 .. Len(file) + 1, NEW j \in 0 .. Len(file)
  PROVE  Joined(i, j) \in Seq(Tokens)
<1>1. SubSeq(file, i, j) \in Seq(Seq(Tokens))
  OBVIOUS
<1> QED
  BY <1>1, FlattenType DEF Joined

LEMMA JoinedMore ==
  ASSUME file \in Seq(Seq(Tokens)), NEW n \in 1 .. Len(file), NEW i \in 1 .. n
  PROVE  Joined(i, n) = Joined(i, n - 1) \o file[n]
<1> DEFINE s == SubSeq(file, i, n - 1)
           t == SubSeq(file, i, n)
           m == n - i
<1>1. m \in Nat /\ Len(s) = m /\ Len(t) = m + 1 /\ t[m + 1] = file[n] /\ s \in Seq(Seq(Tokens))
  OBVIOUS
<1>2. \A k \in 1 .. m : s[k] = t[k]
  OBVIOUS
<1>3. file[n] \in Seq(Tokens)
  OBVIOUS
<1>4. FlattenSeq(s) = Joined(i, n - 1) /\ FlattenSeq(t) = Joined(i, n)
  BY DEF Joined
<1>5. m = 0 => s = <<>>
  BY <1>1
<1> HIDE DEF s, t, m
<1>6. Agree(s, t, m)
  BY <1>2 DEF Agree
<1>7. FlattenSeq(t) = IF m = 0 THEN t[1] ELSE FlattenSeq(s) \o t[m + 1]
  BY <1>1, <1>6, FlattenMore
<1>8. CASE m = 0
  <2>1. Joined(i, n - 1) = <<>>
    BY <1>4, <1>5, <1>8, FlattenNone
  <2>2. Joined(i, n) = file[n]
    BY <1>1, <1>4, <1>7, <1>8
  <2>3. \A l \in Seq(Tokens) : <<>> \o l = l
    OBVIOUS
  <2> QED
    BY <1>3, <2>1, <2>2, <2>3
<1>9. CASE m # 0
  BY <1>1, <1>4, <1>7, <1>9
<1> QED
  BY <1>8, <1>9

---------------------------------------------------------------------------
(* The invariant.                                                          *)

LEMMA InitInv == Init => IInv
<1> SUFFICES ASSUME Init PROVE IInv
  OBVIOUS
<1>1. file \in Seq(LineKinds)
  BY FileAssumption DEF Init, BoundedSeq, SeqOf
<1>2. TypeOK /\ blocks \in Seq(ToSet(blocks)) /\ Len(file) \in Nat
  BY <1>1 DEF Init, TypeOK
<1>3. First = 1
  BY DEF Init, First
<1>4. Joined(1, 0) = <<>>
  BY JoinedNone
<1> QED
  BY <1>2, <1>3, <1>4 DEF Init, IInv, Pending, Gathering, Blocks, NoneLost

(* What the types give.                                                    *)
LEMMA Typed ==
  ASSUME IInv
  PROVE  /\ file \in Seq(Seq(Tokens)) /\ Len(file) \in Nat
         /\ next \in 1 .. Len(file) + 1 /\ First \in 1 .. next
         /\ content \in Seq(Tokens) /\ Len(blocks) \in Nat
<1>1. file \in Seq(LineKinds) /\ Seq(LineKinds) \subseteq Seq(Seq(Tokens))
  BY LineAssumption DEF IInv, TypeOK
<1> QED
  BY <1>1 DEF IInv, TypeOK, Pending

(* The next line is added to the content.                                  *)
LEMMA ReadStep ==
  ASSUME IInv, ReadFirst \/ Fetch
  PROVE  IInv'
<1>1. /\ next <= Len(file) /\ next' = next + 1 /\ UNCHANGED <<file, blocks>>
      /\ pc \in {"call", "fetch"} /\ pc' \in {"parse", "noparser"}
  BY DEF ReadFirst, Fetch
<1>2. parser' \in {"nil", "zap"}
  BY DEF ReadFirst, Fetch, IInv, TypeOK
<1>3. /\ next \in 1 .. Len(file) /\ next' \in 1 .. Len(file) + 1
      /\ First \in 1 .. next /\ file[next] \in Seq(Tokens)
  BY <1>1, Typed
<1>4. First' = First /\ First < next'
  BY <1>1, <1>3 DEF First
<1>5. content' = content \o file[next]
  <2>1. CASE Fetch
    BY <2>1 DEF Fetch
  <2>2. CASE ReadFirst
    <3>1. content = Joined(next, next - 1) /\ next \in Int /\ next - 1 < next
      BY <1>3, <2>2 DEF ReadFirst, IInv, Pending
    <3>2. content = <<>>
      BY <3>1, JoinedNone
    <3>3. \A l \in Seq(Tokens) : <<>> \o l = l
      OBVIOUS
    <3> QED
      BY <1>3, <2>2, <3>2, <3>3 DEF ReadFirst
  <2> QED
    BY <2>1, <2>2
<1>6. content' = Joined(First, next) /\ content' \in Seq(Tokens)
  <2>1. Joined(First, next) = Joined(First, next - 1) \o file[next]
    BY <1>3, Typed, JoinedMore
  <2> QED
    BY <1>3, <1>5, <2>1, Typed DEF IInv
<1>7. TypeOK' /\ (blocks \in Seq(ToSet(blocks)))'
  <2>1. /\ file \in Seq(LineKinds) /\ blocks \in Seq(ToSet(blocks))
        /\ \A i \in 1 .. Len(blocks) : blocks[i].kind \in {"log", "skipped"}
    BY DEF IInv, TypeOK
  <2> QED
    BY <1>1, <1>2, <1>3, <1>6, <2>1 DEF TypeOK
<1>8. Pending'
  BY <1>1, <1>3, <1>4 DEF Pending
<1>9. (content = Joined(First, next - 1))'
  <2>1. (next - 1)' = next
    BY <1>1, <1>3
  <2> QED
    BY <1>1, <1>4, <1>6, <2>1 DEF Joined
<1>10. Gathering'
  <2>1. \A i \in First .. next - 1 : Outcome(Joined(First, i)) = "incomplete"
    BY <1>1, <1>3 DEF IInv, Pending, Gathering, Gathered
  <2>2. (next - 2)' = next - 1
    BY <1>1, <1>3
  <2>3. Gathered(next - 2)'
    BY <1>1, <1>4, <2>1, <2>2 DEF Gathered, Joined
  <2> QED
    BY <1>1, <2>3 DEF Gathering
<1>11. Blocks'
  BY <1>1 DEF IInv, Blocks, BlockExact, Joined
<1>12. NoneLost'
  <2>1. \A k \in First .. next - 1 : ~Complete(file[k])
    BY <1>1, <1>3 DEF IInv, Pending, NoneLost
  <2>2. (next - 2)' = next - 1
    BY <1>1, <1>3
  <2>3. \A i \in 1 .. Len(blocks) :
          \A k \in blocks[i].first .. blocks[i].last - 1 : ~Complete(file[k])
    BY DEF IInv, NoneLost
  <2> QED
    BY <1>1, <1>4, <2>1, <2>2, <2>3 DEF NoneLost
<1> QED
  BY <1>7, <1>8, <1>9, <1>10, <1>11, <1>12 DEF IInv

(* The content becomes a log, or it is skipped.                            *)
LEMMA BlockStep ==
  ASSUME IInv, ReturnLog \/ SkipContent
  PROVE  IInv'
<1>1. PICK d : /\ blocks' = Append(blocks, d) /\ d.first = First /\ d.last = next - 1
               /\ d.kind \in {"log", "skipped"}
               /\ d.kind = "skipped" => Outcome(content) = "skip"
               /\ d.kind = "log" => Outcome(content) = "nil" /\ d.log = Fields(content)
  BY DEF ReturnLog, SkipContent, Block
<1>2. /\ UNCHANGED <<file, next, parser>> /\ content' = <<>>
      /\ pc = "parse" /\ pc' \in {"call", "fetch"}
  BY DEF ReturnLog, SkipContent
<1>3. /\ blocks' \in Seq(ToSet(blocks) \cup {d}) /\ Len(blocks') = Len(blocks) + 1
      /\ ToSet(blocks') = ToSet(blocks) \cup {d}
      /\ blocks'[Len(blocks')] = d
      /\ \A i \in 1 .. Len(blocks) : blocks'[i] = blocks[i]
  <2>1. blocks \in Seq(ToSet(blocks) \cup {d})
    BY DEF IInv
  <2> QED
    BY <1>1, <2>1, AppendElement
<1>4. First' = next
  <2>1. blocks' # <<>> /\ Last(blocks') = d
    BY <1>3, Typed DEF Last
  <2>2. First' = d.last + 1
    BY <2>1 DEF First
  <2> QED
    BY <1>1, <2>2, Typed
<1>5. TypeOK' /\ (blocks \in Seq(ToSet(blocks)))'
  BY <1>1, <1>2, <1>3, Typed DEF IInv, TypeOK
<1>6. Pending'
  BY <1>2, <1>4, Typed DEF Pending
<1>7. (content = Joined(First, next - 1))'
  <2>1. SubSeq(file, next, next - 1) = <<>>
    BY Typed
  <2> QED
    BY <1>2, <1>4, <2>1, FlattenNone DEF Joined
<1>8. Gathering'
  BY <1>2, <1>4, Typed DEF Gathering, Gathered
<1>9. BlockExact(d)
  <2>1. Joined(d.first, d.last) = content /\ d.first <= d.last
    BY <1>1, <1>2, Typed DEF IInv, Pending
  <2>2. \A i \in d.first .. d.last - 1 : Outcome(Joined(d.first, i)) = "incomplete"
    BY <1>1, <1>2, Typed DEF IInv, Gathering, Gathered
  <2> QED
    BY <1>1, <2>1, <2>2 DEF BlockExact
<1>10. d.first = IF Len(blocks) + 1 = 1 THEN 1 ELSE blocks[Len(blocks)].last + 1
  BY <1>1, Typed DEF First, Last, IInv
<1>11. Blocks'
  <2>1. ASSUME NEW i \in 1 .. Len(blocks')
        PROVE  /\ BlockExact(blocks'[i])
               /\ blocks'[i].first = IF i = 1 THEN 1 ELSE blocks'[i - 1].last + 1
    <3>1. CASE i = Len(blocks) + 1
      <4>1. blocks'[i] = d /\ (i # 1 => blocks'[i - 1] = blocks[Len(blocks)])
        <5>1. i = Len(blocks') /\ i - 1 = Len(blocks) /\ Len(blocks) \in Nat
          BY <1>3, <3>1, Typed
        <5>2. i # 1 => i - 1 \in 1 .. Len(blocks)
          BY <3>1, <5>1
        <5> QED
          BY <1>3, <5>1, <5>2
      <4> QED
        BY <1>9, <1>10, <3>1, <4>1
    <3>2. CASE i \in 1 .. Len(blocks)
      <4>1. blocks'[i] = blocks[i] /\ (i # 1 => blocks'[i - 1] = blocks[i - 1])
        <5>1. Len(blocks) \in Nat /\ (i # 1 => i - 1 \in 1 .. Len(blocks))
          BY <3>2, Typed
        <5> QED
          BY <1>3, <3>2, <5>1
      <4> QED
        BY <3>2, <4>1 DEF IInv, Blocks
    <3> QED
      BY <1>3, <3>1, <3>2, Typed
  <2> QED
    BY <1>2, <2>1 DEF Blocks, BlockExact, Joined
<1>12. NoneLost'
  <2>1. ASSUME NEW i \in 1 .. Len(blocks'),
               NEW k \in blocks'[i].first .. blocks'[i].last - 1
        PROVE  ~Complete(file[k])
    <3>1. CASE i = Len(blocks) + 1
      <4>1. blocks'[i] = d
        BY <1>3, <3>1
      <4>2. k \in First .. next - 2
        BY <1>1, <4>1, Typed
      <4> QED
        BY <1>2, <4>2 DEF IInv, NoneLost
    <3>2. CASE i \in 1 .. Len(blocks)
      BY <1>3, <3>2 DEF IInv, NoneLost
    <3> QED
      BY <1>3, <3>1, <3>2, Typed
  <2> QED
    BY <1>2, <1>4, <2>1, Typed DEF NoneLost
<1> QED
  BY <1>5, <1>6, <1>7, <1>8, <1>11, <1>12 DEF IInv

(* The content is incomplete, so its last line is no complete log.         *)
LEMMA KeepStep ==
  ASSUME IInv, KeepIncomplete
  PROVE  IInv'
<1>1. /\ UNCHANGED <<file, next, parser, content, blocks>>
      /\ pc = "parse" /\ pc' = "fetch" /\ Outcome(content) = "incomplete"
  BY DEF KeepIncomplete
<1>2. First' = First
  BY <1>1 DEF First
<1>3. PICK m \in 1 .. Len(file) :
        m = next - 1 /\ m - 1 = next - 2 /\ First \in 1 .. m /\ m - 1 \in 0 .. Len(file)
  <2>1. next - 1 \in 1 .. Len(file) /\ First \in 1 .. next - 1
    BY <1>1, Typed DEF IInv, Pending
  <2>2. \A m \in 1 .. Len(file) : m = next - 1 => m - 1 = next - 2 /\ m - 1 \in 0 .. Len(file)
    BY Typed
  <2> QED
    BY <2>1, <2>2
<1>4. content = Joined(First, m)
  BY <1>3 DEF IInv
<1>5. Gathering'
  <2>1. ASSUME NEW i \in First .. m PROVE Outcome(Joined(First, i)) = "incomplete"
    <3>1. CASE i = m
      BY <1>1, <1>4, <3>1
    <3>2. CASE i # m
      BY <1>1, <1>3, <3>2 DEF IInv, Gathering, Gathered
    <3> QED
      BY <3>1, <3>2
  <2>2. (next - 1)' = m
    BY <1>1, <1>3
  <2>3. Gathered(next - 1)'
    BY <1>1, <1>2, <2>1, <2>2 DEF Gathered, Joined
  <2> QED
    BY <1>1, <2>3 DEF Gathering
<1>6. ~Complete(file[m])
  <2>1. content = Joined(First, m - 1) \o file[m]
    BY <1>3, <1>4, Typed, JoinedMore
  <2>2. file[m] \in Seq(Tokens)
    BY <1>3, Typed
  <2>3. Joined(First, m - 1) \in Seq(Tokens)
    <3>1. First \in 1 .. Len(file) + 1
      BY <1>3, Typed
    <3> QED
      BY <1>3, <3>1, Typed, JoinedType
  <2> QED
    BY <1>1, <2>1, <2>2, <2>3, CompleteEnds
<1>7. NoneLost'
  <2>1. \A k \in First .. m : ~Complete(file[k])
    BY <1>1, <1>3, <1>6 DEF IInv, NoneLost
  <2>2. (next - 1)' = m
    BY <1>1, <1>3
  <2> QED
    BY <1>1, <1>2, <2>1, <2>2 DEF IInv, NoneLost
<1>8. Blocks'
  BY <1>1 DEF IInv, Blocks, BlockExact, Joined
<1>9. Pending' /\ TypeOK' /\ (blocks \in Seq(ToSet(blocks)))'
  BY <1>1, <1>2 DEF IInv, Pending, TypeOK
<1>10. (content = Joined(First, next - 1))'
  BY <1>1, <1>2 DEF IInv, Joined
<1> QED
  BY <1>5, <1>7, <1>8, <1>9, <1>10 DEF IInv

LEMMA EndStep ==
  ASSUME IInv, ReadEOF \/ ReadError \/ UNCHANGED vars
  PROVE  IInv'
<1>1. /\ UNCHANGED <<file, next, parser, content, blocks>>
      /\ pc' = pc \/ pc' \in {"eof", "ioerror"}
  BY DEF ReadEOF, ReadError, vars
<1>2. First' = First
  BY <1>1 DEF First
<1>3. Gathering'
  BY <1>1, <1>2 DEF IInv, Gathering, Gathered, Joined
<1>4. NoneLost'
  BY <1>1, <1>2 DEF IInv, NoneLost
<1>5. Blocks'
  BY <1>1 DEF IInv, Blocks, BlockExact, Joined
<1>6. Pending' /\ TypeOK' /\ (blocks \in Seq(ToSet(blocks)))'
  BY <1>1, <1>2 DEF IInv, Pending, TypeOK
<1>7. (content = Joined(First, next - 1))'
  BY <1>1, <1>2 DEF IInv, Joined
<1> QED
  BY <1>3, <1>4, <1>5, <1>6, <1>7 DEF IInv

LEMMA InvStep == IInv /\ [Next]_vars => IInv'
  BY ReadStep, BlockStep, KeepStep, EndStep DEF Next, Terminated

(* The inductive invariant holds in every reachable state.                 *)
THEOREM Invariance == Spec => []IInv
  BY InitInv, InvStep, PTL DEF Spec

---------------------------------------------------------------------------
(* The theorems.                                                           *)

(* Every variable keeps its type, and no line beyond the file is read.     *)
THEOREM TypeCorrect == Spec => []TypeOK
<1>1. IInv => TypeOK
  BY DEF IInv
<1> QED
  BY <1>1, Invariance, PTL

(* No line is dropped in silence, used twice or moved: Scan cuts the file  *)
(* into the shortest runs of lines that make a log or have to be skipped,  *)
(* one right after the other.                                              *)
THEOREM EveryLineUsed == Spec => []BlocksExact
<1>1. IInv => BlocksExact
  <2> SUFFICES ASSUME IInv PROVE BlocksExact
    OBVIOUS
  <2>1. pc = "fetch" /\ content # <<>> => Outcome(content) = "incomplete"
    <3> SUFFICES ASSUME pc = "fetch", content # <<>> PROVE Outcome(content) = "incomplete"
      OBVIOUS
    <3>1. First <= next - 1
      BY Typed, JoinedNone DEF IInv
    <3> QED
      BY <3>1, Typed DEF IInv, Gathering, Gathered
  <2> QED
    BY <2>1 DEF IInv, Blocks, BlocksExact
<1> QED
  BY <1>1, Invariance, PTL

(* A truncated line costs at most the log of the line that follows it: of  *)
(* the lines that are skipped together, or gathered for a log, none but    *)
(* the last is a complete log.                                             *)
THEOREM InStepAgain == Spec => []AtMostOneLost
<1>1. IInv => AtMostOneLost
  BY DEF IInv, NoneLost, AtMostOneLost
<1> QED
  BY <1>1, Invariance, PTL
===========================================================================
