--------------------------- MODULE SequenceLemmas ---------------------------
(***************************************************************************)
(* What the proofs use of sequences: their elements, adding and taking     *)
(* one, concatenation and parts, and what FlattenSeq computes; and of      *)
(* recursive functions: that there is one, and induction, which is stated  *)
(* here for sets of numbers.                                               *)
(***************************************************************************)
EXTENDS Integers, Sequences, FiniteSets, SequencesExt, FiniteSetTheorems,
        WellFoundedInduction, TLAPS

---------------------------------------------------------------------------
(* Elements.                                                               *)

LEMMA ElementsEmpty == ToSet(<<>>) = {} /\ IsInjective(<<>>)
  BY DEF ToSet, IsInjective

LEMMA ElementsType ==
  ASSUME NEW S, NEW s \in Seq(S)
  PROVE  /\ ToSet(s) \subseteq S
         /\ Len(s) \in Nat /\ DOMAIN s = 1 .. Len(s)
         /\ ToSet(s) = {s[i] : i \in 1 .. Len(s)}
  BY DEF ToSet

(* Appending adds one element, a new one to an injective sequence.         *)
LEMMA AppendElement ==
  ASSUME NEW S, NEW s \in Seq(S), NEW e \in S
  PROVE  /\ Append(s, e) \in Seq(S)
         /\ Len(Append(s, e)) = Len(s) + 1
         /\ ToSet(Append(s, e)) = ToSet(s) \cup {e}
         /\ IsInjective(s) /\ e \notin ToSet(s) => IsInjective(Append(s, e))
<1>1. /\ Append(s, e) \in Seq(S) /\ Len(s) \in Nat
      /\ Len(Append(s, e)) = Len(s) + 1
      /\ DOMAIN s = 1 .. Len(s) /\ DOMAIN Append(s, e) = 1 .. Len(s) + 1
  OBVIOUS
<1>2. \A i \in 1 .. Len(s) + 1 : Append(s, e)[i] = IF i = Len(s) + 1 THEN e ELSE s[i]
  OBVIOUS
<1>3. ToSet(Append(s, e)) = ToSet(s) \cup {e}
  <2>1. ToSet(Append(s, e)) \subseteq ToSet(s) \cup {e}
    BY <1>1, <1>2 DEF ToSet
  <2>2. e \in ToSet(Append(s, e))
    <3>1. Len(s) + 1 \in 1 .. Len(s) + 1
      BY <1>1
    <3> QED
      BY <1>1, <1>2, <3>1 DEF ToSet
  <2>3. ASSUME NEW i \in 1 .. Len(s)
        PROVE  s[i] \in ToSet(Append(s, e))
    <3>1. i \in 1 .. Len(s) + 1 /\ i # Len(s) + 1
      BY <1>1
    <3> QED
      BY <1>1, <1>2, <3>1 DEF ToSet
  <2> QED
    BY <1>1, <2>1, <2>2, <2>3 DEF ToSet
<1>4. ASSUME IsInjective(s), e \notin ToSet(s)
      PROVE  IsInjective(Append(s, e))
  <2> SUFFICES ASSUME NEW i \in 1 .. Len(s) + 1, NEW j \in 1 .. Len(s) + 1,
                      Append(s, e)[i] = Append(s, e)[j]
               PROVE  i = j
    BY <1>1 DEF IsInjective
  <2> QED
    BY <1>1, <1>2, <1>4 DEF IsInjective, ToSet
<1> QED
  BY <1>1, <1>3, <1>4

(* Concatenation.                                                          *)
LEMMA Concat ==
  ASSUME NEW T, NEW s \in Seq(T), NEW t \in Seq(T)
  PROVE  /\ s \o t \in Seq(T) /\ Len(s \o t) = Len(s) + Len(t)
         /\ Len(s) \in Nat /\ Len(t) \in Nat
  OBVIOUS

LEMMA ConcatLeft ==
  ASSUME NEW T, NEW s \in Seq(T), NEW t \in Seq(T), NEW k \in 1 .. Len(s)
  PROVE  (s \o t)[k] = s[k]
  OBVIOUS

LEMMA ConcatRight ==
  ASSUME NEW T, NEW s \in Seq(T), NEW t \in Seq(T), NEW k \in 1 .. Len(t)
  PROVE  (s \o t)[Len(s) + k] = t[k]
  OBVIOUS

(* A part of a sequence that ends within it.                               *)
LEMMA Part ==
  ASSUME NEW T, NEW s \in Seq(T), NEW a \in Nat, NEW n \in Nat, a + n <= Len(s)
  PROVE  /\ SubSeq(s, a + 1, a + n) \in Seq(T)
         /\ Len(SubSeq(s, a + 1, a + n)) = n
         /\ \A k \in 1 .. n : SubSeq(s, a + 1, a + n)[k] = s[a + k]
  OBVIOUS

LEMMA SameSeq ==
  ASSUME NEW T, NEW s \in Seq(T), NEW t \in Seq(T), Len(s) = Len(t),
         \A k \in 1 .. Len(s) : s[k] = t[k]
  PROVE  s = t
  OBVIOUS

(* The same part of two sequences that agree there.                        *)
LEMMA SamePart ==
  ASSUME NEW T, NEW s \in Seq(T), NEW t \in Seq(T), NEW a \in Nat, NEW n \in Nat,
         a + n <= Len(s), a + n <= Len(t), \A k \in 1 .. n : s[a + k] = t[a + k]
  PROVE  SubSeq(s, a + 1, a + n) = SubSeq(t, a + 1, a + n)
<1> DEFINE p == SubSeq(s, a + 1, a + n)
           q == SubSeq(t, a + 1, a + n)
<1>1. p \in Seq(T) /\ Len(p) = n /\ \A k \in 1 .. n : p[k] = s[a + k]
  BY Part
<1>2. q \in Seq(T) /\ Len(q) = n /\ \A k \in 1 .. n : q[k] = t[a + k]
  BY Part
<1> HIDE DEF p, q
<1>3. p = q
  BY <1>1, <1>2, SameSeq
<1> QED
  BY <1>3 DEF p, q

(* After place a, t has the same m elements of T as s and then the n of u. *)
Continues(T, s, t, u, a, m, n) ==
    /\ s \in Seq(T) /\ t \in Seq(T) /\ u \in Seq(T)
    /\ a \in Nat /\ m \in Nat /\ n \in Nat /\ n = Len(u)
    /\ a + m <= Len(s) /\ a + m + n <= Len(t)
    /\ \A k \in 1 .. m : t[a + k] = s[a + k]
    /\ \A k \in 1 .. n : t[a + (m + k)] = u[k]

Joins(s, t, u, a, m, n) ==
    SubSeq(t, a + 1, a + (m + n)) = SubSeq(s, a + 1, a + m) \o u

LEMMA PartMore ==
  ASSUME NEW T, NEW s, NEW t, NEW u, NEW a, NEW m, NEW n,
         Continues(T, s, t, u, a, m, n)
  PROVE  Joins(s, t, u, a, m, n)
<1>0. /\ s \in Seq(T) /\ t \in Seq(T) /\ u \in Seq(T) /\ Len(u) = n
      /\ a \in Nat /\ m \in Nat /\ n \in Nat
      /\ a + m <= Len(s) /\ a + m + n <= Len(t)
      /\ \A k \in 1 .. m : t[a + k] = s[a + k]
      /\ \A k \in 1 .. n : t[a + (m + k)] = u[k]
  BY DEF Continues
<1>1. PICK p : p = SubSeq(s, a + 1, a + m)
  OBVIOUS
<1>2. PICK q : q = SubSeq(t, a + 1, a + (m + n))
  OBVIOUS
<1>3. p \in Seq(T) /\ Len(p) = m /\ \A k \in 1 .. m : p[k] = s[a + k]
  BY <1>0, <1>1, Part
<1>4. PICK l \in Nat : l = m + n
  BY <1>0
<1>5. q \in Seq(T) /\ Len(q) = l /\ \A k \in 1 .. l : q[k] = t[a + k]
  <2>1. a + l <= Len(t)
    BY <1>0, <1>4
  <2>2. /\ SubSeq(t, a + 1, a + l) \in Seq(T) /\ Len(SubSeq(t, a + 1, a + l)) = l
        /\ \A k \in 1 .. l : SubSeq(t, a + 1, a + l)[k] = t[a + k]
    BY <1>0, <2>1, Part
  <2> QED
    BY <1>2, <1>4, <2>2
<1>6. p \o u \in Seq(T) /\ Len(p \o u) = l
  BY <1>0, <1>3, <1>4, Concat
<1>7. ASSUME NEW k \in 1 .. l
      PROVE  q[k] = (p \o u)[k]
  <2>1. CASE k <= m
    <3>1. k \in 1 .. m /\ k \in 1 .. Len(p)
      BY <1>0, <1>3, <2>1
    <3>2. (p \o u)[k] = p[k]
      BY <1>0, <1>3, <3>1, ConcatLeft
    <3> QED
      BY <1>0, <1>3, <1>5, <3>1, <3>2
  <2>2. CASE k > m
    <3>1. PICK j \in 1 .. n : k = m + j
      <4>1. k - m \in 1 .. n /\ k = m + (k - m)
        BY <1>0, <1>4, <2>2
      <4> QED
        BY <4>1
    <3>2. (p \o u)[Len(p) + j] = u[j]
      <4>1. j \in 1 .. Len(u)
        BY <1>0
      <4>2. p \in Seq(T) /\ u \in Seq(T)
        BY <1>0, <1>3
      <4> QED
        BY <4>1, <4>2, ConcatRight, Zenon
    <3> QED
      BY <1>0, <1>3, <1>5, <3>1, <3>2
  <2>3. k <= m \/ k > m
    BY <1>0
  <2> QED
    BY <2>1, <2>2, <2>3, Zenon
<1>8. q = p \o u
  BY <1>5, <1>6, <1>7, SameSeq
<1> QED
  BY <1>1, <1>2, <1>8 DEF Joins

(* Taking the head leaves the other elements, without the head if the      *)
(* sequence is injective.                                                  *)
LEMMA TakeElement ==
  ASSUME NEW S, NEW s \in Seq(S), s # <<>>
  PROVE  /\ Head(s) \in S /\ Tail(s) \in Seq(S)
         /\ Len(Tail(s)) = Len(s) - 1 /\ Len(s) \in Nat \ {0}
         /\ ToSet(s) = ToSet(Tail(s)) \cup {Head(s)}
         /\ IsInjective(s) => IsInjective(Tail(s)) /\ Head(s) \notin ToSet(Tail(s))
<1>1. /\ Head(s) \in S /\ Tail(s) \in Seq(S) /\ Head(s) = s[1]
      /\ Len(Tail(s)) = Len(s) - 1 /\ Len(s) \in Nat \ {0}
      /\ DOMAIN s = 1 .. Len(s) /\ DOMAIN Tail(s) = 1 .. Len(s) - 1
  OBVIOUS
<1>2. \A i \in 1 .. Len(s) - 1 : Tail(s)[i] = s[i + 1]
  OBVIOUS
<1>3. ToSet(s) \subseteq ToSet(Tail(s)) \cup {Head(s)}
  <2> SUFFICES ASSUME NEW i \in 1 .. Len(s), i # 1
               PROVE  s[i] \in ToSet(Tail(s))
    BY <1>1 DEF ToSet
  <2>1. i - 1 \in 1 .. Len(s) - 1 /\ i = (i - 1) + 1
    BY <1>1
  <2>2. Tail(s)[i - 1] = s[i]
    BY <1>2, <2>1
  <2> QED
    BY <1>1, <2>1, <2>2 DEF ToSet
<1>4. ToSet(Tail(s)) \cup {Head(s)} \subseteq ToSet(s)
  <2>1. ASSUME NEW i \in 1 .. Len(s) - 1
        PROVE  Tail(s)[i] \in ToSet(s)
    <3>1. i + 1 \in 1 .. Len(s)
      BY <1>1
    <3> QED
      BY <1>1, <1>2, <3>1 DEF ToSet
  <2>2. 1 \in 1 .. Len(s)
    BY <1>1
  <2> QED
    BY <1>1, <2>1, <2>2 DEF ToSet
<1>5. ASSUME IsInjective(s)
      PROVE  IsInjective(Tail(s)) /\ Head(s) \notin ToSet(Tail(s))
  <2>1. \A i, j \in 1 .. Len(s) : s[i] = s[j] => i = j
    BY <1>1, <1>5 DEF IsInjective
  <2>2. \A i \in 1 .. Len(s) - 1 : i + 1 \in 1 .. Len(s) /\ i + 1 # 1
    BY <1>1
  <2>3. ASSUME NEW i \in 1 .. Len(s) - 1, NEW j \in 1 .. Len(s) - 1, Tail(s)[i] = Tail(s)[j]
        PROVE  i = j
    <3>1. i + 1 = j + 1
      BY <1>2, <2>1, <2>2, <2>3
    <3> QED
      BY <3>1
  <2>4. ASSUME NEW i \in 1 .. Len(s) - 1
        PROVE  Tail(s)[i] # Head(s)
    <3>1. 1 \in 1 .. Len(s) /\ Tail(s)[i] = s[i + 1]
      BY <1>1, <1>2
    <3> QED
      BY <1>1, <2>1, <2>2, <3>1
  <2> QED
    BY <1>1, <2>3, <2>4 DEF IsInjective, ToSet
<1> QED
  BY <1>1, <1>3, <1>4, <1>5

(* An injective sequence over a finite set that misses an element of it is *)
(* shorter than the set.                                                   *)
LEMMA InjectiveShort ==
  ASSUME NEW S, IsFiniteSet(S), NEW s \in Seq(S), IsInjective(s)
  PROVE  /\ Len(s) <= Cardinality(S)
         /\ \A e \in S : e \notin ToSet(s) => Len(s) < Cardinality(S)
<1>1. /\ s \in Injection(1 .. Len(s), ToSet(s)) /\ Len(s) \in Nat
      /\ ToSet(s) \in SUBSET S
  BY ElementsType DEF Injection, ToSet
<1>2. ASSUME NEW T \in SUBSET S, ToSet(s) \subseteq T
      PROVE  IsFiniteSet(T) /\ Len(s) <= Cardinality(T)
  <2>1. s \in Injection(1 .. Len(s), T)
    BY <1>1, <1>2 DEF Injection
  <2>2. IsFiniteSet(T)
    BY FS_Subset
  <2>3. Cardinality(1 .. Len(s)) <= Cardinality(T)
    BY <2>1, <2>2, FS_Injection
  <2>4. Cardinality(1 .. Len(s)) = Len(s)
    <3>1. \A n \in Nat : Cardinality(1 .. n) = IF 1 <= n THEN n - 1 + 1 ELSE 0
      BY FS_Interval
    <3> QED
      BY <1>1, <3>1
  <2> QED
    BY <2>2, <2>3, <2>4
<1>3. ASSUME NEW e \in S, e \notin ToSet(s)
      PROVE  Len(s) < Cardinality(S)
  <2>1. Len(s) <= Cardinality(S \ {e})
    BY <1>1, <1>2, <1>3
  <2>2. Cardinality(S \ {e}) = Cardinality(S) - 1
    BY FS_RemoveElement
  <2>3. Cardinality(S) \in Nat
    BY FS_CardinalityType
  <2> QED
    BY <1>1, <2>1, <2>2, <2>3
<1> QED
  BY <1>1, <1>2, <1>3

---------------------------------------------------------------------------
(* Induction over the numbers in a set.                                    *)

LEMMA Induction ==
  ASSUME NEW S, 0 \in S, \A n \in Nat : n \in S => n + 1 \in S
  PROVE  Nat \subseteq S
<1> DEFINE less == {ss \in Nat \X Nat : ss[1] < ss[2]}
<1> SUFFICES ASSUME Nat \ S # {} PROVE FALSE
  OBVIOUS
<1>1. IsWellFoundedOn(less, Nat)
  BY NatLessThanWellFounded DEF OpToRel
<1> HIDE DEF less
<1>2. PICK x \in Nat \ S : \A y \in Nat \ S : <<y, x>> \notin less
  BY <1>1, WFMin
<1>3. x - 1 \in Nat /\ x - 1 < x /\ x = (x - 1) + 1
  OBVIOUS
<1>4. <<x - 1, x>> \in less
  BY <1>3 DEF less
<1>5. x - 1 \notin S
  BY <1>3
<1> QED
  BY <1>2, <1>3, <1>4, <1>5

(* A set of numbers has a smallest one.                                    *)
LEMMA Least ==
  ASSUME NEW S \in SUBSET Nat, S # {}
  PROVE  Min(S) \in S /\ \A x \in S : Min(S) <= x
<1> SUFFICES \E x \in S : \A y \in S : x <= y
  BY DEF Min
<1> DEFINE T == {n \in Nat : \A m \in 0 .. n : m \notin S}
<1> SUFFICES ASSUME \A x \in S : \E y \in S : y < x PROVE FALSE
  OBVIOUS
<1>1. 0 \in T
  OBVIOUS
<1>2. ASSUME NEW n \in Nat, n \in T PROVE n + 1 \in T
  <2>1. n + 1 \notin S
    <3> SUFFICES ASSUME n + 1 \in S PROVE FALSE
      OBVIOUS
    <3>1. PICK y \in S : y < n + 1
      OBVIOUS
    <3>2. y \in 0 .. n
      BY <3>1
    <3> QED
      BY <1>2, <3>2
  <2>2. \A m \in 0 .. n + 1 : m \in 0 .. n \/ m = n + 1
    OBVIOUS
  <2> QED
    BY <1>2, <2>1, <2>2
<1> HIDE DEF T
<1>3. Nat \subseteq T
  BY <1>1, <1>2, Induction
<1>4. PICK x \in S : TRUE
  OBVIOUS
<1>5. x \in T /\ x \in 0 .. x
  BY <1>3
<1> QED
  BY <1>4, <1>5 DEF T

(* Induction downwards: i has what all numbers between i and n have.       *)
LEMMA Countdown ==
  ASSUME NEW n \in Nat, NEW S,
         \A i \in 1 .. n : (\A k \in i + 1 .. n : k \in S) => i \in S
  PROVE  \A i \in 1 .. n : i \in S
<1> DEFINE T == {d \in Nat : \A i \in 1 .. n : i > n - d => i \in S}
<1>1. 0 \in T
  OBVIOUS
<1>2. ASSUME NEW d \in Nat, d \in T PROVE d + 1 \in T
  <2> SUFFICES ASSUME NEW i \in 1 .. n, i > n - (d + 1) PROVE i \in S
    OBVIOUS
  <2>1. \A k \in i + 1 .. n : k \in 1 .. n /\ k > n - d
    OBVIOUS
  <2>2. \A k \in i + 1 .. n : k \in S
    BY <1>2, <2>1
  <2> QED
    BY <2>2
<1> HIDE DEF T
<1>3. n \in T
  BY <1>1, <1>2, Induction
<1>4. \A i \in 1 .. n : i > n - n
  OBVIOUS
<1> QED
  BY <1>3, <1>4 DEF T

(* The body F of a recursive definition of a function from D to V: F[x][f] *)
(* is its value at x when f stands for the function.  The recursion goes   *)
(* down in the measure m, which is at most b.                              *)
Recurses(D, V, b, m, F) ==
    /\ b \in Nat /\ m \in [D -> 0 .. b] /\ V # {}
    /\ \A x \in D : \A f \in [D -> V] : F[x][f] \in V
    /\ \A x \in D : \A f, g \in [D -> V] :
          (\A y \in D : m[y] < m[x] => f[y] = g[y]) => F[x][f] = F[x][g]

(* Such a definition has a solution.                                       *)
LEMMA Recursion ==
  ASSUME NEW D, NEW V, NEW b, NEW m, NEW F, Recurses(D, V, b, m, F)
  PROVE  \E f \in [D -> V] : \A x \in D : f[x] = F[x][f]
<1> USE DEF Recurses
<1>0. PICK v \in V : TRUE
  OBVIOUS
<1> DEFINE Solves(f, k) == \A x \in D : m[x] < k => f[x] = F[x][f]
           S == {k \in Nat : \E f \in [D -> V] : Solves(f, k)}
<1>1. 0 \in S
  <2>1. [x \in D |-> v] \in [D -> V] /\ \A x \in D : ~(m[x] < 0)
    OBVIOUS
  <2> QED
    BY <2>1
<1>2. ASSUME NEW k \in Nat, k \in S PROVE k + 1 \in S
  <2>1. PICK f \in [D -> V] : Solves(f, k)
    BY <1>2
  <2> DEFINE g == [x \in D |-> F[x][f]]
  <2>2. g \in [D -> V] /\ \A x \in D : g[x] = F[x][f]
    OBVIOUS
  <2> HIDE DEF g
  <2>3. ASSUME NEW x \in D, m[x] < k + 1 PROVE g[x] = F[x][g]
    <3>1. \A y \in D : m[y] < m[x] => m[y] < k
      BY <2>3
    <3>2. \A y \in D : m[y] < m[x] => f[y] = g[y]
      BY <2>1, <2>2, <3>1
    <3>3. F[x][f] = F[x][g]
      BY <2>2, <3>2
    <3> QED
      BY <2>2, <3>3
  <2> QED
    BY <2>2, <2>3
<1> HIDE DEF S
<1>3. b + 1 \in S
  BY <1>1, <1>2, Induction
<1>4. \A x \in D : m[x] < b + 1
  OBVIOUS
<1> QED
  BY <1>3, <1>4 DEF S

---------------------------------------------------------------------------
(* FlattenSeq.                                                             *)

(* f is the function that FlattenSeq defines for the first n of seqs.      *)
Flat(seqs, n, f) ==
    f = [i \in 1 .. n |-> IF i = 1 THEN seqs[i] ELSE f[i - 1] \o seqs[i]]

(* s and t begin with the same m elements.                                 *)
Agree(s, t, m) == \A i \in 1 .. m : s[i] = t[i]

LEMMA FlatUnique ==
  ASSUME NEW s, NEW t, NEW m \in Nat, NEW n \in Nat, NEW f, NEW g,
         m <= n, \A i \in 1 .. m : s[i] = t[i], Flat(s, m, f), Flat(t, n, g)
  PROVE  \A i \in 1 .. m : f[i] = g[i]
<1> DEFINE S == {i \in Nat : i \in 1 .. m => f[i] = g[i]}
<1>1. 0 \in S
  OBVIOUS
<1>2. ASSUME NEW i \in Nat, i \in S PROVE i + 1 \in S
  <2>1. CASE i = 0
    BY <2>1 DEF Flat
  <2>2. CASE i # 0 /\ i + 1 \in 1 .. m
    <3>1. i \in 1 .. m /\ i + 1 # 1 /\ (i + 1) - 1 = i /\ i + 1 \in 1 .. n
      BY <2>2
    <3>2. /\ f[i + 1] = f[(i + 1) - 1] \o s[i + 1]
          /\ g[i + 1] = g[(i + 1) - 1] \o t[i + 1]
      BY <3>1, <2>2 DEF Flat
    <3>3. f[i] = g[i] /\ s[i + 1] = t[i + 1]
      BY <3>1, <1>2, <2>2
    <3>4. f[i + 1] = g[i + 1]
      BY <3>1, <3>2, <3>3
    <3> QED
      BY <3>4
  <2> QED
    BY <2>1, <2>2
<1> HIDE DEF S
<1>3. Nat \subseteq S
  BY <1>1, <1>2, Induction
<1> QED
  BY <1>3 DEF S

LEMMA FlatExists ==
  ASSUME NEW seqs, NEW n \in Nat
  PROVE  \E f : Flat(seqs, n, f)
<1> DEFINE S == {m \in Nat : \E f : Flat(seqs, m, f)}
<1>1. 0 \in S
  <2>1. Flat(seqs, 0, <<>>)
    BY DEF Flat
  <2> QED
    BY <2>1
<1>2. ASSUME NEW m \in Nat, m \in S PROVE m + 1 \in S
  <2>1. PICK f : Flat(seqs, m, f)
    BY <1>2
  <2> DEFINE g == [i \in 1 .. m + 1 |->
                     IF i <= m THEN f[i] ELSE IF i = 1 THEN seqs[i] ELSE f[m] \o seqs[i]]
  <2>2. ASSUME NEW i \in 1 .. m + 1
        PROVE  g[i] = IF i = 1 THEN seqs[i] ELSE g[i - 1] \o seqs[i]
    <3>1. CASE i = m + 1
      BY <3>1
    <3>2. CASE i \in 1 .. m
      <4>1. f[i] = IF i = 1 THEN seqs[i] ELSE f[i - 1] \o seqs[i]
        BY <2>1, <3>2 DEF Flat
      <4>2. g[i] = f[i] /\ (i # 1 => g[i - 1] = f[i - 1])
        BY <3>2
      <4> HIDE DEF g
      <4> QED
        BY <4>1, <4>2
    <3> QED
      BY <3>1, <3>2
  <2>3. g = [i \in 1 .. m + 1 |-> g[i]]
    OBVIOUS
  <2> HIDE DEF g
  <2>4. Flat(seqs, m + 1, g)
    BY <2>2, <2>3 DEF Flat
  <2> QED
    BY <2>4
<1> HIDE DEF S
<1>3. Nat \subseteq S
  BY <1>1, <1>2, Induction
<1> QED
  BY <1>3 DEF S

LEMMA FlattenIsFlat ==
  ASSUME NEW seqs, Len(seqs) \in Nat \ {0}
  PROVE  \E f : Flat(seqs, Len(seqs), f) /\ FlattenSeq(seqs) = f[Len(seqs)]
<1> DEFINE h == CHOOSE f : Flat(seqs, Len(seqs), f)
<1>1. Flat(seqs, Len(seqs), h)
  BY FlatExists
<1>2. FlattenSeq(seqs) = h[Len(seqs)]
  BY DEF FlattenSeq, Flat
<1> QED
  BY <1>1, <1>2

(* No sequences make the empty one.                                        *)
LEMMA FlattenNone == FlattenSeq(<<>>) = <<>>
  BY DEF FlattenSeq

LEMMA FlatMore ==
  ASSUME NEW s, NEW t, NEW m \in Nat, NEW f, NEW g,
         Agree(s, t, m), m # 0 => Flat(s, m, f), Flat(t, m + 1, g)
  PROVE  g[m + 1] = IF m = 0 THEN t[1] ELSE f[m] \o t[m + 1]
<1>1. CASE m = 0
  BY <1>1 DEF Flat
<1>2. CASE m # 0
  <2>1. \A i \in 1 .. m : s[i] = t[i]
    BY DEF Agree
  <2>2. m + 1 \in Nat /\ m <= m + 1
    OBVIOUS
  <2>3. \A i \in 1 .. m : f[i] = g[i]
    BY <1>2, <2>1, <2>2, FlatUnique
  <2>4. m + 1 \in 1 .. m + 1 /\ m + 1 # 1 /\ (m + 1) - 1 = m /\ m \in 1 .. m
    BY <1>2
  <2>5. g[m + 1] = g[(m + 1) - 1] \o t[m + 1]
    BY <2>4 DEF Flat
  <2> QED
    BY <1>2, <2>3, <2>4, <2>5
<1> QED
  BY <1>1, <1>2

(* One sequence more is one more at the end.                               *)
LEMMA FlattenMore ==
  ASSUME NEW s, NEW t, NEW m \in Nat, Len(s) = m, Len(t) = m + 1, Agree(s, t, m)
  PROVE  FlattenSeq(t) = IF m = 0 THEN t[1] ELSE FlattenSeq(s) \o t[m + 1]
<1>1. PICK g : Flat(t, m + 1, g) /\ FlattenSeq(t) = g[m + 1]
  <2>1. Len(t) \in Nat \ {0}
    OBVIOUS
  <2> QED
    BY <2>1, FlattenIsFlat
<1>2. PICK f : m # 0 => Flat(s, m, f) /\ FlattenSeq(s) = f[m]
  <2>1. CASE m # 0
    <3>1. Len(s) \in Nat \ {0}
      BY <2>1
    <3> QED
      BY <3>1, FlattenIsFlat
  <2> QED
    BY <2>1
<1>3. g[m + 1] = IF m = 0 THEN t[1] ELSE f[m] \o t[m + 1]
  BY <1>1, <1>2, FlatMore
<1> QED
  BY <1>1, <1>2, <1>3

(* What is flattened is a sequence of the same elements.                   *)
LEMMA FlattenType ==
  ASSUME NEW T, NEW seqs \in Seq(Seq(T))
  PROVE  FlattenSeq(seqs) \in Seq(T)
<1>1. CASE seqs = <<>>
  <2>1. FlattenSeq(seqs) = <<>>
    BY <1>1, FlattenNone, Zenon
  <2> QED
    BY <2>1
<1>2. CASE seqs # <<>>
  <2>1. Len(seqs) \in Nat \ {0}
    BY <1>2
  <2>2. PICK f : Flat(seqs, Len(seqs), f) /\ FlattenSeq(seqs) = f[Len(seqs)]
    BY <2>1, FlattenIsFlat
  <2> DEFINE S == {i \in Nat : i \in 1 .. Len(seqs) => f[i] \in Seq(T)}
  <2>3. 0 \in S
    OBVIOUS
  <2>4. ASSUME NEW i \in Nat, i \in S PROVE i + 1 \in S
    <3> SUFFICES ASSUME i + 1 \in 1 .. Len(seqs) PROVE f[i + 1] \in Seq(T)
      OBVIOUS
    <3>1. f[i + 1] = IF i + 1 = 1 THEN seqs[i + 1] ELSE f[(i + 1) - 1] \o seqs[i + 1]
      BY <2>2 DEF Flat
    <3>2. seqs[i + 1] \in Seq(T)
      OBVIOUS
    <3>3. CASE i = 0
      BY <3>1, <3>2, <3>3
    <3>4. CASE i # 0
      <4>1. f[i] \in Seq(T) /\ (i + 1) - 1 = i /\ i + 1 # 1
        BY <2>1, <2>4, <3>4
      <4>2. f[i + 1] = f[i] \o seqs[i + 1]
        BY <3>1, <4>1
      <4> QED
        BY <3>2, <4>1, <4>2
    <3> QED
      BY <3>3, <3>4
  <2> HIDE DEF S
  <2>5. Nat \subseteq S
    BY <2>3, <2>4, Induction
  <2>6. Len(seqs) \in S /\ Len(seqs) \in 1 .. Len(seqs)
    BY <2>1, <2>5
  <2> QED
    BY <2>2, <2>6 DEF S
<1> QED
  BY <1>1, <1>2
===========================================================================
