------------------------- MODULE CallMatchingProofs -------------------------
(***************************************************************************)
(* Proofs about PatternTrie and CallMatching.                              *)
(***************************************************************************)
EXTENDS CallMatching, SequenceLemmas

---------------------------------------------------------------------------
(* Placeholders and paths.                                                 *)

(* Where the placeholder that the "%" at place i of key begins ends, if    *)
(* the bytes of V end one: what is printed for a verb, and what the path   *)
(* takes for it.                                                           *)
EndAt(key, i, V) ==
    LET verb == SelectInSubSeq(key, i + 1, Len(key), LAMBDA b : b \in V)
    IN  IF verb = 0 THEN Len(key) + 1 ELSE verb + 1

VerbEnd(key, i) == EndAt(key, i, Verbs)

TakenEnd(key, i) == EndAt(key, i, Taken)

(* EndAt is after the first byte of V, or at the end of the key.           *)
LEMMA EndAtIs ==
  ASSUME NEW V, NEW key \in Seq(Bytes), NEW i \in 1 .. Len(key)
  PROVE  \/ /\ EndAt(key, i, V) = Len(key) + 1
            /\ \A k \in i + 1 .. Len(key) : key[k] \notin V
         \/ \E v \in i + 1 .. Len(key) :
               /\ EndAt(key, i, V) = v + 1 /\ key[v] \in V
               /\ \A k \in i + 1 .. v - 1 : key[k] \notin V
<1> DEFINE J == {k \in i + 1 .. Len(key) : key[k] \in V}
<1>1. SelectInSubSeq(key, i + 1, Len(key), LAMBDA b : b \in V) = IF J # {} THEN Min(J) ELSE 0
  BY DEF SelectInSubSeq
<1>2. J \subseteq i + 1 .. Len(key) /\ \A k \in i + 1 .. Len(key) : key[k] \in V <=> k \in J
  OBVIOUS
<1> HIDE DEF J
<1>3. CASE J = {}
  BY <1>1, <1>2, <1>3 DEF EndAt
<1>4. CASE J # {}
  <2>1. J \subseteq Nat
    BY <1>2
  <2>2. PICK v \in J : v = Min(J) /\ \A x \in J : v <= x
    BY <1>4, <2>1, Least
  <2>3. v \in i + 1 .. Len(key) /\ v # 0 /\ key[v] \in V
    BY <1>2, <2>2
  <2>4. EndAt(key, i, V) = v + 1
    BY <1>1, <1>4, <2>2, <2>3 DEF EndAt
  <2>5. \A k \in i + 1 .. v - 1 : key[k] \notin V
    BY <1>2, <2>2, <2>3
  <2> QED
    BY <2>3, <2>4, <2>5
<1> QED
  BY <1>3, <1>4

LEMMA SelectFirst ==
  ASSUME NEW key \in Seq(Bytes), NEW i \in 1 .. Len(key)
  PROVE  LET rest == SubSeq(key, i + 1, Len(key))
             verb == SelectInSeq(rest, LAMBDA b : b \in Taken)
             place == SelectInSubSeq(key, i + 1, Len(key), LAMBDA b : b \in Taken)
         IN  /\ verb = 0 => place = 0
             /\ verb # 0 => verb \in 1 .. Len(key) - i /\ place = i + verb
<1> DEFINE rest == SubSeq(key, i + 1, Len(key))
           I == {k \in 1 .. Len(rest) : rest[k] \in Taken}
           J == {k \in i + 1 .. Len(key) : key[k] \in Taken}
<1>1. /\ Len(rest) = Len(key) - i /\ Len(key) \in Nat
      /\ \A k \in 1 .. Len(key) - i : rest[k] = key[i + k]
  OBVIOUS
<1>2. /\ SelectInSeq(rest, LAMBDA b : b \in Taken) = IF I # {} THEN Min(I) ELSE 0
      /\ SelectInSubSeq(key, i + 1, Len(key), LAMBDA b : b \in Taken) = IF J # {} THEN Min(J) ELSE 0
  BY DEF SelectInSeq, SelectInSubSeq
<1>3. \A k \in 1 .. Len(key) - i : k \in I <=> i + k \in J
  BY <1>1
<1>4. I \subseteq 1 .. Len(key) - i /\ J \subseteq i + 1 .. Len(key)
  BY <1>1
<1>5. \A k \in i + 1 .. Len(key) : k - i \in 1 .. Len(key) - i /\ k = i + (k - i)
  OBVIOUS
<1> HIDE DEF I, J, rest
<1>6. CASE I = {}
  <2>1. J = {}
    BY <1>3, <1>4, <1>5, <1>6
  <2> QED
    BY <1>2, <1>6, <2>1 DEF rest
<1>7. CASE I # {}
  <2>1. Min(I) \in I /\ \A x \in I : Min(I) <= x
    BY <1>1, <1>4, <1>7, Least
  <2>2. i + Min(I) \in J
    BY <1>3, <1>4, <2>1
  <2>3. Min(J) \in J /\ \A x \in J : Min(J) <= x
    <3>1. J \subseteq Nat /\ J # {}
      BY <1>4, <2>2
    <3> QED
      BY <3>1, Least
  <2>4. Min(J) - i \in I /\ Min(J) \in i + 1 .. Len(key) /\ Min(I) \in 1 .. Len(key) - i
    BY <1>3, <1>4, <1>5, <2>1, <2>3
  <2>5. Min(J) = i + Min(I)
    BY <2>1, <2>2, <2>3, <2>4
  <2> QED
    BY <1>2, <1>7, <2>2, <2>4, <2>5 DEF rest
<1> QED
  BY <1>6, <1>7

(* What Path takes for a placeholder.                                      *)
LEMMA PlaceholderIs ==
  ASSUME NEW key \in Seq(Bytes), NEW i \in 1 .. Len(key)
  PROVE  LET ph == Placeholder(SubSeq(key, i + 1, Len(key)))
         IN  IF i < Len(key) /\ key[i + 1] = "%"
             THEN ph[1] = 1 /\ ph[2] = "%"
             ELSE /\ ph[1] \in 0 .. Len(key) - i /\ ph[2] = "*"
                  /\ i + ph[1] + 1 = TakenEnd(key, i)
<1> DEFINE rest == SubSeq(key, i + 1, Len(key))
           verb == SelectInSeq(rest, LAMBDA b : b \in Taken)
           place == SelectInSubSeq(key, i + 1, Len(key), LAMBDA b : b \in Taken)
<1>1. /\ rest \in Seq(Bytes) /\ Len(rest) = Len(key) - i
      /\ \A k \in 1 .. Len(rest) : rest[k] = key[i + k]
  OBVIOUS
<1>2. Placeholder(rest) =
        IF rest = <<>> THEN <<0, "*">>
        ELSE IF rest[1] = "%" THEN <<1, "%">>
        ELSE IF verb # 0 THEN <<verb, "*">>
        ELSE <<Len(rest), "*">>
  BY DEF Placeholder
<1>3. /\ verb = 0 => place = 0
      /\ verb # 0 => verb \in 1 .. Len(key) - i /\ place = i + verb
  BY SelectFirst
<1>4. TakenEnd(key, i) = IF place = 0 THEN Len(key) + 1 ELSE place + 1
  BY DEF TakenEnd, EndAt
<1> HIDE DEF rest, verb, place
<1>5. rest = <<>> <=> i = Len(key)
  BY <1>1
<1> SUFFICES LET ph == Placeholder(rest)
             IN  IF i < Len(key) /\ key[i + 1] = "%"
                 THEN ph[1] = 1 /\ ph[2] = "%"
                 ELSE /\ ph[1] \in 0 .. Len(key) - i /\ ph[2] = "*"
                      /\ i + ph[1] + 1 = TakenEnd(key, i)
  BY DEF rest
<1>6. CASE i = Len(key)
  <2>1. verb = 0
    BY <1>3, <1>6
  <2> QED
    BY <1>2, <1>3, <1>4, <1>5, <1>6, <2>1
<1>7. CASE i < Len(key)
  <2>1. rest[1] = key[i + 1] /\ rest # <<>>
    BY <1>1, <1>5, <1>7
  <2>2. CASE key[i + 1] = "%"
    BY <1>2, <1>7, <2>1, <2>2
  <2>3. CASE key[i + 1] # "%" /\ verb = 0
    <3>1. Placeholder(rest) = <<Len(rest), "*">>
      BY <1>2, <2>1, <2>3
    <3> QED
      BY <1>1, <1>3, <1>4, <2>3, <3>1
  <2>4. CASE key[i + 1] # "%" /\ verb # 0
    <3>1. Placeholder(rest) = <<verb, "*">>
      BY <1>2, <2>1, <2>4
    <3> QED
      BY <1>3, <1>4, <2>4, <3>1
  <2> QED
    BY <2>2, <2>3, <2>4
<1> QED
  BY <1>6, <1>7

(* The symbol that the byte at place i of key makes in the path, and where *)
(* the next one begins.                                                    *)
Symbol(key, i) ==
    IF key[i] # "%" THEN key[i] ELSE Placeholder(SubSeq(key, i + 1, Len(key)))[2]

After(key, i) ==
    IF key[i] # "%" THEN i + 1 ELSE i + Placeholder(SubSeq(key, i + 1, Len(key)))[1] + 1

LEMMA SymbolIs ==
  ASSUME NEW key \in Seq(Bytes), NEW i \in 1 .. Len(key)
  PROVE  /\ After(key, i) \in i + 1 .. Len(key) + 1 /\ Symbol(key, i) \in Bytes
         /\ key[i] # "%" => Symbol(key, i) = key[i] /\ After(key, i) = i + 1
         /\ key[i] = "%" /\ i < Len(key) /\ key[i + 1] = "%" =>
              Symbol(key, i) = "%" /\ After(key, i) = i + 2
         /\ key[i] = "%" /\ ~(i < Len(key) /\ key[i + 1] = "%") =>
              Symbol(key, i) = "*" /\ After(key, i) = TakenEnd(key, i)
<1>1. PICK ph : ph = Placeholder(SubSeq(key, i + 1, Len(key)))
  OBVIOUS
<1>2. IF i < Len(key) /\ key[i + 1] = "%"
      THEN ph[1] = 1 /\ ph[2] = "%"
      ELSE /\ ph[1] \in 0 .. Len(key) - i /\ ph[2] = "*"
           /\ i + ph[1] + 1 = TakenEnd(key, i)
  BY <1>1, PlaceholderIs
<1>3. key[i] \in Bytes /\ Len(key) \in Nat
  OBVIOUS
<1>4. /\ Symbol(key, i) = IF key[i] # "%" THEN key[i] ELSE ph[2]
      /\ After(key, i) = IF key[i] # "%" THEN i + 1 ELSE i + ph[1] + 1
  BY <1>1 DEF Symbol, After
<1>5. CASE key[i] # "%"
  BY <1>3, <1>4, <1>5
<1>6. CASE key[i] = "%" /\ i < Len(key) /\ key[i + 1] = "%"
  <2>1. ph[1] = 1 /\ ph[2] = "%"
    BY <1>2, <1>6
  <2>2. Symbol(key, i) = "%" /\ After(key, i) = i + 2
    BY <1>4, <1>6, <2>1
  <2> QED
    BY <1>3, <1>6, <2>2
<1>7. CASE key[i] = "%" /\ ~(i < Len(key) /\ key[i + 1] = "%")
  <2>1. ph[1] \in 0 .. Len(key) - i /\ ph[2] = "*" /\ i + ph[1] + 1 = TakenEnd(key, i)
    BY <1>2, <1>7
  <2>2. Symbol(key, i) = "*" /\ After(key, i) = i + ph[1] + 1
    BY <1>4, <1>7, <2>1
  <2>3. After(key, i) = TakenEnd(key, i)
    BY <2>1, <2>2
  <2>4. After(key, i) \in i + 1 .. Len(key) + 1
    BY <1>3, <2>1, <2>2
  <2>5. Symbol(key, i) \in Bytes
    <3>1. "*" \in Bytes
      BY PatternAssumption
    <3> QED
      BY <2>2, <3>1
  <2> QED
    BY <1>7, <2>2, <2>3, <2>4, <2>5, Zenon
<1> QED
  BY <1>5, <1>6, <1>7

(* path is the function that Path defines for key.                         *)
IsPath(key, path) ==
    path = [i \in 1 .. Len(key) + 1 |->
            IF i > Len(key) THEN <<>>
            ELSE IF key[i] # "%" THEN <<key[i]>> \o path[i + 1]
            ELSE LET ph == Placeholder(SubSeq(key, i + 1, Len(key)))
                 IN  <<ph[2]>> \o path[i + ph[1] + 1]]

LEMMA PathExists ==
  ASSUME NEW key \in Seq(Bytes)
  PROVE  \E path : IsPath(key, path)
<1> DEFINE D == 1 .. Len(key) + 1
           V == Seq(Bytes)
           m == [i \in D |-> Len(key) + 1 - i]
           F == [i \in D |-> [f \in [D -> V] |->
                  IF i > Len(key) THEN <<>> ELSE <<Symbol(key, i)>> \o f[After(key, i)]]]
<1>1. <<>> \in V /\ Len(key) \in Nat /\ m \in [D -> 0 .. Len(key)]
  OBVIOUS
<1>2. ASSUME NEW i \in D, i \in 1 .. Len(key)
      PROVE  /\ Symbol(key, i) \in Bytes /\ After(key, i) \in D
             /\ m[After(key, i)] < m[i]
  <2>1. After(key, i) \in i + 1 .. Len(key) + 1 /\ Symbol(key, i) \in Bytes
    BY <1>2, SymbolIs
  <2> QED
    BY <1>1, <2>1
<1>3. \A i \in D : \A f \in [D -> V] : F[i][f] =
         IF i > Len(key) THEN <<>> ELSE <<Symbol(key, i)>> \o f[After(key, i)]
  OBVIOUS
<1>4. \A i \in D : i \in 1 .. Len(key) \/ i > Len(key)
  BY <1>1
<1> HIDE DEF F, m
<1>5. \A i \in D : \A f \in [D -> V] : F[i][f] \in V
  <2> SUFFICES ASSUME NEW i \in D, NEW f \in [D -> V] PROVE F[i][f] \in V
    OBVIOUS
  <2>1. CASE i > Len(key)
    BY <1>1, <1>3, <2>1
  <2>2. CASE i \in 1 .. Len(key)
    <3>1. F[i][f] = <<Symbol(key, i)>> \o f[After(key, i)]
      <4>1. ~(i > Len(key))
        BY <1>1, <2>2
      <4> QED
        BY <1>3, <4>1
    <3>2. Symbol(key, i) \in Bytes /\ f[After(key, i)] \in Seq(Bytes)
      BY <1>2, <2>2
    <3> QED
      BY <3>1, <3>2
  <2> QED
    BY <1>4, <2>1, <2>2
<1>6. \A i \in D : \A f, g \in [D -> V] :
         (\A j \in D : m[j] < m[i] => f[j] = g[j]) => F[i][f] = F[i][g]
  <2> SUFFICES ASSUME NEW i \in D, NEW f \in [D -> V], NEW g \in [D -> V],
                      \A j \in D : m[j] < m[i] => f[j] = g[j]
               PROVE  F[i][f] = F[i][g]
    OBVIOUS
  <2>1. CASE i > Len(key)
    BY <1>3, <2>1
  <2>2. CASE i \in 1 .. Len(key) /\ ~(i > Len(key))
    <3>1. f[After(key, i)] = g[After(key, i)]
      BY <1>2, <2>2
    <3> QED
      BY <1>3, <2>2, <3>1
  <2> QED
    BY <1>1, <1>4, <2>1, <2>2
<1> HIDE DEF D, V
<1>7. PICK f \in [D -> V] : \A i \in D : f[i] = F[i][f]
  <2>1. V # {} /\ Len(key) \in Nat /\ m \in [D -> 0 .. Len(key)]
    BY <1>1
  <2>2. Recurses(D, V, Len(key), m, F)
    BY <1>5, <1>6, <2>1 DEF Recurses
  <2> QED
    BY <2>2, Recursion
<1>8. ASSUME NEW i \in D
      PROVE  f[i] = IF i > Len(key) THEN <<>>
                    ELSE IF key[i] # "%" THEN <<key[i]>> \o f[i + 1]
                    ELSE LET ph == Placeholder(SubSeq(key, i + 1, Len(key)))
                         IN  <<ph[2]>> \o f[i + ph[1] + 1]
  <2>1. f[i] = IF i > Len(key) THEN <<>> ELSE <<Symbol(key, i)>> \o f[After(key, i)]
    BY <1>3, <1>7
  <2> QED
    BY <2>1 DEF Symbol, After
<1>9. IsPath(key, f)
  <2>1. f = [i \in D |-> f[i]]
    BY <1>7
  <2> QED
    BY <1>8, <2>1, Zenon DEF IsPath, D
<1> QED
  BY <1>9

LEMMA PathIs ==
  ASSUME NEW key \in Seq(Bytes)
  PROVE  \E path : IsPath(key, path) /\ Path(key) = path[1]
<1> DEFINE h == CHOOSE path : IsPath(key, path)
<1>1. IsPath(key, h)
  BY PathExists
<1>2. Path(key) = h[1]
  BY DEF Path, IsPath
<1> QED
  BY <1>1, <1>2

(* The paths of the parts of key, each with one symbol more.               *)
LEMMA PathStep ==
  ASSUME NEW key \in Seq(Bytes), NEW path, IsPath(key, path)
  PROVE  /\ path[Len(key) + 1] = <<>>
         /\ \A i \in 1 .. Len(key) : path[i] = <<Symbol(key, i)>> \o path[After(key, i)]
         /\ \A i \in 1 .. Len(key) + 1 : path[i] \in Seq(Bytes)
<1>1. ASSUME NEW i \in 1 .. Len(key) + 1
      PROVE  path[i] = IF i > Len(key) THEN <<>> ELSE <<Symbol(key, i)>> \o path[After(key, i)]
  BY DEF IsPath, Symbol, After
<1>2. Len(key) \in Nat /\ Len(key) + 1 \in 1 .. Len(key) + 1
  OBVIOUS
<1>3. path[Len(key) + 1] = <<>>
  <2>1. Len(key) + 1 > Len(key)
    BY <1>2
  <2> QED
    BY <1>1, <1>2, <2>1
<1>4. ASSUME NEW i \in 1 .. Len(key)
      PROVE  path[i] = <<Symbol(key, i)>> \o path[After(key, i)]
  <2>1. i \in 1 .. Len(key) + 1 /\ ~(i > Len(key))
    OBVIOUS
  <2> QED
    BY <1>1, <2>1
<1> DEFINE S == {i \in 1 .. Len(key) + 1 : path[i] \in Seq(Bytes)}
<1>5. PICK n \in Nat : n = Len(key) + 1
  BY <1>2
<1>6. ASSUME NEW i \in 1 .. n, \A k \in i + 1 .. n : k \in S
      PROVE  i \in S
  <2>1. CASE i = n
    <3>1. i \in 1 .. Len(key) + 1 /\ path[i] = <<>>
      BY <1>3, <1>5, <2>1
    <3>2. <<>> \in Seq(Bytes)
      OBVIOUS
    <3> QED
      BY <3>1, <3>2
  <2>2. CASE i # n
    <3>1. i \in 1 .. Len(key)
      BY <1>2, <1>5, <2>2
    <3>2. After(key, i) \in i + 1 .. n /\ Symbol(key, i) \in Bytes
      BY <1>5, <3>1, SymbolIs
    <3>3. path[After(key, i)] \in Seq(Bytes)
      BY <1>6, <3>2
    <3>4. <<Symbol(key, i)>> \o path[After(key, i)] \in Seq(Bytes)
      BY <3>2, <3>3
    <3> QED
      BY <1>4, <1>5, <3>1, <3>4
  <2> QED
    BY <2>1, <2>2
<1> HIDE DEF S
<1>7. \A i \in 1 .. n : i \in S
  BY <1>6, Countdown
<1> QED
  BY <1>3, <1>4, <1>5, <1>7 DEF S

LEMMA PathType ==
  ASSUME NEW key \in Seq(Bytes)
  PROVE  Path(key) \in Seq(Bytes) /\ (key # <<>> => Path(key) # <<>>)
<1>1. PICK path : IsPath(key, path) /\ Path(key) = path[1]
  BY PathIs
<1>2. 1 \in 1 .. Len(key) + 1 /\ Len(key) \in Nat /\ path[1] \in Seq(Bytes)
  BY <1>1, PathStep
<1>3. ASSUME key # <<>>
      PROVE  Path(key) # <<>>
  <2>1. 1 \in 1 .. Len(key)
    BY <1>3
  <2>2. path[1] = <<Symbol(key, 1)>> \o path[After(key, 1)]
    BY <1>1, <2>1, PathStep
  <2>3. After(key, 1) \in 1 .. Len(key) + 1 /\ Symbol(key, 1) \in Bytes
    BY <2>1, SymbolIs
  <2>4. path[After(key, 1)] \in Seq(Bytes)
    BY <1>1, <2>3, PathStep
  <2> QED
    BY <1>1, <2>2, <2>3, <2>4
<1> QED
  BY <1>1, <1>2, <1>3

---------------------------------------------------------------------------
(* Globs.                                                                  *)

(* globs is the function that Globs defines for path and text.             *)
GlobsBody(path, text, globs, i) ==
    IF i > Len(path) THEN {Len(text) + 1}
    ELSE IF path[i] = "*" THEN {j \in 1 .. Len(text) + 1 : \E k \in globs[i + 1] : j <= k}
    ELSE {j \in 1 .. Len(text) : j + 1 \in globs[i + 1] /\ path[i] \in {"?", text[j]}}

IsGlobs(path, text, globs) ==
    globs = [i \in 1 .. Len(path) + 1 |-> GlobsBody(path, text, globs, i)]

LEMMA GlobsExists ==
  ASSUME NEW path \in Seq(Bytes), NEW text \in Seq(Bytes)
  PROVE  \E globs : IsGlobs(path, text, globs)
<1> DEFINE D == 1 .. Len(path) + 1
           V == SUBSET (1 .. Len(text) + 1)
           m == [i \in D |-> Len(path) + 1 - i]
           F == [i \in D |-> [f \in [D -> V] |-> GlobsBody(path, text, f, i)]]
<1>1. /\ Len(path) \in Nat /\ Len(text) \in Nat /\ V # {}
      /\ m \in [D -> 0 .. Len(path)]
  OBVIOUS
<1>2. \A i \in D : i > Len(path) \/ (i + 1 \in D /\ m[i + 1] < m[i])
  BY <1>1
<1>3. \A i \in D : \A f \in [D -> V] : F[i][f] = GlobsBody(path, text, f, i)
  OBVIOUS
<1> HIDE DEF F, m
<1>4. ASSUME NEW i \in D, NEW f \in [D -> V]
      PROVE  F[i][f] \in V
  <2>1. /\ {Len(text) + 1} \in V
        /\ {j \in 1 .. Len(text) + 1 : \E k \in f[i + 1] : j <= k} \in V
        /\ {j \in 1 .. Len(text) : j + 1 \in f[i + 1] /\ path[i] \in {"?", text[j]}} \in V
    BY <1>1
  <2>2. GlobsBody(path, text, f, i) \in V
    BY <2>1, Zenon DEF GlobsBody
  <2> QED
    BY <1>3, <2>2
<1>5. ASSUME NEW i \in D, NEW f \in [D -> V], NEW g \in [D -> V],
             \A j \in D : m[j] < m[i] => f[j] = g[j]
      PROVE  F[i][f] = F[i][g]
  <2>1. i > Len(path) \/ f[i + 1] = g[i + 1]
    BY <1>2, <1>5
  <2>2. GlobsBody(path, text, f, i) = GlobsBody(path, text, g, i)
    BY <2>1 DEF GlobsBody
  <2> QED
    BY <1>3, <2>2
<1> HIDE DEF D, V
<1>6. Recurses(D, V, Len(path), m, F)
  BY <1>1, <1>4, <1>5 DEF Recurses
<1>7. PICK f \in [D -> V] : \A i \in D : f[i] = F[i][f]
  BY <1>6, Recursion
<1>8. f = [i \in D |-> f[i]] /\ \A i \in D : f[i] = GlobsBody(path, text, f, i)
  BY <1>3, <1>7
<1>9. f = [i \in 1 .. Len(path) + 1 |-> GlobsBody(path, text, f, i)]
  BY <1>8 DEF D
<1> QED
  BY <1>9 DEF IsGlobs

LEMMA GlobsIs ==
  ASSUME NEW path \in Seq(Bytes), NEW text \in Seq(Bytes)
  PROVE  \E globs : IsGlobs(path, text, globs) /\ Globs(path, text) = (1 \in globs[1])
<1> DEFINE h == CHOOSE globs : IsGlobs(path, text, globs)
<1>1. IsGlobs(path, text, h)
  BY GlobsExists
<1>2. Globs(path, text) = (1 \in h[1])
  BY DEF Globs, IsGlobs, GlobsBody
<1> QED
  BY <1>1, <1>2

LEMMA GlobsStep ==
  ASSUME NEW path \in Seq(Bytes), NEW text \in Seq(Bytes), NEW globs,
         IsGlobs(path, text, globs)
  PROVE  /\ globs[Len(path) + 1] = {Len(text) + 1}
         /\ \A i \in 1 .. Len(path) : path[i] = "*" =>
              globs[i] = {j \in 1 .. Len(text) + 1 : \E k \in globs[i + 1] : j <= k}
         /\ \A i \in 1 .. Len(path) : path[i] # "*" =>
              globs[i] = {j \in 1 .. Len(text) : j + 1 \in globs[i + 1] /\ path[i] \in {"?", text[j]}}
<1>1. /\ Len(path) \in Nat /\ Len(path) + 1 \in 1 .. Len(path) + 1 /\ Len(path) + 1 > Len(path)
      /\ \A i \in 1 .. Len(path) : i \in 1 .. Len(path) + 1 /\ ~(i > Len(path))
  OBVIOUS
<1>2. \A i \in 1 .. Len(path) + 1 : globs[i] = GlobsBody(path, text, globs, i)
  BY DEF IsGlobs
<1> QED
  BY <1>1, <1>2, Zenon DEF GlobsBody

---------------------------------------------------------------------------
(* Prints.                                                                 *)

(* prints is the function that Prints defines for signature and text.      *)
IsPrints(signature, text, prints) ==
    LET end == Len(signature) + 1
    IN  prints = [i \in 1 .. end |->
            LET verb == SelectInSubSeq(signature, i + 1, Len(signature), LAMBDA b : b \in Verbs)
                rest == prints[IF verb = 0 THEN end ELSE verb + 1]
            IN  IF i = end THEN {Len(text) + 1}
                ELSE IF signature[i] # "%"
                     THEN {j \in 1 .. Len(text) : text[j] = signature[i] /\ j + 1 \in prints[i + 1]}
                ELSE IF i + 1 < end /\ signature[i + 1] = "%"
                     THEN {j \in 1 .. Len(text) : text[j] = "%" /\ j + 1 \in prints[i + 2]}
                ELSE {j \in 1 .. Len(text) + 1 : \E k \in rest : j <= k}]

(* Where the text goes on after what the byte at place i prints.           *)
Beyond(key, i) ==
    IF key[i] # "%" THEN i + 1
    ELSE IF i < Len(key) /\ key[i + 1] = "%" THEN i + 2
    ELSE VerbEnd(key, i)

LEMMA BeyondIs ==
  ASSUME NEW key \in Seq(Bytes), NEW i \in 1 .. Len(key)
  PROVE  Beyond(key, i) \in i + 1 .. Len(key) + 1
<1>1. VerbEnd(key, i) \in i + 1 .. Len(key) + 1
  <2>1. \/ EndAt(key, i, Verbs) = Len(key) + 1
        \/ \E v \in i + 1 .. Len(key) : EndAt(key, i, Verbs) = v + 1
    BY EndAtIs, Zenon
  <2>2. Len(key) \in Nat
    OBVIOUS
  <2> QED
    BY <2>1, <2>2 DEF VerbEnd
<1> QED
  BY <1>1 DEF Beyond

(* Its body with these places.                                             *)
PrintsBody(signature, text, prints, i) ==
    IF i = Len(signature) + 1 THEN {Len(text) + 1}
    ELSE IF signature[i] # "%"
         THEN {j \in 1 .. Len(text) : text[j] = signature[i] /\ j + 1 \in prints[Beyond(signature, i)]}
    ELSE IF i < Len(signature) /\ signature[i + 1] = "%"
         THEN {j \in 1 .. Len(text) : text[j] = "%" /\ j + 1 \in prints[Beyond(signature, i)]}
    ELSE {j \in 1 .. Len(text) + 1 : \E k \in prints[Beyond(signature, i)] : j <= k}

PrintsAre(signature, text, prints) ==
    prints = [i \in 1 .. Len(signature) + 1 |-> PrintsBody(signature, text, prints, i)]

LEMMA PrintsBodyIs ==
  ASSUME NEW signature \in Seq(Bytes), NEW text, NEW prints
  PROVE  IsPrints(signature, text, prints) <=> PrintsAre(signature, text, prints)
<1> DEFINE Body(i) ==
       LET end == Len(signature) + 1
           verb == SelectInSubSeq(signature, i + 1, Len(signature), LAMBDA b : b \in Verbs)
           rest == prints[IF verb = 0 THEN end ELSE verb + 1]
       IN  IF i = end THEN {Len(text) + 1}
           ELSE IF signature[i] # "%"
                THEN {j \in 1 .. Len(text) : text[j] = signature[i] /\ j + 1 \in prints[i + 1]}
           ELSE IF i + 1 < end /\ signature[i + 1] = "%"
                THEN {j \in 1 .. Len(text) : text[j] = "%" /\ j + 1 \in prints[i + 2]}
           ELSE {j \in 1 .. Len(text) + 1 : \E k \in rest : j <= k}
<1>1. IsPrints(signature, text, prints) <=> prints = [i \in 1 .. Len(signature) + 1 |-> Body(i)]
  BY DEF IsPrints
<1>2. ASSUME NEW i \in 1 .. Len(signature) + 1
      PROVE  Body(i) = PrintsBody(signature, text, prints, i)
  <2>1. CASE i = Len(signature) + 1
    BY <2>1 DEF PrintsBody
  <2>2. CASE i # Len(signature) + 1
    <3>1. i \in 1 .. Len(signature) /\ (i + 1 < Len(signature) + 1 <=> i < Len(signature))
      BY <2>2
    <3>2. /\ signature[i] # "%" => Beyond(signature, i) = i + 1
          /\ signature[i] = "%" /\ i < Len(signature) /\ signature[i + 1] = "%" =>
               Beyond(signature, i) = i + 2
          /\ signature[i] = "%" /\ ~(i < Len(signature) /\ signature[i + 1] = "%") =>
               Beyond(signature, i) = VerbEnd(signature, i)
      BY DEF Beyond
    <3> QED
      BY <2>2, <3>1, <3>2, Zenon DEF PrintsBody, VerbEnd, EndAt
  <2> QED
    BY <2>1, <2>2
<1> HIDE DEF Body
<1> QED
  BY <1>1, <1>2 DEF PrintsAre

LEMMA PrintsExists ==
  ASSUME NEW signature \in Seq(Bytes), NEW text \in Seq(Bytes)
  PROVE  \E prints : IsPrints(signature, text, prints)
<1> DEFINE D == 1 .. Len(signature) + 1
           V == SUBSET (1 .. Len(text) + 1)
           m == [i \in D |-> Len(signature) + 1 - i]
           F == [i \in D |-> [f \in [D -> V] |-> PrintsBody(signature, text, f, i)]]
<1>1. /\ Len(signature) \in Nat /\ Len(text) \in Nat /\ V # {}
      /\ m \in [D -> 0 .. Len(signature)]
  OBVIOUS
<1>2. ASSUME NEW i \in D
      PROVE  \/ i = Len(signature) + 1
             \/ Beyond(signature, i) \in D /\ m[Beyond(signature, i)] < m[i]
  <2> SUFFICES ASSUME i # Len(signature) + 1
               PROVE  Beyond(signature, i) \in D /\ m[Beyond(signature, i)] < m[i]
    OBVIOUS
  <2>1. i \in 1 .. Len(signature)
    BY <1>1
  <2>2. Beyond(signature, i) \in i + 1 .. Len(signature) + 1
    BY <2>1, BeyondIs
  <2> QED
    BY <1>1, <2>2
<1>3. \A i \in D : \A f \in [D -> V] : F[i][f] = PrintsBody(signature, text, f, i)
  OBVIOUS
<1> HIDE DEF F, m
<1>4. ASSUME NEW i \in D, NEW f \in [D -> V]
      PROVE  F[i][f] \in V
  <2> DEFINE rest == f[Beyond(signature, i)]
  <2>1. /\ {Len(text) + 1} \in V
        /\ {j \in 1 .. Len(text) : text[j] = signature[i] /\ j + 1 \in rest} \in V
        /\ {j \in 1 .. Len(text) : text[j] = "%" /\ j + 1 \in rest} \in V
        /\ {j \in 1 .. Len(text) + 1 : \E k \in rest : j <= k} \in V
    BY <1>1
  <2>2. PrintsBody(signature, text, f, i) \in V
    BY <2>1, Zenon DEF PrintsBody
  <2> QED
    BY <1>3, <2>2
<1>5. ASSUME NEW i \in D, NEW f \in [D -> V], NEW g \in [D -> V],
             \A j \in D : m[j] < m[i] => f[j] = g[j]
      PROVE  F[i][f] = F[i][g]
  <2>1. i = Len(signature) + 1 \/ f[Beyond(signature, i)] = g[Beyond(signature, i)]
    BY <1>2, <1>5
  <2>2. PrintsBody(signature, text, f, i) = PrintsBody(signature, text, g, i)
    BY <2>1 DEF PrintsBody
  <2> QED
    BY <1>3, <2>2
<1> HIDE DEF D, V
<1>6. Recurses(D, V, Len(signature), m, F)
  BY <1>1, <1>4, <1>5 DEF Recurses
<1>7. PICK f \in [D -> V] : \A i \in D : f[i] = F[i][f]
  BY <1>6, Recursion
<1>8. f = [i \in D |-> f[i]] /\ \A i \in D : f[i] = PrintsBody(signature, text, f, i)
  BY <1>3, <1>7
<1>9. PrintsAre(signature, text, f)
  BY <1>8 DEF D, PrintsAre
<1> QED
  BY <1>9, PrintsBodyIs

LEMMA PrintsIs ==
  ASSUME NEW signature \in Seq(Bytes), NEW text \in Seq(Bytes)
  PROVE  \E prints : /\ PrintsAre(signature, text, prints)
                     /\ Prints(signature, text) = (1 \in prints[1])
<1> DEFINE h == CHOOSE prints : IsPrints(signature, text, prints)
<1>1. IsPrints(signature, text, h)
  BY PrintsExists
<1>2. Prints(signature, text) = (1 \in h[1])
  BY DEF Prints, IsPrints
<1> HIDE DEF h
<1>3. PrintsAre(signature, text, h)
  BY <1>1, PrintsBodyIs
<1> QED
  BY <1>2, <1>3

(* What prints holds, by the symbol of the path.                           *)
LEMMA PrintsStep ==
  ASSUME NEW signature \in Seq(Bytes), NEW text \in Seq(Bytes), NEW prints,
         PrintsAre(signature, text, prints)
  PROVE  /\ prints[Len(signature) + 1] = {Len(text) + 1}
         /\ \A i \in 1 .. Len(signature) :
              \/ /\ Symbol(signature, i) = signature[i] \/ Symbol(signature, i) = "%"
                 /\ prints[i] = {j \in 1 .. Len(text) :
                                   text[j] = Symbol(signature, i) /\ j + 1 \in prints[Beyond(signature, i)]}
              \/ /\ Symbol(signature, i) = "*"
                 /\ prints[i] = {j \in 1 .. Len(text) + 1 :
                                   \E k \in prints[Beyond(signature, i)] : j <= k}
<1>1. /\ Len(signature) \in Nat /\ Len(signature) + 1 \in 1 .. Len(signature) + 1
      /\ \A i \in 1 .. Len(signature) : i \in 1 .. Len(signature) + 1 /\ i # Len(signature) + 1
  OBVIOUS
<1>2. \A i \in 1 .. Len(signature) + 1 : prints[i] = PrintsBody(signature, text, prints, i)
  BY DEF PrintsAre
<1>3. prints[Len(signature) + 1] = {Len(text) + 1}
  BY <1>1, <1>2 DEF PrintsBody
<1>4. ASSUME NEW i \in 1 .. Len(signature), signature[i] # "%"
      PROVE  /\ Symbol(signature, i) = signature[i]
             /\ prints[i] = {j \in 1 .. Len(text) :
                               text[j] = Symbol(signature, i) /\ j + 1 \in prints[Beyond(signature, i)]}
  <2>1. Symbol(signature, i) = signature[i]
    BY <1>4, SymbolIs
  <2> QED
    BY <1>1, <1>2, <1>4, <2>1, Zenon DEF PrintsBody
<1>5. ASSUME NEW i \in 1 .. Len(signature),
             signature[i] = "%", i < Len(signature) /\ signature[i + 1] = "%"
      PROVE  /\ Symbol(signature, i) = "%"
             /\ prints[i] = {j \in 1 .. Len(text) :
                               text[j] = Symbol(signature, i) /\ j + 1 \in prints[Beyond(signature, i)]}
  <2>1. Symbol(signature, i) = "%"
    BY <1>5, SymbolIs
  <2> QED
    BY <1>1, <1>2, <1>5, <2>1, Zenon DEF PrintsBody
<1>6. ASSUME NEW i \in 1 .. Len(signature),
             signature[i] = "%", ~(i < Len(signature) /\ signature[i + 1] = "%")
      PROVE  /\ Symbol(signature, i) = "*"
             /\ prints[i] = {j \in 1 .. Len(text) + 1 :
                               \E k \in prints[Beyond(signature, i)] : j <= k}
  <2>1. Symbol(signature, i) = "*"
    BY <1>6, SymbolIs
  <2> QED
    BY <1>1, <1>2, <1>6, <2>1, Zenon DEF PrintsBody
<1> QED
  BY <1>3, <1>4, <1>5, <1>6

(* t ends with s, from place c + 1 on.                                     *)
EndsWith(t, c, s) ==
    Len(t) = c + Len(s) /\ \A x \in 1 .. Len(s) : t[c + x] = s[x]

LEMMA EndsWithTail ==
  ASSUME NEW t \in Seq(Bytes), NEW c \in Nat, NEW b \in Bytes, NEW s \in Seq(Bytes),
         EndsWith(t, c, <<b>> \o s)
  PROVE  c + 1 \in 1 .. Len(t) /\ t[c + 1] = b /\ EndsWith(t, c + 1, s)
<1>1. PICK u \in Seq(Bytes) : u = <<b>> \o s
  <2>1. <<b>> \o s \in Seq(Bytes)
    OBVIOUS
  <2> QED
    BY <2>1
<1>2. Len(u) = Len(s) + 1 /\ u[1] = b /\ \A x \in 1 .. Len(s) : u[x + 1] = s[x]
  BY <1>1
<1>3. /\ Len(s) \in Nat /\ Len(t) = c + Len(s) + 1
      /\ \A x \in 1 .. Len(s) + 1 : t[c + x] = u[x]
  BY <1>1, <1>2 DEF EndsWith
<1>4. 1 \in 1 .. Len(s) + 1 /\ \A x \in 1 .. Len(s) : x + 1 \in 1 .. Len(s) + 1 /\ c + (x + 1) = (c + 1) + x
  BY <1>3
<1>5. t[c + 1] = b
  BY <1>2, <1>3, <1>4
<1>6. \A x \in 1 .. Len(s) : t[(c + 1) + x] = s[x]
  BY <1>2, <1>3, <1>4
<1>7. Len(t) = (c + 1) + Len(s) /\ c + 1 \in 1 .. Len(t)
  BY <1>3
<1> QED
  BY <1>5, <1>6, <1>7 DEF EndsWith

(* A sequence has the halves of characters that its end has.               *)
LEMMA EndHalf ==
  ASSUME NEW t \in Seq(Bytes), NEW c \in Nat, NEW s \in Seq(Bytes), EndsWith(t, c, s), HasHalf(s)
  PROVE  HasHalf(t)
<1>1. PICK x \in 2 .. Len(s) : s[x] = "v" /\ s[x - 1] # "u"
  BY DEF HasHalf
<1>2. x \in 1 .. Len(s) /\ x - 1 \in 1 .. Len(s) /\ c + (x - 1) = (c + x) - 1
  BY <1>1
<1>3. t[c + x] = "v" /\ t[(c + x) - 1] # "u" /\ Len(t) = c + Len(s)
  BY <1>1, <1>2 DEF EndsWith
<1>4. c + x \in 2 .. Len(t)
  BY <1>1, <1>3
<1> QED
  BY <1>3, <1>4 DEF HasHalf

(* Where the path has no half of a character, it goes on where the text    *)
(* does.                                                                   *)
LEMMA Aligned ==
  ASSUME NEW key \in Seq(Bytes), IsUTF8(key), NEW path, IsPath(key, path),
         NEW i \in 1 .. Len(key), ~HasHalf(path[i])
  PROVE  After(key, i) = Beyond(key, i)
<1>1. CASE key[i] # "%" \/ (i < Len(key) /\ key[i + 1] = "%")
  BY <1>1, SymbolIs DEF Beyond
<1>2. CASE key[i] = "%" /\ ~(i < Len(key) /\ key[i + 1] = "%")
  <2>1. Symbol(key, i) = "*" /\ After(key, i) = TakenEnd(key, i) /\ Beyond(key, i) = VerbEnd(key, i)
    BY <1>2, SymbolIs DEF Beyond
  <2>2. CASE \A k \in i + 1 .. Len(key) : key[k] \notin Taken
    <3>1. EndAt(key, i, Taken) = Len(key) + 1
      BY <2>2, EndAtIs
    <3>2. EndAt(key, i, Verbs) = Len(key) + 1
      <4>1. \A k \in i + 1 .. Len(key) : key[k] \notin Verbs
        BY <2>2 DEF Taken
      <4> QED
        BY <4>1, EndAtIs
    <3> QED
      BY <2>1, <3>1, <3>2 DEF TakenEnd, VerbEnd
  <2>3. ASSUME NEW v \in i + 1 .. Len(key), EndAt(key, i, Taken) = v + 1, key[v] \in Taken,
               \A k \in i + 1 .. v - 1 : key[k] \notin Taken
        PROVE  After(key, i) = Beyond(key, i)
    <3>1. After(key, i) = v + 1
      BY <2>1, <2>3 DEF TakenEnd
    <3>2. key[v] \in Verbs
      <4> SUFFICES ASSUME key[v] = "u" PROVE FALSE
        BY <2>3 DEF Taken
      <4>1. v + 1 \in 1 .. Len(key) /\ key[v + 1] = "v"
        BY DEF IsUTF8
      <4>2. Symbol(key, v + 1) = "v" /\ After(key, v + 1) \in 1 .. Len(key) + 1
        BY <4>1, SymbolIs
      <4>3. PICK r \in Seq(Bytes) : r = path[After(key, v + 1)]
        BY <4>2, PathStep
      <4>4. path[v + 1] = <<"v">> \o r
        BY <4>1, <4>2, <4>3, PathStep
      <4>5. path[i] = <<"*">> \o (<<"v">> \o r)
        BY <2>1, <3>1, <4>4, PathStep
      <4>6. Len(path[i]) = Len(r) + 2 /\ path[i][1] = "*" /\ path[i][2] = "v" /\ Len(r) \in Nat
        BY <4>3, <4>5
      <4>7. 2 \in 2 .. Len(path[i]) /\ path[i][2 - 1] = "*"
        BY <4>6
      <4> QED
        BY <4>6, <4>7 DEF HasHalf
    <3>3. EndAt(key, i, Verbs) = v + 1
      <4>1. ~(\A k \in i + 1 .. Len(key) : key[k] \notin Verbs)
        BY <3>2
      <4>2. PICK y \in i + 1 .. Len(key) :
               /\ EndAt(key, i, Verbs) = y + 1 /\ key[y] \in Verbs
               /\ \A k \in i + 1 .. y - 1 : key[k] \notin Verbs
        BY <4>1, EndAtIs
      <4>3. ~(y < v) /\ ~(v < y)
        BY <2>3, <3>2, <4>2 DEF Taken
      <4> QED
        BY <4>2, <4>3
    <3> QED
      BY <2>1, <3>1, <3>3 DEF VerbEnd
  <2> QED
    BY <2>2, <2>3, EndAtIs
<1> QED
  BY <1>1, <1>2

(* Where the rest of a signature prints the rest of a text, the rest of    *)
(* its path stands for it, in every path t that ends with it and has no    *)
(* half of a character.                                                    *)
LEMMA PrintsGlobsRest ==
  ASSUME NEW signature \in Seq(Bytes), IsUTF8(signature), NEW text \in Seq(Bytes),
         NEW t \in Seq(Bytes), ~HasHalf(t),
         NEW path, IsPath(signature, path),
         NEW prints, PrintsAre(signature, text, prints),
         NEW globs, IsGlobs(t, text, globs)
  PROVE  \A i \in 1 .. Len(signature) + 1 : \A c \in Nat :
            EndsWith(t, c, path[i]) => prints[i] \subseteq globs[c + 1]
<1> DEFINE S == {i \in Nat : \A c \in Nat : EndsWith(t, c, path[i]) => prints[i] \subseteq globs[c + 1]}
<1>1. PICK n \in Nat : n = Len(signature) + 1
  OBVIOUS
<1>2. ASSUME NEW i \in 1 .. n, \A k \in i + 1 .. n : k \in S
      PROVE  i \in S
  <2>1. i \in Nat /\ Len(text) \in Nat
    OBVIOUS
  <2> SUFFICES ASSUME NEW c \in Nat, EndsWith(t, c, path[i])
               PROVE  prints[i] \subseteq globs[c + 1]
    BY <2>1
  <2>2. CASE i = n
    <3>1. path[i] = <<>> /\ prints[i] = {Len(text) + 1}
      BY <1>1, <2>2, PathStep, PrintsStep
    <3>2. Len(t) = c
      BY <3>1 DEF EndsWith
    <3> QED
      BY <3>1, <3>2, GlobsStep
  <2>3. CASE i # n
    <3>1. i \in 1 .. Len(signature)
      BY <1>1, <2>3
    <3>2. PICK b \in Bytes : b = Symbol(signature, i)
      BY <3>1, SymbolIs
    <3>3. PICK a \in i + 1 .. n : a = After(signature, i)
      BY <1>1, <3>1, SymbolIs
    <3>4. path[i] = <<b>> \o path[a] /\ path[a] \in Seq(Bytes)
      <4>1. path[i] = <<Symbol(signature, i)>> \o path[After(signature, i)]
        BY <3>1, PathStep
      <4>2. a \in 1 .. Len(signature) + 1
        BY <1>1, <3>1
      <4>3. path[a] \in Seq(Bytes)
        BY <4>2, PathStep
      <4> QED
        BY <3>2, <3>3, <4>1, <4>3
    <3>5. c + 1 \in 1 .. Len(t) /\ t[c + 1] = b /\ EndsWith(t, c + 1, path[a])
      BY <3>4, EndsWithTail
    <3>6. prints[a] \subseteq globs[(c + 1) + 1]
      BY <1>2, <3>5
    <3>7. \/ /\ b = signature[i] \/ b = "%"
             /\ prints[i] = {j \in 1 .. Len(text) : text[j] = b /\ j + 1 \in prints[a]}
          \/ /\ b = "*"
             /\ prints[i] = {j \in 1 .. Len(text) + 1 : \E k \in prints[a] : j <= k}
      <4>1. \/ /\ Symbol(signature, i) = signature[i] \/ Symbol(signature, i) = "%"
               /\ prints[i] = {j \in 1 .. Len(text) :
                                 text[j] = Symbol(signature, i) /\ j + 1 \in prints[Beyond(signature, i)]}
            \/ /\ Symbol(signature, i) = "*"
               /\ prints[i] = {j \in 1 .. Len(text) + 1 :
                                 \E k \in prints[Beyond(signature, i)] : j <= k}
        BY <3>1, PrintsStep
      <4>2. Beyond(signature, i) = a
        <5>1. path[i] \in Seq(Bytes)
          BY <3>1, PathStep
        <5>2. ~HasHalf(path[i])
          BY <5>1, EndHalf
        <5> QED
          BY <3>1, <3>3, <5>2, Aligned
      <4> QED
        BY <3>2, <4>1, <4>2, Zenon
    <3>8. /\ b = "*" => globs[c + 1] =
                {j \in 1 .. Len(text) + 1 : \E k \in globs[(c + 1) + 1] : j <= k}
          /\ b # "*" => globs[c + 1] =
                {j \in 1 .. Len(text) : j + 1 \in globs[(c + 1) + 1] /\ b \in {"?", text[j]}}
      BY <3>5, GlobsStep
    <3>9. CASE b # "*"
      BY <3>6, <3>7, <3>8, <3>9
    <3>10. CASE b = "*" /\ prints[i] = {j \in 1 .. Len(text) + 1 : \E k \in prints[a] : j <= k}
      BY <3>6, <3>8, <3>10
    <3>11. CASE b = "*" /\ prints[i] = {j \in 1 .. Len(text) : text[j] = b /\ j + 1 \in prints[a]}
      <4>1. \A j \in prints[i] : /\ j \in 1 .. Len(text) + 1 /\ j <= j + 1
                                 /\ j + 1 \in globs[(c + 1) + 1]
        BY <2>1, <3>6, <3>11
      <4> QED
        BY <3>8, <3>11, <4>1
    <3> QED
      BY <3>7, <3>9, <3>10, <3>11
  <2> QED
    BY <2>2, <2>3
<1> HIDE DEF S
<1>3. \A i \in 1 .. n : i \in S
  BY <1>2, Countdown
<1> QED
  BY <1>1, <1>3 DEF S

(* The path of a signature stands for every text that it may print, unless *)
(* it has a half of a character.                                           *)
LEMMA PrintsGlobs ==
  ASSUME NEW signature \in Seq(Bytes), IsUTF8(signature), ~HasHalf(Path(signature)),
         NEW text \in Seq(Bytes), Prints(signature, text)
  PROVE  Globs(Path(signature), text)
<1>1. PICK path : IsPath(signature, path) /\ Path(signature) = path[1]
  BY PathIs
<1>2. PICK t \in Seq(Bytes) : t = Path(signature)
  BY PathType
<1>3. PICK globs : IsGlobs(t, text, globs) /\ Globs(t, text) = (1 \in globs[1])
  BY GlobsIs
<1>4. PICK prints : /\ PrintsAre(signature, text, prints)
                    /\ Prints(signature, text) = (1 \in prints[1])
  BY PrintsIs
<1>5. 1 \in 1 .. Len(signature) + 1 /\ EndsWith(t, 0, path[1])
  BY <1>1, <1>2 DEF EndsWith
<1>6. prints[1] \subseteq globs[0 + 1] /\ 0 + 1 = 1
  BY <1>1, <1>2, <1>3, <1>4, <1>5, PrintsGlobsRest
<1>7. 1 \in prints[1]
  BY <1>4, Zenon
<1>8. 1 \in globs[1]
  BY <1>6, <1>7
<1> QED
  BY <1>2, <1>3, <1>8, Zenon

---------------------------------------------------------------------------
(* The search.                                                             *)

(* What the search rests on: an item has all the items before it, and the  *)
(* trie is not infinitely deep.                                            *)
Trie ==
    /\ Items \subseteq Seq(Bytes) \ {<<>>}
    /\ \E b \in Nat : \A t \in Items : Len(t) <= b
    /\ \A t \in Items : \A k \in 1 .. Len(t) : SubSeq(t, 1, k) \in Items

Nodes == Items \cup {<<>>}

(* What matchNode appends for the three items of a node.                   *)
ByStar(match, key, n, i) ==
    IF Append(n, "*") \notin Items THEN {}
    ELSE {Append(n, "*")} \cup UNION {match[Append(n, "*")][k] : k \in i .. Len(key) + 1}

ByQuestion(match, key, n, i) ==
    IF Append(n, "?") \notin Items THEN {}
    ELSE {t \in {Append(n, "?")} : i = Len(key)} \cup match[Append(n, "?")][i + 1]

ByByte(match, key, n, i) ==
    LET byte == Append(n, key[i])
        next == i + RuneWidth(key, i)
    IN  IF key[i] \in {"*", "?"} \/ byte \notin Items THEN {}
        ELSE {t \in {byte} : next > Len(key)} \cup match[byte][next]

MatchBody(match, key, n, i) ==
    IF i > Len(key) THEN {Append(n, "*")} \cap Items
    ELSE UNION {ByStar(match, key, n, i), ByQuestion(match, key, n, i), ByByte(match, key, n, i)}

(* match is the function that MatchNode defines for key.                   *)
IsMatch(key, match) ==
    match = [n \in Nodes |-> [i \in 1 .. Len(key) + 1 |-> MatchBody(match, key, n, i)]]

LEMMA RuneWidthIs ==
  ASSUME NEW key \in Seq(Bytes), NEW i \in 1 .. Len(key)
  PROVE  i + RuneWidth(key, i) \in i + 1 .. Len(key) + 1
  BY DEF RuneWidth

LEMMA NodeIs ==
  ASSUME Trie, NEW n \in Nodes
  PROVE  n \in Seq(Bytes) /\ Len(n) \in Nat
<1>1. Items \subseteq Seq(Bytes) /\ <<>> \in Seq(Bytes)
  BY DEF Trie
<1>2. n \in Seq(Bytes)
  BY <1>1, Zenon DEF Nodes
<1> QED
  BY <1>2

LEMMA ChildIs ==
  ASSUME Trie, NEW n \in Nodes, NEW b, Append(n, b) \in Items
  PROVE  Len(Append(n, b)) = Len(n) + 1 /\ Append(n, b) \in Nodes
<1>1. n \in Seq(Bytes)
  BY NodeIs
<1> QED
  BY <1>1 DEF Nodes

(* The depth of a node, from the deepest upwards.                          *)
LEMMA Depth ==
  ASSUME Trie
  PROVE  \E b \in Nat : \A n \in Nodes : Len(n) \in 0 .. b
<1>1. PICK b \in Nat : \A t \in Items : Len(t) <= b
  BY DEF Trie
<1>2. ASSUME NEW n \in Nodes PROVE Len(n) \in 0 .. b
  <2>1. Len(n) \in Nat /\ (n \in Items \/ Len(n) = 0)
    BY NodeIs DEF Nodes
  <2> QED
    BY <1>1, <2>1
<1> QED
  BY <1>2

Results(key) == [1 .. Len(key) + 1 -> SUBSET Items]

LEMMA MatchBodyType ==
  ASSUME Trie, NEW key \in Seq(Bytes), NEW n \in Nodes, NEW f \in [Nodes -> Results(key)],
         NEW i \in 1 .. Len(key) + 1
  PROVE  MatchBody(f, key, n, i) \in SUBSET Items
<1>1. ASSUME NEW c \in Nodes, NEW k \in 1 .. Len(key) + 1
      PROVE  f[c][k] \subseteq Items
  <2>1. f[c] \in [1 .. Len(key) + 1 -> SUBSET Items]
    BY DEF Results
  <2> QED
    BY <2>1
<1>2. \A x : Append(n, x) \in Items => Append(n, x) \in Nodes
  BY ChildIs
<1>3. CASE i > Len(key)
  BY <1>3 DEF MatchBody
<1>4. CASE i \in 1 .. Len(key)
  <2>1. /\ \A k \in i .. Len(key) + 1 : k \in 1 .. Len(key) + 1
        /\ i + 1 \in 1 .. Len(key) + 1 /\ ~(i > Len(key))
    BY <1>4
  <2>2. i + RuneWidth(key, i) \in 1 .. Len(key) + 1
    <3>1. i + RuneWidth(key, i) \in i + 1 .. Len(key) + 1
      BY <1>4, RuneWidthIs
    <3> QED
      BY <1>4, <3>1
  <2>3. ByStar(f, key, n, i) \subseteq Items
    <3>1. CASE Append(n, "*") \notin Items
      BY <3>1 DEF ByStar
    <3>2. CASE Append(n, "*") \in Items
      <4>1. PICK c \in Nodes : c = Append(n, "*")
        BY <1>2, <3>2
      <4>2. ByStar(f, key, n, i) = {c} \cup UNION {f[c][k] : k \in i .. Len(key) + 1}
        BY <3>2, <4>1 DEF ByStar
      <4>3. \A k \in i .. Len(key) + 1 : f[c][k] \subseteq Items
        BY <1>1, <2>1
      <4> QED
        BY <3>2, <4>1, <4>2, <4>3
    <3> QED
      BY <3>1, <3>2
  <2>4. ByQuestion(f, key, n, i) \subseteq Items
    BY <1>1, <1>2, <2>1 DEF ByQuestion
  <2>5. ByByte(f, key, n, i) \subseteq Items
    BY <1>1, <1>2, <2>2 DEF ByByte
  <2> QED
    BY <2>1, <2>3, <2>4, <2>5 DEF MatchBody
<1>5. i > Len(key) \/ i \in 1 .. Len(key)
  OBVIOUS
<1> QED
  BY <1>3, <1>4, <1>5

LEMMA MatchBodySame ==
  ASSUME NEW key, NEW n, NEW f, NEW g, NEW i,
         \A x : Append(n, x) \in Items => f[Append(n, x)] = g[Append(n, x)]
  PROVE  MatchBody(f, key, n, i) = MatchBody(g, key, n, i)
<1>1. ByStar(f, key, n, i) = ByStar(g, key, n, i)
  BY Zenon DEF ByStar
<1>2. ByQuestion(f, key, n, i) = ByQuestion(g, key, n, i)
  BY Zenon DEF ByQuestion
<1>3. ByByte(f, key, n, i) = ByByte(g, key, n, i)
  BY Zenon DEF ByByte
<1> QED
  BY <1>1, <1>2, <1>3, Zenon DEF MatchBody

LEMMA MatchExists ==
  ASSUME Trie, NEW key \in Seq(Bytes)
  PROVE  \E match : IsMatch(key, match) /\ match \in [Nodes -> Results(key)]
<1>1. Len(key) \in Nat /\ Results(key) # {}
  <2>1. [i \in 1 .. Len(key) + 1 |-> {}] \in Results(key)
    BY DEF Results
  <2> QED
    BY <2>1
<1>2. PICK b \in Nat : \A n \in Nodes : Len(n) \in 0 .. b
  BY Depth
<1> DEFINE m == [n \in Nodes |-> b - Len(n)]
           R == [n \in Nodes |-> [f \in [Nodes -> Results(key)] |->
                  [i \in 1 .. Len(key) + 1 |-> MatchBody(f, key, n, i)]]]
<1>3. m \in [Nodes -> 0 .. b] /\ \A n \in Nodes : m[n] = b - Len(n)
  BY <1>2
<1>4. \A n \in Nodes : \A f \in [Nodes -> Results(key)] :
         R[n][f] = [i \in 1 .. Len(key) + 1 |-> MatchBody(f, key, n, i)]
  OBVIOUS
<1> HIDE DEF R, m
<1>5. ASSUME NEW n \in Nodes, NEW x, Append(n, x) \in Items
      PROVE  Append(n, x) \in Nodes /\ m[Append(n, x)] < m[n]
  <2>1. Append(n, x) \in Nodes /\ Len(Append(n, x)) = Len(n) + 1
    BY <1>5, ChildIs
  <2>2. Len(n) \in 0 .. b
    BY <1>2
  <2>3. PICK c \in Nodes : c = Append(n, x)
    BY <2>1
  <2>4. m[c] < m[n]
    <3>1. m[c] = b - Len(c) /\ m[n] = b - Len(n)
      BY <1>3
    <3>2. Len(c) = Len(n) + 1
      BY <2>1, <2>3
    <3> QED
      BY <2>2, <3>1, <3>2
  <2> QED
    BY <2>3, <2>4
<1>6. ASSUME NEW n \in Nodes, NEW f \in [Nodes -> Results(key)]
      PROVE  R[n][f] \in Results(key)
  <2>1. \A i \in 1 .. Len(key) + 1 : MatchBody(f, key, n, i) \in SUBSET Items
    BY MatchBodyType
  <2>2. [i \in 1 .. Len(key) + 1 |-> MatchBody(f, key, n, i)] \in Results(key)
    BY <2>1 DEF Results
  <2> QED
    BY <1>4, <2>2
<1>7. ASSUME NEW n \in Nodes, NEW f \in [Nodes -> Results(key)], NEW g \in [Nodes -> Results(key)],
             \A y \in Nodes : m[y] < m[n] => f[y] = g[y]
      PROVE  R[n][f] = R[n][g]
  <2>1. \A x : Append(n, x) \in Items => f[Append(n, x)] = g[Append(n, x)]
    BY <1>5, <1>7
  <2>2. \A i \in 1 .. Len(key) + 1 : MatchBody(f, key, n, i) = MatchBody(g, key, n, i)
    BY <2>1, MatchBodySame
  <2>3. [i \in 1 .. Len(key) + 1 |-> MatchBody(f, key, n, i)]
          = [i \in 1 .. Len(key) + 1 |-> MatchBody(g, key, n, i)]
    BY <2>2
  <2> QED
    <3>1. R[n][f] = [i \in 1 .. Len(key) + 1 |-> MatchBody(f, key, n, i)]
      BY <1>4
    <3>2. R[n][g] = [i \in 1 .. Len(key) + 1 |-> MatchBody(g, key, n, i)]
      BY <1>4
    <3> QED
      BY <2>3, <3>1, <3>2, Zenon
<1>8. Recurses(Nodes, Results(key), b, m, R)
  BY <1>1, <1>3, <1>6, <1>7 DEF Recurses
<1>9. PICK f \in [Nodes -> Results(key)] : \A n \in Nodes : f[n] = R[n][f]
  BY <1>8, Recursion
<1>10. /\ f = [n \in Nodes |-> f[n]]
      /\ \A n \in Nodes : f[n] = [i \in 1 .. Len(key) + 1 |-> MatchBody(f, key, n, i)]
  BY <1>4, <1>9
<1>11. IsMatch(key, f)
  BY <1>10, Zenon DEF IsMatch
<1> QED
  BY <1>11

LEMMA MatchIs ==
  ASSUME Trie, NEW key \in Seq(Bytes)
  PROVE  \E match : IsMatch(key, match) /\ MatchNode(key) = match[<<>>][1]
<1> DEFINE h == CHOOSE match : IsMatch(key, match)
<1>1. IsMatch(key, h)
  BY MatchExists
<1>2. MatchNode(key) = h[<<>>][1]
  BY DEF MatchNode, IsMatch, MatchBody, Nodes, ByStar, ByQuestion, ByByte
<1> QED
  BY <1>1, <1>2

LEMMA MatchStep ==
  ASSUME NEW key \in Seq(Bytes), NEW match, IsMatch(key, match), NEW n \in Nodes
  PROVE  /\ match[n][Len(key) + 1] = {Append(n, "*")} \cap Items
         /\ \A i \in 1 .. Len(key) :
              match[n][i] = UNION {ByStar(match, key, n, i), ByQuestion(match, key, n, i),
                                   ByByte(match, key, n, i)}
<1>1. \A i \in 1 .. Len(key) + 1 : match[n][i] = MatchBody(match, key, n, i)
  <2>1. match[n] = [i \in 1 .. Len(key) + 1 |-> MatchBody(match, key, n, i)]
    BY Zenon DEF IsMatch
  <2> QED
    BY <2>1
<1>2. /\ Len(key) + 1 \in 1 .. Len(key) + 1 /\ Len(key) + 1 > Len(key)
      /\ \A i \in 1 .. Len(key) : i \in 1 .. Len(key) + 1 /\ ~(i > Len(key))
  OBVIOUS
<1> QED
  BY <1>1, <1>2, Zenon DEF MatchBody

(* The search goes through the item with symbol x from place i of key to   *)
(* place k.                                                                *)
Moves(key, i, x, k) ==
    \/ x = "*" /\ k \in i .. Len(key) + 1
    \/ x = "?" /\ i <= Len(key) /\ k = i + 1
    \/ x = key[i] /\ x \notin {"*", "?"} /\ i <= Len(key) /\ k = i + RuneWidth(key, i)

Reaches(key, match, t, n, i, x, k) ==
    /\ Moves(key, i, x, k) /\ Append(n, x) \in Items
    /\ \/ t = Append(n, x) /\ k = Len(key) + 1
       \/ i <= Len(key) /\ t \in match[Append(n, x)][k]

(* An item is found if a move reaches it at the end of the key, or the     *)
(* search after a move finds it.                                           *)
LEMMA MatchMoves ==
  ASSUME NEW key \in Seq(Bytes), NEW match, IsMatch(key, match), NEW n \in Nodes,
         NEW i \in 1 .. Len(key) + 1, NEW t
  PROVE  t \in match[n][i] <=> \E x \in Bytes, k \in 1 .. Len(key) + 1 :
                                 Reaches(key, match, t, n, i, x, k)
<1> DEFINE Some == \E x \in Bytes, k \in 1 .. Len(key) + 1 : Reaches(key, match, t, n, i, x, k)
<1>1. Len(key) \in Nat /\ "*" \in Bytes /\ "?" \in Bytes
  BY PatternAssumption
<1>2. CASE i = Len(key) + 1
  <2>1. t \in match[n][i] <=> t = Append(n, "*") /\ Append(n, "*") \in Items
    <3>1. match[n][i] = {Append(n, "*")} \cap Items
      BY <1>2, MatchStep
    <3> QED
      BY <3>1
  <2>2. ~(i <= Len(key)) /\ i \in i .. Len(key) + 1 /\ i \in 1 .. Len(key) + 1
    BY <1>1, <1>2
  <2>3. ASSUME t \in match[n][i] PROVE Some
    <3>1. Reaches(key, match, t, n, i, "*", i)
      BY <1>2, <2>1, <2>2, <2>3 DEF Reaches, Moves
    <3> QED
      BY <1>1, <2>2, <3>1
  <2>4. ASSUME NEW x \in Bytes, NEW k \in 1 .. Len(key) + 1, Reaches(key, match, t, n, i, x, k)
        PROVE  t \in match[n][i]
    BY <2>1, <2>2, <2>4 DEF Reaches, Moves
  <2> QED
    BY <2>3, <2>4
<1>3. CASE i \in 1 .. Len(key)
  <2>1. t \in match[n][i] <=> \/ t \in ByStar(match, key, n, i)
                            \/ t \in ByQuestion(match, key, n, i)
                            \/ t \in ByByte(match, key, n, i)
    BY <1>3, MatchStep
  <2>2. i <= Len(key) /\ i + 1 \in 1 .. Len(key) + 1 /\ key[i] \in Bytes
        /\ (i = Len(key) <=> i + 1 = Len(key) + 1)
        /\ Len(key) + 1 \in i .. Len(key) + 1
        /\ \A k \in i .. Len(key) + 1 : k \in 1 .. Len(key) + 1
    BY <1>3
  <2>3. PICK next \in 1 .. Len(key) + 1 : /\ next = i + RuneWidth(key, i)
                                          /\ next > Len(key) <=> next = Len(key) + 1
    <3>1. i + RuneWidth(key, i) \in i + 1 .. Len(key) + 1
      BY <1>3, RuneWidthIs
    <3>2. /\ i + RuneWidth(key, i) \in 1 .. Len(key) + 1
          /\ i + RuneWidth(key, i) > Len(key) <=> i + RuneWidth(key, i) = Len(key) + 1
      BY <1>3, <3>1
    <3> QED
      BY <3>2
  <2>4. t \in ByStar(match, key, n, i) <=> \E k \in i .. Len(key) + 1 : Reaches(key, match, t, n, i, "*", k)
    <3>1. t \in ByStar(match, key, n, i) <=>
            /\ Append(n, "*") \in Items
            /\ t = Append(n, "*") \/ \E k \in i .. Len(key) + 1 : t \in match[Append(n, "*")][k]
      BY DEF ByStar
    <3>2. \A k \in i .. Len(key) + 1 : Moves(key, i, "*", k)
      BY DEF Moves
    <3> QED
      BY <2>2, <3>1, <3>2 DEF Reaches
  <2>5. t \in ByQuestion(match, key, n, i) <=> Reaches(key, match, t, n, i, "?", i + 1)
    <3>1. t \in ByQuestion(match, key, n, i) <=>
            /\ Append(n, "?") \in Items
            /\ (t = Append(n, "?") /\ i = Len(key)) \/ t \in match[Append(n, "?")][i + 1]
      BY DEF ByQuestion
    <3>2. Moves(key, i, "?", i + 1)
      BY <2>2 DEF Moves
    <3> QED
      BY <2>2, <3>1, <3>2 DEF Reaches
  <2>6. t \in ByByte(match, key, n, i) <=>
          key[i] \notin {"*", "?"} /\ Reaches(key, match, t, n, i, key[i], next)
    <3>1. t \in ByByte(match, key, n, i) <=>
            /\ key[i] \notin {"*", "?"} /\ Append(n, key[i]) \in Items
            /\ (t = Append(n, key[i]) /\ next > Len(key)) \/ t \in match[Append(n, key[i])][next]
      BY <2>3 DEF ByByte
    <3>2. key[i] \notin {"*", "?"} => Moves(key, i, key[i], next)
      BY <2>2, <2>3 DEF Moves
    <3> QED
      BY <2>2, <2>3, <3>1, <3>2 DEF Reaches
  <2>7. ASSUME t \in match[n][i] PROVE Some
    BY <1>1, <2>1, <2>2, <2>4, <2>5, <2>6, <2>7
  <2>8. ASSUME NEW x \in Bytes, NEW k \in 1 .. Len(key) + 1, Reaches(key, match, t, n, i, x, k)
        PROVE  t \in match[n][i]
    <3>1. \/ x = "*" /\ k \in i .. Len(key) + 1
          \/ x = "?" /\ k = i + 1
          \/ x = key[i] /\ x \notin {"*", "?"} /\ k = next
      BY <2>3, <2>8 DEF Reaches, Moves
    <3> QED
      BY <2>1, <2>4, <2>5, <2>6, <2>8, <3>1
  <2> QED
    BY <2>7, <2>8
<1> QED
  BY <1>1, <1>2, <1>3

(* Induction over the nodes, from the deepest upwards.                     *)
LEMMA NodeInduction ==
  ASSUME Trie, NEW S,
         \A n \in Nodes : (\A x : Append(n, x) \in Items => Append(n, x) \in S) => n \in S
  PROVE  \A n \in Nodes : n \in S
<1>1. PICK b \in Nat : \A n \in Nodes : Len(n) \in 0 .. b
  BY Depth
<1> DEFINE T == {d \in Nat : \A n \in Nodes : Len(n) + 1 = d => n \in S}
<1>2. ASSUME NEW d \in 1 .. b + 1, \A k \in d + 1 .. b + 1 : k \in T
      PROVE  d \in T
  <2> SUFFICES ASSUME NEW n \in Nodes, Len(n) + 1 = d PROVE n \in S
    OBVIOUS
  <2>1. ASSUME NEW x, Append(n, x) \in Items PROVE Append(n, x) \in S
    <3>1. Append(n, x) \in Nodes /\ Len(Append(n, x)) = Len(n) + 1
      BY <2>1, ChildIs
    <3>2. PICK c \in Nodes : c = Append(n, x)
      BY <3>1
    <3>3. Len(c) \in 0 .. b /\ Len(c) = Len(n) + 1
      BY <1>1, <3>1, <3>2
    <3>4. d + 1 \in d + 1 .. b + 1 /\ Len(c) + 1 = d + 1
      BY <3>3
    <3> QED
      BY <1>2, <3>2, <3>4
  <2> QED
    BY <2>1
<1> HIDE DEF T
<1>3. \A d \in 1 .. b + 1 : d \in T
  BY <1>2, Countdown
<1>4. \A n \in Nodes : Len(n) + 1 \in 1 .. b + 1
  BY <1>1
<1> QED
  BY <1>3, <1>4 DEF T

(* What the search from a node finds are items below it.                   *)
Below(t, n) ==
    /\ t \in Items /\ Len(n) < Len(t)
    /\ \A x \in 1 .. Len(n) : t[x] = n[x]

LEMMA BelowChild ==
  ASSUME Trie, NEW n \in Nodes, NEW x \in Bytes, Append(n, x) \in Items, NEW t,
         t = Append(n, x) \/ Below(t, Append(n, x))
  PROVE  Below(t, n) /\ t[Len(n) + 1] = x
<1>1. n \in Seq(Bytes) /\ Len(n) \in Nat
  BY NodeIs
<1>2. PICK c \in Items : c = Append(n, x)
  OBVIOUS
<1>3. Len(c) = Len(n) + 1 /\ c[Len(n) + 1] = x /\ \A y \in 1 .. Len(n) : c[y] = n[y]
  BY <1>1, <1>2
<1>4. CASE t = c
  BY <1>1, <1>3, <1>4 DEF Below
<1>5. CASE Below(t, c)
  <2>1. t \in Seq(Bytes) /\ Len(t) \in Nat
    BY <1>5 DEF Trie, Below
  <2>2. t \in Items /\ Len(n) + 1 < Len(t) /\ \A y \in 1 .. Len(n) + 1 : t[y] = c[y]
    BY <1>3, <1>5 DEF Below
  <2>3. Len(n) + 1 \in 1 .. Len(n) + 1 /\ \A y \in 1 .. Len(n) : y \in 1 .. Len(n) + 1
    BY <1>1
  <2> QED
    BY <1>1, <1>3, <2>1, <2>2, <2>3 DEF Below
<1> QED
  BY <1>2, <1>4, <1>5

LEMMA SearchBelow ==
  ASSUME Trie, NEW key \in Seq(Bytes), NEW match, IsMatch(key, match)
  PROVE  \A n \in Nodes : \A i \in 1 .. Len(key) + 1 : \A t \in match[n][i] : Below(t, n)
<1> DEFINE S == {n \in Nodes : \A i \in 1 .. Len(key) + 1 : \A t \in match[n][i] : Below(t, n)}
<1>1. ASSUME NEW n \in Nodes, \A x : Append(n, x) \in Items => Append(n, x) \in S
      PROVE  n \in S
  <2> SUFFICES ASSUME NEW i \in 1 .. Len(key) + 1, NEW t \in match[n][i] PROVE Below(t, n)
    OBVIOUS
  <2>1. PICK x \in Bytes, k \in 1 .. Len(key) + 1 : Reaches(key, match, t, n, i, x, k)
    BY MatchMoves
  <2>2. Append(n, x) \in Items /\ (t = Append(n, x) \/ t \in match[Append(n, x)][k])
    BY <2>1 DEF Reaches
  <2>3. t = Append(n, x) \/ Below(t, Append(n, x))
    BY <1>1, <2>2
  <2> QED
    BY <2>2, <2>3, BelowChild
<1> HIDE DEF S
<1>2. \A n \in Nodes : n \in S
  BY <1>1, NodeInduction
<1> QED
  BY <1>2 DEF S

(* The first byte of a character is followed by the second.                *)
WholeFirst(t) == \A i \in 1 .. Len(t) : t[i] = "u" => i < Len(t) /\ t[i + 1] = "v"

(* A move that leads to where the rest of the path stands for the rest of  *)
(* the text begins where the path with the symbol moved by does.           *)
LEMMA MoveSound ==
  ASSUME NEW key \in Seq(Bytes), IsUTF8(key), NEW t \in Seq(Bytes), WholeFirst(t),
         NEW globs, IsGlobs(t, key, globs),
         NEW c \in Nat, c < Len(t),
         NEW i \in 1 .. Len(key) + 1, NEW k \in 1 .. Len(key) + 1,
         Moves(key, i, t[c + 1], k), k \in globs[c + 2]
  PROVE  i \in globs[c + 1]
<1>1. c + 1 \in 1 .. Len(t) /\ (c + 1) + 1 = c + 2 /\ Len(key) \in Nat
  OBVIOUS
<1>2. /\ t[c + 1] = "*" =>
           globs[c + 1] = {j \in 1 .. Len(key) + 1 : \E l \in globs[c + 2] : j <= l}
      /\ t[c + 1] # "*" =>
           globs[c + 1] = {j \in 1 .. Len(key) : j + 1 \in globs[c + 2] /\ t[c + 1] \in {"?", key[j]}}
  BY <1>1, GlobsStep
<1>3. CASE t[c + 1] = "*"
  <2>1. i <= k
    BY <1>3 DEF Moves
  <2> QED
    BY <1>2, <1>3, <2>1
<1>4. CASE t[c + 1] = "?"
  <2>1. i \in 1 .. Len(key) /\ k = i + 1
    BY <1>1, <1>4 DEF Moves
  <2> QED
    BY <1>2, <1>4, <2>1
<1>5. CASE t[c + 1] \notin {"*", "?"}
  <2>1. i \in 1 .. Len(key) /\ t[c + 1] = key[i] /\ k = i + RuneWidth(key, i)
    BY <1>1, <1>5 DEF Moves
  <2>2. CASE RuneWidth(key, i) = 1
    BY <1>2, <1>5, <2>1, <2>2
  <2>3. CASE RuneWidth(key, i) # 1
    <3>1. key[i] = "u" /\ key[i + 1] = "v" /\ k = i + 2
      BY <2>1, <2>3 DEF RuneWidth
    <3>2. c + 2 \in 1 .. Len(t) /\ t[c + 2] = "v"
      BY <1>1, <2>1, <3>1 DEF WholeFirst
    <3>3. PICK d \in 1 .. Len(t) : d = c + 2 /\ t[d] = "v" /\ t[d] # "*"
      BY <3>2
    <3>4. globs[d] = {j \in 1 .. Len(key) : j + 1 \in globs[d + 1] /\ t[d] \in {"?", key[j]}}
      <4>1. \A e \in 1 .. Len(t) : t[e] # "*" =>
              globs[e] = {j \in 1 .. Len(key) : j + 1 \in globs[e + 1] /\ t[e] \in {"?", key[j]}}
        BY GlobsStep
      <4> QED
        BY <3>3, <4>1, Zenon
    <3>5. k \in 1 .. Len(key) /\ key[k] = "v"
      <4>1. k \in globs[d]
        BY <3>3
      <4>2. k \in 1 .. Len(key) /\ t[d] \in {"?", key[k]}
        BY <3>4, <4>1
      <4> QED
        BY <3>3, <4>2
    <3>6. key[k - 1] = "u" /\ k - 1 = i + 1
      BY <3>1, <3>5 DEF IsUTF8
    <3> QED
      BY <3>1, <3>6
  <2> QED
    BY <2>2, <2>3
<1> QED
  BY <1>3, <1>4, <1>5

(* What the search finds stands for the rest of the key.                   *)
LEMMA SearchSound ==
  ASSUME Trie, NEW key \in Seq(Bytes), IsUTF8(key), NEW match, IsMatch(key, match),
         NEW t \in Items, WholeFirst(t), NEW globs, IsGlobs(t, key, globs)
  PROVE  \A n \in Nodes : \A i \in 1 .. Len(key) + 1 : t \in match[n][i] => i \in globs[Len(n) + 1]
<1> DEFINE S == {n \in Nodes : \A i \in 1 .. Len(key) + 1 :
                                  t \in match[n][i] => i \in globs[Len(n) + 1]}
<1>1. t \in Seq(Bytes)
  BY DEF Trie
<1>2. ASSUME NEW n \in Nodes, \A x : Append(n, x) \in Items => Append(n, x) \in S
      PROVE  n \in S
  <2> SUFFICES ASSUME NEW i \in 1 .. Len(key) + 1, t \in match[n][i] PROVE i \in globs[Len(n) + 1]
    OBVIOUS
  <2>1. PICK x \in Bytes, k \in 1 .. Len(key) + 1 : Reaches(key, match, t, n, i, x, k)
    BY MatchMoves
  <2>2. PICK c \in Nodes : c = Append(n, x) /\ c \in Items /\ Len(c) = Len(n) + 1
    BY <2>1, ChildIs DEF Reaches
  <2>3. /\ Moves(key, i, x, k)
        /\ (t = c /\ k = Len(key) + 1) \/ t \in match[c][k]
    BY <2>1, <2>2 DEF Reaches
  <2>4. t = c \/ Below(t, c)
    BY <2>3, SearchBelow
  <2>5. Below(t, n) /\ t[Len(n) + 1] = x
    BY <2>2, <2>4, BelowChild
  <2>6. k \in globs[Len(c) + 1]
    <3>1. CASE t = c /\ k = Len(key) + 1
      BY <1>1, <3>1, GlobsStep
    <3>2. CASE t \in match[c][k]
      BY <1>2, <2>2, <3>2
    <3> QED
      BY <2>3, <3>1, <3>2
  <2>7. Len(n) \in Nat /\ Len(n) < Len(t) /\ Len(c) + 1 = Len(n) + 2
    BY <2>2, <2>5, NodeIs DEF Below
  <2> QED
    BY <1>1, <2>3, <2>5, <2>6, <2>7, MoveSound
<1> HIDE DEF S
<1>3. \A n \in Nodes : n \in S
  BY <1>2, NodeInduction
<1> QED
  BY <1>3 DEF S

(* Where the rest of a path stands for the empty text, it is stars.        *)
LEMMA OnlyStars ==
  ASSUME NEW t \in Seq(Bytes), NEW key \in Seq(Bytes), NEW globs, IsGlobs(t, key, globs)
  PROVE  \A d \in 1 .. Len(t) : Len(key) + 1 \in globs[d] =>
            t[d] = "*" /\ Len(key) + 1 \in globs[d + 1]
<1> SUFFICES ASSUME NEW d \in 1 .. Len(t), Len(key) + 1 \in globs[d]
             PROVE  t[d] = "*" /\ Len(key) + 1 \in globs[d + 1]
  OBVIOUS
<1>1. Len(key) \in Nat /\ Len(key) + 1 \notin 1 .. Len(key)
  OBVIOUS
<1>2. t[d] = "*"
  BY <1>1, GlobsStep
<1>3. PICK k \in globs[d + 1] : Len(key) + 1 <= k
  <2>1. globs[d] = {j \in 1 .. Len(key) + 1 : \E k \in globs[d + 1] : j <= k}
    BY <1>2, GlobsStep
  <2> QED
    BY <2>1
<1>4. k \in 1 .. Len(key) + 1
  <2>1. CASE d = Len(t)
    <3>1. globs[d + 1] = {Len(key) + 1}
      BY <2>1, GlobsStep
    <3> QED
      BY <1>1, <3>1
  <2>2. CASE d # Len(t)
    <3>1. PICK e \in 1 .. Len(t) : e = d + 1
      BY <2>2
    <3>2. globs[e] \subseteq 1 .. Len(key) + 1
      <4>1. CASE t[e] = "*"
        BY <4>1, GlobsStep
      <4>2. CASE t[e] # "*"
        <5>1. globs[e] \subseteq 1 .. Len(key)
          BY <4>2, GlobsStep
        <5> QED
          BY <1>1, <5>1
      <4> QED
        BY <4>1, <4>2
    <3> QED
      BY <3>1, <3>2
  <2> QED
    BY <2>1, <2>2
<1>5. k = Len(key) + 1
  BY <1>1, <1>3, <1>4
<1> QED
  BY <1>2, <1>3, <1>5

(* In a text of ASCII a place from where the path stands for the rest has  *)
(* a move over the first symbol of the path.                               *)
LEMMA MoveExists ==
  ASSUME NEW key \in Seq(Bytes), IsASCII(key), NEW t \in Seq(Bytes),
         NEW globs, IsGlobs(t, key, globs),
         NEW d \in 1 .. Len(t), NEW i \in globs[d]
  PROVE  /\ i \in 1 .. Len(key) + 1
         /\ \E k \in globs[d + 1] : Moves(key, i, t[d], k)
         /\ t[d] # "*" => i <= Len(key)
<1>1. Len(key) \in Nat
  OBVIOUS
<1>2. CASE t[d] = "*"
  <2>1. globs[d] = {j \in 1 .. Len(key) + 1 : \E k \in globs[d + 1] : j <= k}
    BY <1>2, GlobsStep
  <2>2. PICK k \in globs[d + 1] : i <= k /\ i \in 1 .. Len(key) + 1
    BY <2>1
  <2>3. CASE d = Len(t)
    <3>1. globs[d + 1] = {Len(key) + 1}
      BY <2>3, GlobsStep
    <3>2. k \in i .. Len(key) + 1
      BY <1>1, <2>2, <3>1
    <3> QED
      BY <1>2, <2>2, <3>2 DEF Moves
  <2>4. CASE d # Len(t)
    <3>1. PICK e \in 1 .. Len(t) : e = d + 1
      BY <2>4
    <3>2. globs[e] \subseteq 1 .. Len(key) + 1
      <4>1. CASE t[e] = "*"
        BY <4>1, GlobsStep
      <4>2. CASE t[e] # "*"
        <5>1. globs[e] \subseteq 1 .. Len(key)
          BY <4>2, GlobsStep
        <5> QED
          BY <1>1, <5>1
      <4> QED
        BY <4>1, <4>2
    <3>3. k \in i .. Len(key) + 1
      BY <1>1, <2>2, <3>1, <3>2
    <3> QED
      BY <1>2, <2>2, <3>3 DEF Moves
  <2> QED
    BY <2>3, <2>4
<1>3. CASE t[d] # "*"
  <2>1. globs[d] = {j \in 1 .. Len(key) : j + 1 \in globs[d + 1] /\ t[d] \in {"?", key[j]}}
    BY <1>3, GlobsStep
  <2>2. i \in 1 .. Len(key) /\ i <= Len(key) /\ i + 1 \in globs[d + 1]
    BY <2>1
  <2>3. RuneWidth(key, i) = 1
    BY <2>2 DEF IsASCII, RuneWidth
  <2>4. Moves(key, i, t[d], i + 1)
    BY <1>3, <2>1, <2>2, <2>3 DEF Moves
  <2> QED
    BY <1>1, <1>3, <2>2, <2>4
<1> QED
  BY <1>2, <1>3

(* An item that stands for a text of ASCII is found in it.                 *)
LEMMA SearchFinds ==
  ASSUME Trie, NEW key \in Seq(Bytes), IsASCII(key), NEW match, IsMatch(key, match),
         NEW t \in Items, ~EndsInTwoStars(t), NEW globs, IsGlobs(t, key, globs)
  PROVE  \A d \in 1 .. Len(t) : \A i \in globs[d] : t \in match[SubSeq(t, 1, d - 1)][i]
<1> DEFINE S == {d \in Nat : \A i \in globs[d] : t \in match[SubSeq(t, 1, d - 1)][i]}
<1>1. t \in Seq(Bytes) /\ Len(t) \in Nat /\ Len(key) \in Nat
  BY DEF Trie
<1>2. ASSUME NEW d \in 1 .. Len(t), \A k \in d + 1 .. Len(t) : k \in S
      PROVE  d \in S
  <2>1. d \in Nat
    OBVIOUS
  <2> SUFFICES ASSUME NEW i \in globs[d] PROVE t \in match[SubSeq(t, 1, d - 1)][i]
    BY <2>1
  <2>2. PICK n : n = SubSeq(t, 1, d - 1)
    OBVIOUS
  <2>3. PICK c : c = SubSeq(t, 1, d)
    OBVIOUS
  <2>4. n \in Nodes /\ c \in Items
    <3>1. c \in Items
      BY <2>3 DEF Trie
    <3>2. CASE d = 1
      <4>1. n = <<>>
        BY <1>1, <2>2, <3>2
      <4> QED
        BY <3>1, <4>1 DEF Nodes
    <3>3. CASE d # 1
      <4>1. d - 1 \in 1 .. Len(t)
        BY <3>3
      <4> QED
        BY <2>2, <3>1, <4>1 DEF Nodes, Trie
    <3> QED
      BY <3>2, <3>3
  <2>5. c = Append(n, t[d])
    <3>1. /\ n \in Seq(Bytes) /\ Len(n) = d - 1 /\ \A x \in 1 .. d - 1 : n[x] = t[x]
          /\ t[d] \in Bytes
      BY <1>1, <2>2
    <3>2. /\ c \in Seq(Bytes) /\ Len(c) = d /\ \A x \in 1 .. d : c[x] = t[x]
      BY <1>1, <2>3
    <3>3. Append(n, t[d]) \in Seq(Bytes)
      BY <3>1
    <3>4. PICK a \in Seq(Bytes) : a = Append(n, t[d])
      BY <3>3, Zenon
    <3>5. Len(a) = d /\ \A x \in 1 .. d : a[x] = t[x]
      BY <3>1, <3>4
    <3>6. c = a
      BY <3>2, <3>5, SameSeq
    <3> QED
      BY <3>4, <3>6
  <2>6. PICK k \in globs[d + 1] : Moves(key, i, t[d], k)
    BY <1>1, MoveExists
  <2>7. i \in 1 .. Len(key) + 1 /\ (t[d] # "*" => i <= Len(key))
    BY <1>1, MoveExists
  <2>8. CASE d = Len(t)
    <3>1. c = t /\ k = Len(key) + 1
      <4>1. k = Len(key) + 1
        BY <1>1, <2>6, <2>8, GlobsStep
      <4>2. c = t
        BY <1>1, <2>3, <2>8
      <4> QED
        BY <4>1, <4>2
    <3>2. Reaches(key, match, t, n, i, t[d], k)
      BY <2>4, <2>5, <2>6, <3>1 DEF Reaches
    <3>3. t[d] \in Bytes /\ k \in 1 .. Len(key) + 1
      BY <1>1, <3>1
    <3> QED
      BY <2>2, <2>4, <2>7, <3>2, <3>3, MatchMoves
  <2>9. CASE d # Len(t)
    <3>1. d + 1 \in d + 1 .. Len(t) /\ d + 1 \in 1 .. Len(t) /\ (d + 1) - 1 = d
      BY <1>1, <2>9
    <3>2. t \in match[c][k]
      BY <1>2, <2>3, <3>1
    <3>3. i <= Len(key)
      <4> SUFFICES ASSUME t[d] = "*", i = Len(key) + 1 PROVE FALSE
        BY <1>1, <2>7
      <4>1. Len(key) + 1 \in globs[d + 1]
        BY <1>1, OnlyStars
      <4>2. t[d + 1] = "*" /\ Len(key) + 1 \in globs[(d + 1) + 1]
        BY <1>1, <3>1, <4>1, OnlyStars
      <4> DEFINE Starred == {e \in Nat : e \in d + 1 .. Len(t) =>
                               t[e] = "*" /\ t[e - 1] = "*" /\ Len(key) + 1 \in globs[e]}
      <4>3. 0 \in Starred
        OBVIOUS
      <4>4. ASSUME NEW e \in Nat, e \in Starred PROVE e + 1 \in Starred
        <5> SUFFICES ASSUME e + 1 \in d + 1 .. Len(t)
                     PROVE  t[e + 1] = "*" /\ t[(e + 1) - 1] = "*" /\ Len(key) + 1 \in globs[e + 1]
          OBVIOUS
        <5>1. CASE e = d
          BY <4>1, <4>2, <5>1
        <5>2. CASE e # d
          <6>1. e \in d + 1 .. Len(t) /\ e \in 1 .. Len(t) /\ e + 1 \in 1 .. Len(t) /\ (e + 1) - 1 = e
            BY <5>2
          <6>2. t[e] = "*" /\ Len(key) + 1 \in globs[e]
            BY <4>4, <6>1
          <6>3. Len(key) + 1 \in globs[e + 1]
            BY <1>1, <6>1, <6>2, OnlyStars
          <6>4. t[e + 1] = "*"
            BY <1>1, <6>1, <6>3, OnlyStars
          <6> QED
            BY <6>1, <6>2, <6>3, <6>4
        <5> QED
          BY <5>1, <5>2
      <4> HIDE DEF Starred
      <4>5. Len(t) \in Starred
        BY <1>1, <4>3, <4>4, Induction
      <4>6. t[Len(t)] = "*" /\ t[Len(t) - 1] = "*"
        BY <1>1, <3>1, <4>5 DEF Starred
      <4>7. Len(t) > 1 /\ \A e \in Len(t) - 1 .. Len(t) : e = Len(t) - 1 \/ e = Len(t)
        BY <1>1, <3>1
      <4> QED
        BY <4>6, <4>7 DEF EndsInTwoStars
    <3>4. Reaches(key, match, t, n, i, t[d], k)
      BY <2>4, <2>5, <2>6, <3>2, <3>3 DEF Reaches
    <3>5. k \in 1 .. Len(key) + 1
      BY <1>1, <3>1, MoveExists
    <3> QED
      BY <1>1, <2>2, <2>4, <2>7, <3>4, <3>5, MatchMoves
  <2> QED
    BY <2>8, <2>9
<1> HIDE DEF S
<1>3. \A d \in 1 .. Len(t) : d \in S
  BY <1>1, <1>2, Countdown
<1> QED
  BY <1>3 DEF S

(* A signature in UTF-8 keeps its characters whole in its path.            *)
LEMMA PathWhole ==
  ASSUME NEW key \in Seq(Bytes), IsUTF8(key)
  PROVE  WholeFirst(Path(key))
<1>1. PICK path : IsPath(key, path) /\ Path(key) = path[1]
  BY PathIs
<1> DEFINE S == {i \in Nat : WholeFirst(path[i])}
<1>2. PICK n \in Nat : n = Len(key) + 1
  OBVIOUS
<1>3. ASSUME NEW i \in 1 .. n, \A k \in i + 1 .. n : k \in S
      PROVE  i \in S
  <2>1. CASE i = n
    <3>1. path[i] = <<>>
      BY <1>1, <1>2, <2>1, PathStep
    <3>2. WholeFirst(<<>>)
      BY DEF WholeFirst
    <3> QED
      BY <3>1, <3>2
  <2>2. CASE i # n
    <3>1. i \in 1 .. Len(key)
      BY <1>2, <2>2
    <3>2. After(key, i) \in i + 1 .. Len(key) + 1 /\ Symbol(key, i) \in Bytes
      BY <3>1, SymbolIs
    <3>3. PICK b \in Bytes : b = Symbol(key, i)
      BY <3>2
    <3>4. PICK s \in Seq(Bytes) : s = path[After(key, i)] /\ WholeFirst(s)
      BY <1>1, <1>2, <1>3, <3>2, PathStep
    <3>5. <<b>> \o s \in Seq(Bytes)
      OBVIOUS
    <3>6. PICK u \in Seq(Bytes) : u = <<b>> \o s
      BY <3>5, Zenon
    <3>7. path[i] = u
      BY <1>1, <3>1, <3>3, <3>4, <3>6, PathStep
    <3>8. /\ Len(u) = Len(s) + 1 /\ u[1] = b /\ Len(s) \in Nat
          /\ \A x \in 1 .. Len(s) : u[x + 1] = s[x]
      BY <3>6
    <3>9. b = "u" => Len(s) > 0 /\ s[1] = "v"
      <4> SUFFICES ASSUME b = "u" PROVE Len(s) > 0 /\ s[1] = "v"
        OBVIOUS
      <4>1. key[i] = "u"
        <5>1. key[i] = "%" => Symbol(key, i) \in {"%", "*"}
          BY <3>1, SymbolIs
        <5>2. key[i] # "%" => Symbol(key, i) = key[i]
          BY <3>1, SymbolIs
        <5> QED
          BY <3>3, <5>1, <5>2
      <4>2. i + 1 \in 1 .. Len(key) /\ key[i + 1] = "v"
        BY <3>1, <4>1 DEF IsUTF8
      <4>3. After(key, i) = i + 1
        BY <3>1, <4>1, SymbolIs
      <4>4. Symbol(key, i + 1) = "v" /\ After(key, i + 1) \in 1 .. Len(key) + 1
        BY <4>2, SymbolIs
      <4>5. s = <<"v">> \o path[After(key, i + 1)] /\ path[After(key, i + 1)] \in Seq(Bytes)
        BY <1>1, <3>4, <4>2, <4>3, <4>4, PathStep
      <4>6. PICK r \in Seq(Bytes) : s = <<"v">> \o r
        BY <4>5
      <4>7. "v" \in Bytes
        BY <4>2
      <4> QED
        BY <4>6, <4>7
    <3>10. WholeFirst(u)
      <4> SUFFICES ASSUME NEW x \in 1 .. Len(u), u[x] = "u"
                   PROVE  x < Len(u) /\ u[x + 1] = "v"
        BY DEF WholeFirst
      <4>1. CASE x = 1
        BY <3>8, <3>9, <4>1
      <4>2. CASE x # 1
        <5>1. PICK y \in 1 .. Len(s) : x = y + 1
          BY <3>8, <4>2
        <5>2. y < Len(s) /\ s[y + 1] = "v"
          BY <3>4, <3>8, <5>1 DEF WholeFirst
        <5>3. y + 1 \in 1 .. Len(s)
          BY <3>8, <5>2
        <5> QED
          BY <3>8, <5>1, <5>2, <5>3
      <4> QED
        BY <4>1, <4>2
    <3> QED
      BY <3>7, <3>10
  <2> QED
    BY <2>1, <2>2
<1> HIDE DEF S
<1>4. \A i \in 1 .. n : i \in S
  BY <1>3, Countdown
<1> QED
  BY <1>1, <1>2, <1>4 DEF S

LEMMA FoundItems ==
  ASSUME Trie, NEW key \in Seq(Bytes)
  PROVE  MatchNode(key) \subseteq Items
<1>1. PICK match : IsMatch(key, match) /\ MatchNode(key) = match[<<>>][1]
  BY MatchIs
<1>2. <<>> \in Nodes /\ 1 \in 1 .. Len(key) + 1
  BY DEF Nodes
<1> QED
  BY <1>1, <1>2, SearchBelow DEF Below

(* An item that the search finds stands for the text.                      *)
LEMMA FoundGlobs ==
  ASSUME Trie, NEW key \in Seq(Bytes), IsUTF8(key),
         NEW t \in MatchNode(key), WholeFirst(t)
  PROVE  Globs(t, key)
<1>1. PICK match : IsMatch(key, match) /\ MatchNode(key) = match[<<>>][1]
  BY MatchIs
<1>2. <<>> \in Nodes /\ 1 \in 1 .. Len(key) + 1 /\ Len(<<>>) + 1 = 1
  BY DEF Nodes
<1>3. t \in Items /\ t \in Seq(Bytes)
  BY FoundItems DEF Trie
<1>4. PICK globs : IsGlobs(t, key, globs) /\ Globs(t, key) = (1 \in globs[1])
  BY <1>3, GlobsIs
<1>5. t \in match[<<>>][1] => 1 \in globs[Len(<<>>) + 1]
  BY <1>1, <1>2, <1>3, <1>4, SearchSound
<1>6. 1 \in globs[1]
  BY <1>1, <1>2, <1>5
<1> QED
  BY <1>4, <1>6, Zenon

(* An item that stands for a text of ASCII is found.                       *)
LEMMA GlobsFound ==
  ASSUME Trie, NEW key \in Seq(Bytes), IsASCII(key),
         NEW t \in Items, ~EndsInTwoStars(t), Globs(t, key)
  PROVE  t \in MatchNode(key)
<1>1. PICK match : IsMatch(key, match) /\ MatchNode(key) = match[<<>>][1]
  BY MatchIs
<1>2. t \in Seq(Bytes) /\ t # <<>>
  BY DEF Trie
<1>3. PICK globs : IsGlobs(t, key, globs) /\ Globs(t, key) = (1 \in globs[1])
  BY <1>2, GlobsIs
<1>4. 1 \in globs[1]
  BY <1>3, Zenon
<1>5. 1 \in 1 .. Len(t)
  BY <1>2
<1>6. t \in match[SubSeq(t, 1, 1 - 1)][1]
  BY <1>1, <1>3, <1>4, <1>5, SearchFinds
<1>7. SubSeq(t, 1, 1 - 1) = <<>>
  BY <1>2
<1> QED
  BY <1>1, <1>6, <1>7

---------------------------------------------------------------------------
(* The inductive invariant.                                                *)

Keyed(p) == p.signature # <<>> /\ p.signature[1] # <<>>

(* An item holds loaded patterns, those of its path; and it holds all of   *)
(* them.                                                                   *)
Holds ==
    /\ \A t \in Items : \A p \in patterns[t] :
          p \in loaded /\ Keyed(p) /\ Path(p.signature[1]) = t
    /\ \A p \in loaded : Keyed(p) =>
          Path(p.signature[1]) \in Items /\ p \in patterns[Path(p.signature[1])]

(* Between a Match and its return the trie is the one that was searched.   *)
Answer ==
    /\ query \in Queries \cup {NoQuery}
    /\ found = IF query = NoQuery THEN {} ELSE Matched(query)

TrieInv == loaded \subseteq Patterns /\ Trie /\ Holds /\ Answer

LEMMA PatternType ==
  ASSUME NEW p \in Patterns, Keyed(p)
  PROVE  p.signature[1] \in Seq(Bytes) \ {<<>>} /\ IsUTF8(p.signature[1])
<1>1. p.signature \in Seq(Seq(Bytes)) /\ \A k \in 1 .. Len(p.signature) : IsUTF8(p.signature[k])
  BY PatternAssumption
<1>2. PICK s \in Seq(Seq(Bytes)) : s = p.signature /\ s # <<>> /\ s[1] # <<>>
  BY <1>1 DEF Keyed
<1>3. 1 \in 1 .. Len(s) /\ s[1] \in Seq(Bytes)
  BY <1>2
<1> QED
  BY <1>1, <1>2, <1>3

(* f is the trie with p inserted in the item t.                            *)
Inserted(f, t, p) ==
    /\ t \in Seq(Bytes) \ {<<>>}
    /\ DOMAIN f = Items \cup {SubSeq(t, 1, k) : k \in 1 .. Len(t)}
    /\ \A x \in DOMAIN f : f[x] = (IF x \in Items THEN patterns[x] ELSE {})
                                  \cup (IF x = t THEN {p} ELSE {})

LEMMA InsertIs ==
  ASSUME NEW key \in Seq(Bytes), key # <<>>, NEW p
  PROVE  Inserted(Insert(key, p), Path(key), p)
<1>1. PICK t : t = Path(key)
  OBVIOUS
<1>2. t \in Seq(Bytes) /\ t # <<>> /\ Len(t) \in Nat
  BY <1>1, PathType
<1>3. Prefixes(t) \ {<<>>} = {SubSeq(t, 1, k) : k \in 1 .. Len(t)}
  <2>1. \A k \in 0 .. Len(t) : SubSeq(t, 1, k) = <<>> <=> k = 0
    <3> SUFFICES ASSUME NEW k \in 0 .. Len(t) PROVE SubSeq(t, 1, k) = <<>> <=> k = 0
      OBVIOUS
    <3>1. Len(SubSeq(t, 1, k)) = k
      BY <1>2
    <3>2. SubSeq(t, 1, k) \in Seq(Bytes)
      BY <1>2
    <3> QED
      BY <3>1, <3>2
  <2>2. Prefixes(t) = {SubSeq(t, 1, k) : k \in 0 .. Len(t)}
    BY DEF Prefixes
  <2>3. \A k \in Nat : k \in 1 .. Len(t) <=> k \in 0 .. Len(t) /\ k # 0
    BY <1>2
  <2> QED
    BY <2>1, <2>2, <2>3
<1>4. Insert(key, p) = [x \in Items \cup {SubSeq(t, 1, k) : k \in 1 .. Len(t)} |->
                          (IF x \in Items THEN patterns[x] ELSE {})
                          \cup (IF x = t THEN {p} ELSE {})]
  BY <1>1, <1>3, Zenon DEF Insert
<1>5. Inserted(Insert(key, p), t, p)
  BY <1>2, <1>4 DEF Inserted
<1> QED
  BY <1>1, <1>5
LEMMA InitTrie == Init => TrieInv
<1> SUFFICES ASSUME Init PROVE TrieInv
  OBVIOUS
<1>1. loaded = {} /\ query = NoQuery /\ found = {} /\ patterns = [t \in {} |-> {}]
  BY DEF Init
<1>2. Items = {}
  BY <1>1 DEF Items
<1>3. Trie
  <2>1. 0 \in Nat /\ \A t \in Items : Len(t) <= 0
    BY <1>2
  <2> QED
    BY <1>2, <2>1 DEF Trie
<1> QED
  BY <1>1, <1>2, <1>3 DEF TrieInv, Holds, Answer

(* The items that an Insert adds come with those before them.              *)
LEMMA InsertTrie ==
  ASSUME Trie, NEW key \in Seq(Bytes), key # <<>>, NEW p, patterns' = Insert(key, p)
  PROVE  Trie'
<1>1. PICK t : t = Path(key)
  OBVIOUS
<1>2. /\ t \in Seq(Bytes) /\ t # <<>> /\ Len(t) \in Nat
      /\ Items' = Items \cup {SubSeq(t, 1, k) : k \in 1 .. Len(t)}
  <2>1. PICK f : f = Insert(key, p)
    OBVIOUS
  <2>2. Inserted(f, t, p)
    BY <1>1, <2>1, InsertIs
  <2>3. t \in Seq(Bytes) \ {<<>>} /\ DOMAIN f = Items \cup {SubSeq(t, 1, k) : k \in 1 .. Len(t)}
    BY <1>1, <2>1, <2>2 DEF Inserted
  <2>4. Items' = DOMAIN f
    BY <2>1, Zenon DEF Items
  <2> QED
    BY <2>3, <2>4
<1>3. \A k \in 1 .. Len(t) : /\ SubSeq(t, 1, k) \in Seq(Bytes) \ {<<>>}
                             /\ Len(SubSeq(t, 1, k)) = k
  <2> SUFFICES ASSUME NEW k \in 1 .. Len(t)
               PROVE  SubSeq(t, 1, k) \in Seq(Bytes) \ {<<>>} /\ Len(SubSeq(t, 1, k)) = k
    OBVIOUS
  <2>1. PICK u : u = SubSeq(t, 1, k)
    OBVIOUS
  <2>2. u \in Seq(Bytes) /\ Len(u) = k
    BY <1>2, <2>1
  <2> QED
    BY <2>1, <2>2
<1>4. \A k \in 1 .. Len(t) : \A l \in 1 .. k : SubSeq(SubSeq(t, 1, k), 1, l) = SubSeq(t, 1, l)
  <2> SUFFICES ASSUME NEW k \in 1 .. Len(t), NEW l \in 1 .. k
               PROVE  SubSeq(SubSeq(t, 1, k), 1, l) = SubSeq(t, 1, l)
    OBVIOUS
  <2>1. PICK u \in Seq(Bytes) : u = SubSeq(t, 1, k)
    BY <1>3
  <2>2. Len(u) = k /\ \A x \in 1 .. k : u[x] = t[x]
    BY <1>2, <2>1
  <2>3. l \in Nat /\ 0 + l <= Len(u) /\ 0 + l <= Len(t) /\ \A x \in 1 .. l : u[0 + x] = t[0 + x]
    BY <1>2, <2>2
  <2>4. SubSeq(u, 0 + 1, 0 + l) = SubSeq(t, 0 + 1, 0 + l)
    BY <1>2, <2>3, SamePart
  <2> QED
    BY <2>1, <2>4
<1>5. Items' \subseteq Seq(Bytes) \ {<<>>}
  BY <1>2, <1>3 DEF Trie
<1>6. \E b \in Nat : \A x \in Items' : Len(x) <= b
  <2>1. PICK b \in Nat : \A x \in Items : Len(x) <= b
    BY DEF Trie
  <2>2. \A x \in Items : Len(x) \in Nat
    BY DEF Trie
  <2>3. ASSUME NEW x \in Items' PROVE Len(x) <= b + Len(t)
    <3>1. CASE x \in Items
      BY <1>2, <2>1, <2>2, <3>1
    <3>2. CASE x \notin Items
      <4>1. PICK k \in 1 .. Len(t) : x = SubSeq(t, 1, k)
        BY <1>2, <3>2
      <4>2. Len(x) = k
        BY <1>3, <4>1
      <4> QED
        BY <1>2, <2>1, <4>2
    <3> QED
      BY <3>1, <3>2
  <2>4. b + Len(t) \in Nat
    BY <1>2
  <2> QED
    BY <2>3, <2>4
<1>7. \A x \in Items' : \A k \in 1 .. Len(x) : SubSeq(x, 1, k) \in Items'
  <2> SUFFICES ASSUME NEW x \in Items', NEW k \in 1 .. Len(x) PROVE SubSeq(x, 1, k) \in Items'
    OBVIOUS
  <2>1. CASE x \in Items
    BY <1>2, <2>1 DEF Trie
  <2>2. CASE x \notin Items
    <3>1. PICK l \in 1 .. Len(t) : x = SubSeq(t, 1, l)
      BY <1>2, <2>2
    <3>2. k \in 1 .. l /\ k \in 1 .. Len(t)
      BY <1>2, <1>3, <3>1
    <3>3. SubSeq(x, 1, k) = SubSeq(t, 1, k)
      BY <1>4, <3>1, <3>2
    <3> QED
      BY <1>2, <3>2, <3>3
  <2> QED
    BY <2>1, <2>2
<1> QED
  BY <1>5, <1>6, <1>7 DEF Trie

LEMMA InsertHolds ==
  ASSUME loaded \subseteq Patterns, Holds, NEW p \in Patterns, Keyed(p),
         patterns' = Insert(p.signature[1], p), loaded' = loaded \cup {p}
  PROVE  Holds'
<1>1. PICK key \in Seq(Bytes) : key = p.signature[1] /\ key # <<>>
  BY PatternType
<1>2. PICK t : t = Path(key)
  OBVIOUS
<1>3. /\ t \in Seq(Bytes) /\ t # <<>>
      /\ Items' = Items \cup {SubSeq(t, 1, k) : k \in 1 .. Len(t)}
      /\ \A x \in Items' : patterns'[x] = (IF x \in Items THEN patterns[x] ELSE {})
                                          \cup (IF x = t THEN {p} ELSE {})
  <2>1. PICK f : f = Insert(key, p)
    OBVIOUS
  <2>2. Inserted(f, t, p)
    BY <1>1, <1>2, <2>1, InsertIs
  <2>3. /\ t \in Seq(Bytes) \ {<<>>} /\ DOMAIN f = Items \cup {SubSeq(t, 1, k) : k \in 1 .. Len(t)}
        /\ \A x \in DOMAIN f : f[x] = (IF x \in Items THEN patterns[x] ELSE {})
                                      \cup (IF x = t THEN {p} ELSE {})
    BY <1>1, <1>2, <2>1, <2>2 DEF Inserted
  <2>4. patterns' = f /\ Items' = DOMAIN f
    BY <1>1, <2>1, Zenon DEF Items
  <2> QED
    BY <2>3, <2>4
<1>4. t \in Items'
  <2>1. Len(t) \in 1 .. Len(t) /\ t = SubSeq(t, 1, Len(t))
    BY <1>3
  <2> QED
    BY <1>3, <2>1
<1>5. ASSUME NEW x \in Items', NEW r \in patterns'[x]
      PROVE  r \in loaded' /\ Keyed(r) /\ Path(r.signature[1]) = x
  <2>1. (x \in Items /\ r \in patterns[x]) \/ (x = t /\ r = p)
    BY <1>3, <1>5
  <2>2. CASE x \in Items /\ r \in patterns[x]
    BY <2>2 DEF Holds
  <2>3. CASE x = t /\ r = p
    BY <1>1, <1>2, <2>3
  <2> QED
    BY <2>1, <2>2, <2>3
<1>6. ASSUME NEW r \in loaded', Keyed(r)
      PROVE  Path(r.signature[1]) \in Items' /\ r \in patterns'[Path(r.signature[1])]
  <2>1. CASE r \in loaded
    <3>1. Path(r.signature[1]) \in Items /\ r \in patterns[Path(r.signature[1])]
      BY <1>6, <2>1 DEF Holds
    <3> QED
      BY <1>3, <3>1
  <2>2. CASE r = p
    BY <1>1, <1>2, <1>3, <1>4, <2>2
  <2> QED
    BY <2>1, <2>2
<1> QED
  BY <1>5, <1>6 DEF Holds, Keyed

LEMMA NextTrie == TrieInv /\ [Next]_vars => TrieInv'
<1> SUFFICES ASSUME TrieInv, [Next]_vars PROVE TrieInv'
  OBVIOUS
<1> USE DEF TrieInv
<1>1. ASSUME NEW p \in Patterns, Load(p) PROVE TrieInv'
  <2>1. /\ loaded' = loaded \cup {p} /\ query = NoQuery /\ query' = query /\ found' = found
        /\ patterns' = IF Keyed(p) THEN Insert(p.signature[1], p) ELSE patterns
    BY <1>1 DEF Load, Keyed
  <2>2. loaded' \subseteq Patterns
    BY <2>1
  <2>3. Answer'
    BY <2>1 DEF Answer, Queries, NoQuery
  <2>4. CASE Keyed(p)
    <3>1. p.signature[1] \in Seq(Bytes) /\ p.signature[1] # <<>>
      BY <2>4, PatternType
    <3>2. Trie'
      BY <2>1, <2>4, <3>1, InsertTrie
    <3>3. Holds'
      BY <2>1, <2>4, InsertHolds
    <3> QED
      BY <2>2, <2>3, <3>2, <3>3
  <2>5. CASE ~Keyed(p)
    <3>1. patterns' = patterns /\ Items' = Items
      BY <2>1, <2>5 DEF Items
    <3>2. Trie'
      BY <3>1 DEF Trie
    <3>3. Holds'
      BY <2>1, <2>5, <3>1 DEF Holds, Keyed
    <3> QED
      BY <2>2, <2>3, <3>2, <3>3
  <2> QED
    BY <2>4, <2>5
<1>2. ASSUME UNCHANGED <<loaded, patterns>> PROVE (loaded \subseteq Patterns)' /\ Trie' /\ Holds'
  <2>1. Items' = Items /\ loaded' = loaded /\ patterns' = patterns
    BY <1>2 DEF Items
  <2> QED
    BY <2>1 DEF Trie, Holds, Keyed
<1>3. ASSUME NEW q \in Queries, Match(q) PROVE TrieInv'
  <2>1. q # NoQuery
    <3>1. q.level \in Levels \cup {""} /\ "none" \notin Levels \cup {""}
      BY QueryAssumption DEF Queries
    <3>2. NoQuery.level = "none"
      BY DEF NoQuery
    <3> QED
      BY <3>1, <3>2
  <2>2. UNCHANGED <<loaded, patterns>> /\ query' = q /\ found' = Matched(q)
    BY <1>3 DEF Match
  <2>3. Matched(query)' = Matched(q)
    <3>1. MatchNode(query.message)' = MatchNode(q.message)
      BY <2>2 DEF MatchNode, Items
    <3>2. /\ Matched(query)' = {p \in UNION {patterns'[t] : t \in MatchNode(query.message)'} :
                                  Suits(p, query')}
          /\ Matched(q) = {p \in UNION {patterns[t] : t \in MatchNode(q.message)} : Suits(p, q)}
      BY Zenon DEF Matched, Suits
    <3> QED
      BY <2>2, <3>1, <3>2
  <2>4. Answer'
    BY <2>1, <2>2, <2>3 DEF Answer, Queries, NoQuery
  <2> QED
    BY <1>2, <2>2, <2>4
<1>4. ASSUME Return PROVE TrieInv'
  <2>1. UNCHANGED <<loaded, patterns>> /\ query' = NoQuery /\ found' = {}
    BY <1>4 DEF Return
  <2>2. Answer'
    BY <2>1 DEF Answer, NoQuery
  <2> QED
    BY <1>2, <2>1, <2>2
<1>5. ASSUME UNCHANGED vars PROVE TrieInv'
  <2>1. UNCHANGED <<loaded, patterns>> /\ query' = query /\ found' = found
    BY <1>5 DEF vars
  <2>2. Matched(query)' = Matched(query)
    <3>1. MatchNode(query.message)' = MatchNode(query.message)
      BY <2>1 DEF MatchNode, Items
    <3> QED
      BY <2>1, <3>1 DEF Matched, Suits
  <2>3. Answer'
    BY <2>1, <2>2 DEF Answer, Queries, NoQuery
  <2> QED
    BY <1>2, <2>1, <2>3
<1> QED
  BY <1>1, <1>3, <1>4, <1>5 DEF Next

(* The trie holds, below the items it needs, exactly the patterns loaded   *)
(* under a signature, each in the item of its path; and while a Match is   *)
(* in progress no pattern is added, so its result is that of the trie.     *)
THEOREM TrieInvariant == Spec => []TrieInv
<1>1. Init => TrieInv
  BY InitTrie
<1>2. TrieInv /\ [Next]_vars => TrieInv'
  BY NextTrie
<1> QED
  BY <1>1, <1>2, PTL DEF Spec
---------------------------------------------------------------------------
(* What the matcher promises.                                              *)

LEMMA QueryType ==
  ASSUME NEW q \in Queries
  PROVE  q.message \in Seq(Bytes)
  BY QueryAssumption DEF Queries

(* A pattern found was loaded, and the search ended in its item.           *)
LEMMA FoundIs ==
  ASSUME TrieInv, NEW p \in found
  PROVE  /\ query \in Queries /\ p \in loaded /\ Keyed(p) /\ Suits(p, query)
         /\ Path(p.signature[1]) \in MatchNode(query.message)
<1>1. query # NoQuery /\ found = Matched(query)
  BY DEF TrieInv, Answer
<1>2. query \in Queries
  BY <1>1 DEF TrieInv, Answer
<1>3. p \in UNION {patterns[t] : t \in MatchNode(query.message)} /\ Suits(p, query)
  BY <1>1, Zenon DEF Matched
<1>4. PICK t \in MatchNode(query.message) : p \in patterns[t]
  BY <1>3
<1>5. t \in Items
  BY <1>2, <1>4, QueryType, FoundItems DEF TrieInv
<1>6. p \in loaded /\ Keyed(p) /\ Path(p.signature[1]) = t
  BY <1>4, <1>5 DEF TrieInv, Holds
<1> QED
  BY <1>2, <1>3, <1>4, <1>6

LEMMA TrieTypes == TrieInv => TypeOK
<1> SUFFICES ASSUME TrieInv PROVE TypeOK
  OBVIOUS
<1>1. loaded \subseteq Patterns /\ query \in Queries \cup {NoQuery}
  BY DEF TrieInv, Answer
<1>2. \A t \in Items : t # <<>> /\ patterns[t] \subseteq loaded
  BY DEF TrieInv, Trie, Holds
<1>3. found \subseteq loaded
  BY FoundIs
<1> QED
  BY <1>1, <1>2, <1>3 DEF TypeOK

LEMMA TrieSound == TrieInv => MatchSound
<1> SUFFICES ASSUME TrieInv, NEW p \in found
             PROVE  /\ IsUTF8(query.message) => Globs(Path(p.signature[1]), query.message)
                    /\ query.level \in {"", p.level}
                    /\ query.position \in {"", p.position}
  BY DEF MatchSound
<1>1. /\ query \in Queries /\ p \in Patterns /\ Keyed(p) /\ Suits(p, query)
      /\ Path(p.signature[1]) \in MatchNode(query.message)
  BY FoundIs DEF TrieInv
<1>2. query.message \in Seq(Bytes) /\ Trie
  BY <1>1, QueryType DEF TrieInv
<1>3. WholeFirst(Path(p.signature[1]))
  BY <1>1, PatternType, PathWhole
<1>4. IsUTF8(query.message) => Globs(Path(p.signature[1]), query.message)
  BY <1>1, <1>2, <1>3, FoundGlobs
<1> QED
  BY <1>1, <1>4 DEF Suits

(* A pattern whose signature can have printed the message of a query is    *)
(* found if it suits the query.                                            *)
LEMMA PrintedFound ==
  ASSUME TrieInv, query # NoQuery, IsASCII(query.message),
         NEW p \in loaded, Keyed(p), Searchable(Path(p.signature[1])),
         Prints(p.signature[1], query.message), Suits(p, query)
  PROVE  p \in found
<1>1. query \in Queries /\ found = Matched(query) /\ p \in Patterns /\ Trie
  BY DEF TrieInv, Answer
<1>2. /\ query.message \in Seq(Bytes) /\ p.signature[1] \in Seq(Bytes)
      /\ IsUTF8(p.signature[1])
  BY <1>1, QueryType, PatternType
<1>3. PICK t : t = Path(p.signature[1]) /\ ~EndsInTwoStars(t) /\ ~HasHalf(t)
  BY DEF Searchable
<1>4. t \in Items /\ p \in patterns[t]
  BY <1>3 DEF TrieInv, Holds
<1>5. Globs(t, query.message)
  BY <1>2, <1>3, PrintsGlobs
<1>6. t \in MatchNode(query.message)
  BY <1>1, <1>2, <1>3, <1>4, <1>5, GlobsFound
<1> QED
  BY <1>1, <1>4, <1>6, Zenon DEF Matched

LEMMA TrieFinds == TrieInv => MatchFinds
<1> SUFFICES ASSUME TrieInv, query # NoQuery, IsASCII(query.message), NEW p \in loaded
             PROVE  p.signature = <<>> \/ ~Searchable(Path(p.signature[1])) \/ Found(p)
  BY DEF MatchFinds
<1> QED
  BY PrintedFound DEF Found, Keyed

(* Every variable of the matcher keeps its type (pattern_trie.go:29-65).   *)
THEOREM TypeCorrect == Spec => []TypeOK
  BY TrieInvariant, TrieTypes, PTL

(* The search of matchNode counts no pattern for a log in UTF-8 that its   *)
(* signature, its level and its position do not fit, for all patterns and  *)
(* messages (pattern_trie.go:137-196).                                     *)
THEOREM Sound == Spec => []MatchSound
  BY TrieInvariant, TrieSound, PTL

(* It counts a log of ASCII text for every pattern that can have printed   *)
(* it, whatever else is in the trie, unless the signature ends in two      *)
(* placeholders or one of them took half of a character for its verb       *)
(* (pattern_trie.go:137-196, 232-273).                                     *)
THEOREM Complete == Spec => []MatchFinds
  BY TrieInvariant, TrieFinds, PTL
---------------------------------------------------------------------------
(* From a call to its pattern: quotes.                                     *)

(* What prints holds, by the bytes of the signature.                       *)
PrintsMembers(signature, text, prints) ==
    /\ prints[Len(signature) + 1] = {Len(text) + 1}
    /\ \A i \in 1 .. Len(signature) : \A j :
         /\ signature[i] # "%" =>
              (j \in prints[i] <=>
                 j \in 1 .. Len(text) /\ text[j] = signature[i] /\ j + 1 \in prints[i + 1])
         /\ signature[i] = "%" /\ i < Len(signature) /\ signature[i + 1] = "%" =>
              (j \in prints[i] <=>
                 j \in 1 .. Len(text) /\ text[j] = "%" /\ j + 1 \in prints[i + 2])
         /\ signature[i] = "%" /\ ~(i < Len(signature) /\ signature[i + 1] = "%") =>
              (j \in prints[i] <=>
                 j \in 1 .. Len(text) + 1 /\ \E k \in prints[VerbEnd(signature, i)] : j <= k)

LEMMA PrintsCases ==
  ASSUME NEW signature \in Seq(Bytes), NEW text \in Seq(Bytes), NEW prints,
         PrintsAre(signature, text, prints)
  PROVE  PrintsMembers(signature, text, prints)
<1>1. prints[Len(signature) + 1] = {Len(text) + 1}
  BY PrintsStep
<1>2. ASSUME NEW i \in 1 .. Len(signature)
      PROVE  i # Len(signature) + 1 /\ prints[i] = PrintsBody(signature, text, prints, i)
  <2>1. i \in 1 .. Len(signature) + 1 /\ i # Len(signature) + 1
    OBVIOUS
  <2> QED
    BY <2>1 DEF PrintsAre
<1>3. ASSUME NEW i \in 1 .. Len(signature), signature[i] # "%"
      PROVE  prints[i] = {j \in 1 .. Len(text) : text[j] = signature[i] /\ j + 1 \in prints[i + 1]}
  <2>1. Beyond(signature, i) = i + 1
    BY <1>3 DEF Beyond
  <2> QED
    BY <1>2, <1>3, <2>1, Zenon DEF PrintsBody
<1>4. ASSUME NEW i \in 1 .. Len(signature),
             signature[i] = "%", i < Len(signature) /\ signature[i + 1] = "%"
      PROVE  prints[i] = {j \in 1 .. Len(text) : text[j] = "%" /\ j + 1 \in prints[i + 2]}
  <2>1. Beyond(signature, i) = i + 2
    BY <1>4 DEF Beyond
  <2> QED
    BY <1>2, <1>4, <2>1, Zenon DEF PrintsBody
<1>5. ASSUME NEW i \in 1 .. Len(signature),
             signature[i] = "%", ~(i < Len(signature) /\ signature[i + 1] = "%")
      PROVE  prints[i] = {j \in 1 .. Len(text) + 1 :
                             \E k \in prints[VerbEnd(signature, i)] : j <= k}
  <2>1. Beyond(signature, i) = VerbEnd(signature, i)
    BY <1>5 DEF Beyond
  <2> QED
    BY <1>2, <1>5, <2>1, Zenon DEF PrintsBody
<1> QED
  BY <1>1, <1>3, <1>4, <1>5 DEF PrintsMembers

(* w is s between two bytes q.                                             *)
Wrapped(w, q, s) ==
    /\ w \in Seq(Bytes) /\ Len(s) \in Nat /\ Len(w) = Len(s) + 2
    /\ w[1] = q /\ w[Len(s) + 2] = q
    /\ \A k \in 1 .. Len(s) : w[k + 1] = s[k]

LEMMA WrapIs ==
  ASSUME NEW q \in Bytes, NEW s \in Seq(Bytes)
  PROVE  Wrapped(<<q>> \o s \o <<q>>, q, s)
<1>1. <<q>> \in Seq(Bytes) /\ Len(<<q>>) = 1
  OBVIOUS
<1>2. <<q>> \o s \in Seq(Bytes)
  BY <1>1
<1>3. PICK c \in Seq(Bytes) : c = <<q>> \o s
  BY <1>2, Zenon
<1>4. Len(s) \in Nat /\ Len(c) = Len(s) + 1 /\ c[1] = q /\ \A k \in 1 .. Len(s) : c[k + 1] = s[k]
  BY <1>3
<1>5. c \o <<q>> \in Seq(Bytes)
  BY <1>1
<1>6. PICK w \in Seq(Bytes) : w = c \o <<q>>
  BY <1>5, Zenon
<1>7. Len(w) = Len(s) + 2 /\ w[Len(s) + 2] = q /\ \A k \in 1 .. Len(s) + 1 : w[k] = c[k]
  BY <1>4, <1>6
<1>8. 1 \in 1 .. Len(s) + 1 /\ \A k \in 1 .. Len(s) : k + 1 \in 1 .. Len(s) + 1
  BY <1>4
<1>9. Wrapped(w, q, s)
  BY <1>4, <1>7, <1>8 DEF Wrapped
<1> QED
  BY <1>3, <1>6, <1>9

(* In quotes a placeholder ends where it did, or takes all that is left.   *)
LEMMA VerbEndWrapped ==
  ASSUME NEW q \in Bytes, NEW s \in Seq(Bytes), NEW w, Wrapped(w, q, s), NEW i \in 1 .. Len(s)
  PROVE  VerbEnd(w, i + 1) \in {VerbEnd(s, i) + 1, Len(w) + 1}
<1>1. /\ w \in Seq(Bytes) /\ Len(s) \in Nat /\ Len(w) = Len(s) + 2 /\ i + 1 \in 1 .. Len(w)
      /\ \A k \in 1 .. Len(s) : w[k + 1] = s[k]
  BY DEF Wrapped
<1>2. PICK j \in 1 .. Len(w) : j = i + 1
  BY <1>1
<1>3. CASE VerbEnd(w, j) = Len(w) + 1
  BY <1>2, <1>3
<1>4. ASSUME NEW v \in j + 1 .. Len(w), VerbEnd(w, j) = v + 1, w[v] \in Verbs,
             \A k \in j + 1 .. v - 1 : w[k] \notin Verbs
      PROVE  VerbEnd(w, j) \in {VerbEnd(s, i) + 1, Len(w) + 1}
  <2>1. CASE v = Len(w)
    BY <1>4, <2>1
  <2>2. CASE v < Len(w)
    <3>1. PICK x \in i + 1 .. Len(s) : v = x + 1
      BY <1>1, <1>2, <2>2
    <3>2. s[x] \in Verbs
      BY <1>1, <1>4, <3>1
    <3>3. \A k \in i + 1 .. x - 1 : s[k] \notin Verbs
      <4> SUFFICES ASSUME NEW k \in i + 1 .. x - 1 PROVE s[k] \notin Verbs
        OBVIOUS
      <4>1. k \in 1 .. Len(s) /\ k + 1 \in j + 1 .. v - 1
        BY <1>2, <3>1
      <4> QED
        BY <1>1, <1>4, <4>1
    <3>4. VerbEnd(s, i) = x + 1
      <4>1. ~(\A k \in i + 1 .. Len(s) : s[k] \notin Verbs)
        BY <3>1, <3>2
      <4>2. PICK y \in i + 1 .. Len(s) :
               /\ VerbEnd(s, i) = y + 1 /\ s[y] \in Verbs
               /\ \A k \in i + 1 .. y - 1 : s[k] \notin Verbs
        BY <4>1, EndAtIs DEF VerbEnd
      <4>3. ~(y < x) /\ ~(x < y)
        BY <3>2, <3>3, <4>2
      <4> QED
        BY <4>2, <4>3
    <3> QED
      BY <1>4, <3>1, <3>4
  <2>3. v = Len(w) \/ v < Len(w)
    BY <1>1, <1>4
  <2> QED
    BY <2>1, <2>2, <2>3
<1>5. VerbEnd(w, j) \in {VerbEnd(s, i) + 1, Len(w) + 1}
  BY <1>1, <1>3, <1>4, EndAtIs DEF VerbEnd
<1> QED
  BY <1>2, <1>5

(* What a signature prints, in quotes the signature in quotes prints.      *)
LEMMA PrintsWrapped ==
  ASSUME NEW q \in Bytes, q # "%", NEW s \in Seq(Bytes), NEW text \in Seq(Bytes),
         Prints(s, text), NEW w, Wrapped(w, q, s), NEW m, Wrapped(m, q, text)
  PROVE  Prints(w, m)
<1>1. /\ w \in Seq(Bytes) /\ Len(s) \in Nat /\ Len(w) = Len(s) + 2
      /\ w[1] = q /\ w[Len(s) + 2] = q /\ \A k \in 1 .. Len(s) : w[k + 1] = s[k]
  BY DEF Wrapped
<1>2. /\ m \in Seq(Bytes) /\ Len(text) \in Nat /\ Len(m) = Len(text) + 2
      /\ m[1] = q /\ m[Len(text) + 2] = q /\ \A k \in 1 .. Len(text) : m[k + 1] = text[k]
  BY DEF Wrapped
<1>3. PICK inner : PrintsAre(s, text, inner) /\ Prints(s, text) = (1 \in inner[1])
  BY PrintsIs
<1>4. PICK outer : PrintsAre(w, m, outer) /\ Prints(w, m) = (1 \in outer[1])
  BY <1>1, <1>2, PrintsIs
<1>5. PrintsMembers(s, text, inner) /\ PrintsMembers(w, m, outer)
  BY <1>1, <1>2, <1>3, <1>4, PrintsCases
<1>6. outer[Len(s) + 3] = {Len(text) + 3}
  <2>1. Len(s) + 3 = Len(w) + 1 /\ Len(text) + 3 = Len(m) + 1
    BY <1>1, <1>2
  <2> QED
    BY <1>5, <2>1 DEF PrintsMembers
<1> DEFINE S == {i \in Nat : \A j \in inner[i] : j \in Nat /\ j + 1 \in outer[i + 1]}
<1>7. ASSUME NEW i \in 1 .. Len(s) + 1, \A k \in i + 1 .. Len(s) + 1 : k \in S
      PROVE  i \in S
  <2> SUFFICES ASSUME NEW j \in inner[i] PROVE j \in Nat /\ j + 1 \in outer[i + 1]
    OBVIOUS
  <2>1. PICK e \in 1 .. Len(w) : e = i + 1
    BY <1>1
  <2>2. CASE i = Len(s) + 1
    <3>1. j = Len(text) + 1
      BY <1>5, <2>2 DEF PrintsMembers
    <3>2. w[e] = q /\ e + 1 = Len(s) + 3
      BY <1>1, <2>1, <2>2
    <3>3. \A x : x \in outer[e] <=> x \in 1 .. Len(m) /\ m[x] = w[e] /\ x + 1 \in outer[e + 1]
      BY <1>5, <3>2 DEF PrintsMembers
    <3>4. j + 1 \in 1 .. Len(m) /\ m[j + 1] = q /\ (j + 1) + 1 = Len(text) + 3
      BY <1>2, <3>1
    <3> QED
      <4>1. (j + 1) + 1 \in outer[e + 1]
        BY <1>6, <3>2, <3>4
      <4>2. j + 1 \in outer[e]
        BY <3>2, <3>3, <3>4, <4>1
      <4> QED
        BY <1>2, <2>1, <3>1, <4>2
  <2>3. CASE i # Len(s) + 1 /\ s[i] # "%"
    <3>1. i \in 1 .. Len(s) /\ i + 1 \in i + 1 .. Len(s) + 1
      BY <1>1, <2>3
    <3>2. j \in 1 .. Len(text) /\ text[j] = s[i] /\ j + 1 \in inner[i + 1]
      BY <1>5, <2>3, <3>1 DEF PrintsMembers
    <3>3. w[e] = s[i]
      BY <1>1, <2>1, <3>1
    <3>4. \A x : x \in outer[e] <=> x \in 1 .. Len(m) /\ m[x] = w[e] /\ x + 1 \in outer[e + 1]
      BY <1>5, <2>3, <3>3 DEF PrintsMembers
    <3>5. j \in 1 .. Len(text) /\ text[j] = s[i] /\ (j + 1) + 1 \in outer[e + 1]
      BY <1>7, <2>1, <3>1, <3>2
    <3>6. j + 1 \in 1 .. Len(m) /\ m[j + 1] = w[e]
      BY <1>2, <3>3, <3>5
    <3>7. j + 1 \in outer[e]
      BY <3>4, <3>5, <3>6
    <3> QED
      BY <2>1, <3>5, <3>7
  <2>4. CASE i < Len(s) /\ s[i] = "%" /\ s[i + 1] = "%"
    <3>1. i \in 1 .. Len(s) /\ i + 1 \in 1 .. Len(s) /\ i + 2 \in i + 1 .. Len(s) + 1
      BY <1>1, <2>4
    <3>2. j \in 1 .. Len(text) /\ text[j] = "%" /\ j + 1 \in inner[i + 2]
      BY <1>5, <2>4, <3>1 DEF PrintsMembers
    <3>3. w[e] = "%" /\ w[e + 1] = "%" /\ e < Len(w)
      BY <1>1, <2>1, <2>4, <3>1
    <3>4. \A x : x \in outer[e] <=> x \in 1 .. Len(m) /\ m[x] = "%" /\ x + 1 \in outer[e + 2]
      BY <1>5, <3>3 DEF PrintsMembers
    <3>5. j \in 1 .. Len(text) /\ text[j] = "%" /\ (j + 1) + 1 \in outer[e + 2]
      <4>1. (j + 1) + 1 \in outer[(i + 2) + 1] /\ (i + 2) + 1 = e + 2
        BY <1>7, <2>1, <3>1, <3>2
      <4> QED
        BY <3>2, <4>1
    <3>6. j + 1 \in 1 .. Len(m) /\ m[j + 1] = "%"
      BY <1>2, <3>5
    <3>7. j + 1 \in outer[e]
      BY <3>4, <3>5, <3>6
    <3> QED
      BY <2>1, <3>5, <3>7
  <2>5. CASE i # Len(s) + 1 /\ s[i] = "%" /\ ~(i < Len(s) /\ s[i + 1] = "%")
    <3>1. i \in 1 .. Len(s)
      BY <1>1, <2>5
    <3>2. PICK v : v = VerbEnd(s, i)
      OBVIOUS
    <3>3. v \in i + 1 .. Len(s) + 1
      <4>1. v = Beyond(s, i)
        BY <2>5, <3>2 DEF Beyond
      <4> QED
        BY <3>1, <4>1, BeyondIs
    <3>4. j \in 1 .. Len(text) + 1 /\ \E k \in inner[v] : j <= k
      BY <1>5, <2>5, <3>1, <3>2 DEF PrintsMembers
    <3>5. w[e] = "%" /\ ~(e < Len(w) /\ w[e + 1] = "%")
      <4>1. CASE i < Len(s)
        <5>1. i + 1 \in 1 .. Len(s)
          BY <1>1, <3>1, <4>1
        <5> QED
          BY <1>1, <2>1, <2>5, <3>1, <4>1, <5>1
      <4>2. CASE i = Len(s)
        BY <1>1, <2>1, <2>5, <3>1, <4>2
      <4> QED
        BY <1>1, <3>1, <4>1, <4>2
    <3>6. PICK u : u = VerbEnd(w, e)
      OBVIOUS
    <3>7. \A x : x \in outer[e] <=> x \in 1 .. Len(m) + 1 /\ \E k \in outer[u] : x <= k
      BY <1>5, <3>5, <3>6 DEF PrintsMembers
    <3>8. u = v + 1 \/ u = Len(s) + 3
      <4>1. VerbEnd(w, i + 1) = VerbEnd(s, i) + 1 \/ VerbEnd(w, i + 1) = Len(w) + 1
        BY <3>1, VerbEndWrapped
      <4>2. Len(w) + 1 = Len(s) + 3
        BY <1>1
      <4> QED
        BY <2>1, <3>2, <3>6, <4>1, <4>2
    <3>9. PICK k \in inner[v] : j <= k /\ j \in 1 .. Len(text) + 1
      BY <3>4
    <3>10. k \in Nat /\ k + 1 \in outer[v + 1]
      BY <1>7, <3>3, <3>9
    <3>11. j + 1 \in 1 .. Len(m) + 1 /\ j + 1 <= k + 1 /\ j + 1 <= Len(text) + 3
      BY <1>2, <3>9, <3>10
    <3>12. \E x \in outer[u] : j + 1 <= x
      BY <1>6, <3>8, <3>10, <3>11
    <3>13. j + 1 \in outer[e]
      BY <3>7, <3>11, <3>12
    <3> QED
      BY <2>1, <3>9, <3>13
  <2> QED
    BY <1>1, <2>2, <2>3, <2>4, <2>5
<1> HIDE DEF S
<1>8. \A i \in 1 .. Len(s) + 1 : i \in S
  <2>1. Len(s) + 1 \in Nat
    BY <1>1
  <2> QED
    BY <1>7, <2>1, Countdown
<1>9. 1 \in inner[1]
  BY <1>3, Zenon
<1>10. 2 \in outer[2]
  <2>1. 1 \in S /\ 1 + 1 = 2
    BY <1>1, <1>8
  <2> QED
    BY <1>9, <2>1 DEF S
<1>11. 1 \in outer[1]
  <2>1. 1 \in 1 .. Len(w) /\ w[1] # "%" /\ 1 + 1 = 2
    BY <1>1
  <2>2. \A x : x \in outer[1] <=> x \in 1 .. Len(m) /\ m[x] = w[1] /\ x + 1 \in outer[1 + 1]
    BY <1>5, <2>1 DEF PrintsMembers
  <2>3. 1 \in 1 .. Len(m) /\ m[1] = w[1]
    BY <1>1, <1>2
  <2> QED
    BY <1>10, <2>1, <2>2, <2>3
<1> QED
  BY <1>4, <1>11, Zenon

(* The path of a literal in quotes begins with the quote.                  *)
LEMMA PathFirst ==
  ASSUME NEW q \in Bytes, q # "%", NEW s, NEW w, Wrapped(w, q, s)
  PROVE  Path(w) \in Seq(Bytes) /\ Len(Path(w)) > 1 /\ Path(w)[1] = q
<1>1. w \in Seq(Bytes) /\ 1 \in 1 .. Len(w) /\ 2 \in 1 .. Len(w) /\ w[1] = q
  BY DEF Wrapped
<1>2. PICK path : IsPath(w, path) /\ Path(w) = path[1]
  BY <1>1, PathIs
<1>3. Symbol(w, 1) = q /\ After(w, 1) = 2
  BY <1>1, SymbolIs
<1>4. Symbol(w, 2) \in Bytes /\ After(w, 2) \in 1 .. Len(w) + 1
  BY <1>1, SymbolIs
<1>5. PICK r \in Seq(Bytes) : r = path[After(w, 2)]
  BY <1>1, <1>2, <1>4, PathStep
<1>6. PICK b \in Bytes : b = Symbol(w, 2)
  BY <1>4
<1>7. <<b>> \o r \in Seq(Bytes) /\ Len(<<b>> \o r) > 0
  OBVIOUS
<1>8. PICK u \in Seq(Bytes) : u = <<b>> \o r
  BY <1>7, Zenon
<1>9. path[2] = u /\ Len(u) > 0
  BY <1>1, <1>2, <1>5, <1>6, <1>7, <1>8, PathStep
<1>10. path[1] = <<q>> \o u
  BY <1>1, <1>2, <1>3, <1>9, PathStep
<1> QED
  BY <1>2, <1>9, <1>10

(* A text that a path stands for has its first and last byte, if these are *)
(* no stars or question marks.                                             *)
LEMMA GlobsEnds ==
  ASSUME NEW t \in Seq(Bytes), NEW key \in Seq(Bytes), Globs(t, key), Len(t) > 1,
         t[1] \notin {"*", "?"}, t[Len(t)] \notin {"*", "?"}
  PROVE  Len(key) > 1 /\ key[1] = t[1] /\ key[Len(key)] = t[Len(t)]
<1>1. PICK n \in Nat : n = Len(t)
  OBVIOUS
<1>2. PICK globs : IsGlobs(t, key, globs) /\ Globs(t, key) = (1 \in globs[1])
  BY GlobsIs
<1>3. ASSUME NEW d \in 1 .. n, NEW i \in globs[d]
      PROVE  /\ i \in 1 .. Len(key) + 1
             /\ t[d] = "*" => \E k \in globs[d + 1] : i <= k
             /\ t[d] # "*" => i + 1 \in globs[d + 1] /\ i \in 1 .. Len(key) /\ t[d] \in {"?", key[i]}
  <2>1. d \in 1 .. Len(t) /\ Len(key) \in Nat
    BY <1>1
  <2>2. CASE t[d] = "*"
    <3>1. globs[d] = {j \in 1 .. Len(key) + 1 : \E k \in globs[d + 1] : j <= k}
      BY <1>2, <2>1, <2>2, GlobsStep
    <3> QED
      BY <1>3, <2>2, <3>1
  <2>3. CASE t[d] # "*"
    <3>1. globs[d] = {j \in 1 .. Len(key) : j + 1 \in globs[d + 1] /\ t[d] \in {"?", key[j]}}
      BY <1>2, <2>1, <2>3, GlobsStep
    <3> QED
      BY <1>3, <2>1, <2>3, <3>1
  <2> QED
    BY <2>2, <2>3
<1> DEFINE S == {d \in Nat : \A i \in globs[d] : \E j \in globs[n] : i <= j}
<1>4. ASSUME NEW d \in 1 .. n, \A k \in d + 1 .. n : k \in S
      PROVE  d \in S
  <2> SUFFICES ASSUME NEW i \in globs[d] PROVE \E j \in globs[n] : i <= j
    OBVIOUS
  <2>1. i \in 1 .. Len(key) + 1
    BY <1>3
  <2>2. CASE d = n
    BY <2>1, <2>2
  <2>3. CASE d # n
    <3>1. d + 1 \in d + 1 .. n /\ d + 1 \in 1 .. n
      BY <2>3
    <3>2. PICK k \in globs[d + 1] : i <= k
      BY <1>3, <2>1
    <3>3. PICK j \in globs[n] : k <= j
      BY <1>4, <3>1
    <3>4. k \in 1 .. Len(key) + 1 /\ j \in 1 .. Len(key) + 1
      BY <1>1, <1>3, <3>1
    <3> QED
      BY <2>1, <3>2, <3>3, <3>4
  <2> QED
    BY <2>2, <2>3
<1> HIDE DEF S
<1>5. \A d \in 1 .. n : d \in S
  BY <1>4, Countdown
<1>6. 1 \in globs[1]
  BY <1>2, Zenon
<1>7. 1 \in 1 .. n /\ 2 \in 1 .. n /\ n \in 1 .. n /\ 1 + 1 = 2 /\ Len(key) \in Nat
  BY <1>1
<1>8. 2 \in globs[2] /\ key[1] = t[1]
  BY <1>3, <1>6, <1>7
<1>9. PICK j \in globs[n] : 2 <= j
  BY <1>5, <1>7, <1>8 DEF S
<1>10. j + 1 \in globs[n + 1] /\ j \in 1 .. Len(key) /\ t[n] = key[j]
  BY <1>1, <1>3, <1>7
<1>11. globs[n + 1] = {Len(key) + 1}
  BY <1>1, <1>2, GlobsStep
<1>12. j = Len(key)
  BY <1>7, <1>10, <1>11
<1> QED
  BY <1>1, <1>7, <1>8, <1>9, <1>10, <1>12

---------------------------------------------------------------------------
(* From a call to its pattern: calls and logs.                             *)

LEMMA StackIs ==
  ASSUME NEW n
  PROVE  Stack(n, 1) = Ast[n].parent
<1> DEFINE IsAbove(f) == f = [k \in 0 .. 1 |-> IF k = 0 THEN n ELSE Ast[f[k - 1]].parent]
           g == [k \in 0 .. 1 |-> IF k = 0 THEN n ELSE Ast[n].parent]
           h == CHOOSE f : IsAbove(f)
<1>1. IsAbove(g)
  <2>1. \A k \in 0 .. 1 : k = 0 \/ (k # 0 /\ k - 1 = 0 /\ k - 1 \in 0 .. 1)
    OBVIOUS
  <2> QED
    BY <2>1
<1>2. IsAbove(h)
  BY <1>1
<1>3. Stack(n, 1) = h[1]
  BY DEF Stack
<1> HIDE DEF h
<1>4. h[0] = n /\ h[1] = Ast[h[0]].parent
  BY <1>2
<1> QED
  BY <1>3, <1>4

(* A pattern of a literal is that of a call around it.                     *)
LEMMA PatternIs ==
  ASSUME NEW n \in DOMAIN Ast, NEW p \in PatternsOf(n)
  PROVE  /\ Ast[n].kind = "BasicLit" /\ Ast[n].text \in Seq(Bytes)
         /\ Ast[Stack(n, 1)].prints # "" /\ Ast[Stack(n, 1)].place # ""
         /\ p.signature = <<Value(n)>>
<1>1. Ast[n].kind = "BasicLit" /\ Ast[Stack(n, 1)].kind = "CallExpr"
  BY Zenon DEF PatternsOf
<1>2. p.signature = <<Value(n)>>
  BY DEF PatternsOf
<1>3. Stack(n, 1) \in DOMAIN Ast
  BY StackIs, NodeAssumption
<1> QED
  BY <1>1, <1>2, <1>3, NodeAssumption

LEMMA ValueIs ==
  ASSUME NEW n \in MessageLiterals, NEW p \in PatternsOf(n)
  PROVE  \/ Ast[n].form = "string" /\ Wrapped(Value(n), Quote, Ast[n].text)
         \/ Ast[n].form = "raw" /\ Wrapped(Value(n), BackQuote, Ast[n].text)
<1>1. n \in DOMAIN Ast /\ Ast[n].form # "number"
  BY DEF MessageLiterals
<1>2. Ast[n].kind = "BasicLit" /\ Ast[n].text \in Seq(Bytes)
  BY <1>1, PatternIs
<1>3. CASE Ast[n].form = "string"
  <2>1. Value(n) = <<Quote>> \o Ast[n].text \o <<Quote>>
    BY <1>3 DEF Value
  <2> QED
    BY <1>2, <1>3, <2>1, WrapIs, TextAssumption
<1>4. CASE Ast[n].form = "raw"
  <2>1. Value(n) = <<BackQuote>> \o Ast[n].text \o <<BackQuote>>
    BY <1>4 DEF Value
  <2> QED
    BY <1>2, <1>4, <2>1, WrapIs, TextAssumption
<1> QED
  BY <1>1, <1>2, <1>3, <1>4, NodeAssumption

LEMMA QuotedIs ==
  ASSUME NEW text \in Seq(Bytes)
  PROVE  Quoted(text) = text \/ Wrapped(Quoted(text), Quote, text)
  BY WrapIs, TextAssumption DEF Quoted

(* m is s up to its first "]".                                             *)
Cut(m, s) ==
    /\ m \in Seq(Bytes) /\ Len(m) \in Nat /\ Len(m) <= Len(s)
    /\ \A k \in 1 .. Len(m) : m[k] = s[k] /\ s[k] # "]"
    /\ Len(m) < Len(s) => s[Len(m) + 1] = "]"

LEMMA MsgIs ==
  ASSUME NEW text \in Seq(Bytes)
  PROVE  Quoted(text) \in Seq(Bytes) /\ Cut(Msg(text), Quoted(text))
<1>1. PICK s \in Seq(Bytes) : s = Quoted(text)
  BY QuotedIs DEF Wrapped
<1> DEFINE J == {k \in 1 .. Len(s) : s[k] = "]"}
<1>2. SelectInSeq(s, LAMBDA b : b = "]") = IF J # {} THEN Min(J) ELSE 0
  BY DEF SelectInSeq
<1>3. J \subseteq 1 .. Len(s) /\ \A k \in 1 .. Len(s) : s[k] = "]" <=> k \in J
  OBVIOUS
<1> HIDE DEF J
<1>4. CASE J = {}
  <2>1. Msg(text) = s
    BY <1>1, <1>2, <1>4 DEF Msg
  <2>2. Cut(s, s)
    BY <1>3, <1>4 DEF Cut
  <2> QED
    BY <1>1, <2>1, <2>2
<1>5. CASE J # {}
  <2>1. PICK e \in J : e = Min(J) /\ \A x \in J : e <= x
    <3>1. J \subseteq Nat
      BY <1>3
    <3> QED
      BY <1>5, <3>1, Least
  <2>2. e \in 1 .. Len(s) /\ e # 0 /\ s[e] = "]"
    BY <1>3, <2>1
  <2>3. Msg(text) = SubSeq(s, 1, e - 1)
    BY <1>1, <1>2, <1>5, <2>1, <2>2 DEF Msg
  <2>4. SubSeq(s, 1, e - 1) \in Seq(Bytes)
    BY <2>2
  <2>5. PICK m \in Seq(Bytes) : m = SubSeq(s, 1, e - 1)
    BY <2>4, Zenon
  <2>6. Len(m) = e - 1 /\ \A k \in 1 .. e - 1 : m[k] = s[k]
    BY <2>2, <2>5
  <2>7. \A k \in 1 .. e - 1 : s[k] # "]"
    BY <1>3, <2>1, <2>2
  <2>8. Cut(m, s)
    BY <2>2, <2>6, <2>7 DEF Cut
  <2> QED
    BY <1>1, <2>3, <2>5, <2>8
<1> QED
  BY <1>4, <1>5
(* Quoting and cutting leave UTF-8.                                        *)
LEMMA UTF8Wrapped ==
  ASSUME NEW q \in Bytes, q \notin {"u", "v"}, NEW s, IsUTF8(s), NEW w, Wrapped(w, q, s)
  PROVE  IsUTF8(w)
<1> SUFFICES ASSUME NEW i \in 1 .. Len(w)
             PROVE  /\ w[i] = "u" => i < Len(w) /\ w[i + 1] = "v"
                    /\ w[i] = "v" => i > 1 /\ w[i - 1] = "u"
  BY DEF IsUTF8
<1>1. /\ Len(s) \in Nat /\ Len(w) = Len(s) + 2
      /\ w[1] = q /\ w[Len(s) + 2] = q /\ \A k \in 1 .. Len(s) : w[k + 1] = s[k]
  BY DEF Wrapped
<1>2. CASE i = 1 \/ i = Len(w)
  BY <1>1, <1>2
<1>3. CASE i # 1 /\ i # Len(w)
  <2>1. PICK k \in 1 .. Len(s) : i = k + 1
    BY <1>1, <1>3
  <2>2. w[i] = s[k]
    BY <1>1, <2>1
  <2>3. ASSUME s[k] = "u" PROVE i < Len(w) /\ w[i + 1] = "v"
    <3>1. k + 1 \in 1 .. Len(s) /\ s[k + 1] = "v"
      BY <1>1, <2>3 DEF IsUTF8
    <3>2. w[(k + 1) + 1] = s[k + 1]
      BY <1>1, <3>1
    <3> QED
      BY <1>1, <2>1, <3>1, <3>2
  <2>4. ASSUME s[k] = "v" PROVE i > 1 /\ w[i - 1] = "u"
    <3>1. k - 1 \in 1 .. Len(s) /\ s[k - 1] = "u"
      BY <1>1, <2>4 DEF IsUTF8
    <3>2. w[(k - 1) + 1] = s[k - 1]
      BY <1>1, <3>1
    <3> QED
      BY <2>1, <3>1, <3>2
  <2> QED
    BY <2>2, <2>3, <2>4
<1> QED
  BY <1>2, <1>3

LEMMA UTF8Cut ==
  ASSUME NEW s \in Seq(Bytes), IsUTF8(s), NEW m, Cut(m, s)
  PROVE  IsUTF8(m)
<1> SUFFICES ASSUME NEW i \in 1 .. Len(m)
             PROVE  /\ m[i] = "u" => i < Len(m) /\ m[i + 1] = "v"
                    /\ m[i] = "v" => i > 1 /\ m[i - 1] = "u"
  BY DEF IsUTF8
<1>1. /\ Len(m) \in Nat /\ Len(s) \in Nat /\ Len(m) <= Len(s)
      /\ \A k \in 1 .. Len(m) : m[k] = s[k]
      /\ Len(m) < Len(s) => s[Len(m) + 1] = "]"
  BY DEF Cut
<1>2. i \in 1 .. Len(s) /\ m[i] = s[i]
  BY <1>1
<1>3. ASSUME s[i] = "u" PROVE i < Len(m) /\ m[i + 1] = "v"
  <2>1. i < Len(s) /\ s[i + 1] = "v"
    BY <1>2, <1>3 DEF IsUTF8
  <2>2. i # Len(m)
    BY <1>1, <2>1
  <2>3. i + 1 \in 1 .. Len(m)
    BY <1>1, <2>2
  <2> QED
    BY <1>1, <2>1, <2>3
<1>4. ASSUME s[i] = "v" PROVE i > 1 /\ m[i - 1] = "u"
  <2>1. i > 1 /\ s[i - 1] = "u"
    BY <1>2, <1>4 DEF IsUTF8
  <2>2. i - 1 \in 1 .. Len(m)
    BY <1>1, <2>1
  <2> QED
    BY <1>1, <2>1, <2>2
<1> QED
  BY <1>2, <1>3, <1>4

(* A traceable log whose text the matcher is complete for is found.        *)
LEMMA TraceableFound ==
  ASSUME TrieInv, NEW n \in MessageLiterals, NEW p \in PatternsOf(n), NEW text \in Texts,
         Prints(Ast[n].text, text), query = Log(n, text), p \in loaded,
         Traceable(n, p, text), IsASCII(query.message), Searchable(Path(p.signature[1]))
  PROVE  p \in found
<1>1. text \in Seq(Bytes) /\ Quote \in Bytes /\ Quote # "%" /\ Quote # "]"
  BY TextAssumption
<1>2. Ast[n].text \in Seq(Bytes) /\ p.signature[1] = Value(n) /\ p.signature # <<>>
  <2>1. n \in DOMAIN Ast
    BY DEF MessageLiterals
  <2>2. Ast[n].text \in Seq(Bytes) /\ p.signature = <<Value(n)>>
    BY <2>1, PatternIs
  <2> QED
    BY <2>2
<1>3. Wrapped(Value(n), Quote, Ast[n].text)
  BY ValueIs DEF Traceable
<1>4. PICK s : s = Quoted(text)
  OBVIOUS
<1>5. PICK m : m = Msg(text)
  OBVIOUS
<1>6. Wrapped(s, Quote, text)
  BY <1>1, <1>4, QuotedIs DEF Traceable
<1>7. Wrapped(m, Quote, text)
  <2>1. Cut(m, s) /\ s \in Seq(Bytes)
    BY <1>1, <1>4, <1>5, MsgIs
  <2>2. \A k \in 1 .. Len(s) : s[k] # "]"
    <3> SUFFICES ASSUME NEW k \in 1 .. Len(s) PROVE s[k] # "]"
      OBVIOUS
    <3>1. CASE k = 1 \/ k = Len(s)
      BY <1>1, <1>6, <3>1 DEF Wrapped
    <3>2. CASE k # 1 /\ k # Len(s)
      <4>1. PICK x \in 1 .. Len(text) : k = x + 1
        BY <1>6, <3>2 DEF Wrapped
      <4>2. s[x + 1] = text[x]
        BY <1>6 DEF Wrapped
      <4>3. text[x] # "]"
        BY DEF Traceable
      <4> QED
        BY <4>1, <4>2, <4>3
    <3> QED
      BY <3>1, <3>2
  <2>3. Len(m) = Len(s)
    <3>1. Len(s) \in Nat /\ Len(m) \in Nat /\ Len(m) <= Len(s)
      BY <2>1 DEF Cut
    <3> SUFFICES ASSUME Len(m) < Len(s) PROVE FALSE
      BY <3>1
    <3>2. Len(m) + 1 \in 1 .. Len(s) /\ s[Len(m) + 1] = "]"
      BY <2>1, <3>1 DEF Cut
    <3> QED
      BY <2>2, <3>2
  <2>4. m \in Seq(Bytes) /\ \A k \in 1 .. Len(m) : m[k] = s[k]
    BY <2>1 DEF Cut
  <2>5. m = s
    BY <2>1, <2>3, <2>4, SameSeq
  <2> QED
    BY <1>6, <2>5
<1>8. Prints(p.signature[1], m)
  BY <1>1, <1>2, <1>3, <1>7, PrintsWrapped
<1>9. query.message = m /\ query.level = p.level /\ query.position = p.position
  BY <1>5 DEF Log, Traceable
<1>10. query # NoQuery
  <2>1. NoQuery.message = <<>>
    BY DEF NoQuery
  <2>2. m # <<>>
    BY <1>7 DEF Wrapped
  <2> QED
    BY <1>9, <2>1, <2>2
<1>11. Keyed(p)
  <2>1. Value(n) # <<>>
    BY <1>3 DEF Wrapped
  <2> QED
    BY <1>2, <2>1 DEF Keyed
<1>12. Suits(p, query)
  BY <1>9 DEF Suits
<1> QED
  BY <1>8, <1>9, <1>10, <1>11, <1>12, PrintedFound

(* A plain log that is found is traceable.                                 *)
LEMMA FoundTraceable ==
  ASSUME TrieInv, NEW n \in MessageLiterals, NEW p \in PatternsOf(n), NEW text \in Texts,
         query = Log(n, text), Plain(n, text), p \in found
  PROVE  Traceable(n, p, text)
<1>1. /\ text \in Seq(Bytes) /\ Quote \in Bytes /\ BackQuote \in Bytes /\ Quote # BackQuote
      /\ \A q \in {Quote, BackQuote} : q \notin {"*", "?", "%", "]", "u", "v"}
  BY TextAssumption
<1>2. p.signature[1] = Value(n) /\ Ast[Stack(n, 1)].prints # "" /\ Ast[Stack(n, 1)].place # ""
  <2>1. n \in DOMAIN Ast
    BY DEF MessageLiterals
  <2>2. p.signature = <<Value(n)>>
    BY <2>1, PatternIs
  <2>3. Ast[Stack(n, 1)].prints # "" /\ Ast[Stack(n, 1)].place # ""
    BY <2>1, PatternIs
  <2>4. p.signature[1] = Value(n)
    BY <2>2
  <2> QED
    BY <2>3, <2>4
<1>3. /\ query \in Queries /\ p \in loaded /\ Keyed(p) /\ Suits(p, query)
      /\ Path(Value(n)) \in MatchNode(query.message)
  BY <1>2, FoundIs
<1>4. PICK s \in Seq(Bytes) : s = Quoted(text) /\ (s = text \/ Wrapped(s, Quote, text))
  BY <1>1, MsgIs, QuotedIs
<1>5. PICK m : m = Msg(text) /\ Cut(m, s)
  BY <1>1, <1>4, MsgIs
<1>6. m \in Seq(Bytes) /\ query.message = m
  BY <1>5 DEF Cut, Log
<1>7. PICK t : t = Path(Value(n))
  OBVIOUS
<1>8. PICK q \in {Quote, BackQuote} :
        /\ Wrapped(Value(n), q, Ast[n].text)
        /\ Ast[n].form = IF q = Quote THEN "string" ELSE "raw"
  BY <1>1, ValueIs
<1>9. t \in Seq(Bytes) /\ Len(t) > 1 /\ t[1] = q
  BY <1>1, <1>7, <1>8, PathFirst
<1>10. Globs(t, m)
  <2>1. p \in Patterns /\ Trie
    BY <1>3 DEF TrieInv
  <2>2. WholeFirst(t)
    BY <1>2, <1>3, <1>7, <2>1, PatternType, PathWhole
  <2>3. IsUTF8(m)
    <3>1. IsUTF8(text)
      BY DEF Plain
    <3>2. IsUTF8(s)
      BY <1>1, <1>4, <3>1, UTF8Wrapped
    <3> QED
      BY <1>5, <3>2, UTF8Cut
  <2> QED
    BY <1>3, <1>6, <1>7, <2>1, <2>2, <2>3, FoundGlobs
<1>11. t[Len(t)] \in {Quote, BackQuote}
  BY <1>7 DEF Plain, Last
<1>12. Len(m) > 1 /\ m[1] = q /\ m[Len(m)] \in {Quote, BackQuote}
  BY <1>1, <1>6, <1>9, <1>10, <1>11, GlobsEnds
<1>13. /\ Len(m) \in Nat /\ Len(s) \in Nat /\ Len(m) <= Len(s)
       /\ \A k \in 1 .. Len(m) : m[k] = s[k] /\ s[k] # "]"
  BY <1>5 DEF Cut
<1>14. \A k \in 1 .. Len(text) : text[k] \notin {Quote, BackQuote}
  BY DEF Plain
<1>15. s # text
  <2> SUFFICES ASSUME s = text PROVE FALSE
    OBVIOUS
  <2>1. 1 \in 1 .. Len(m) /\ 1 \in 1 .. Len(text)
    BY <1>12, <1>13
  <2> QED
    BY <1>12, <1>13, <1>14, <2>1
<1>16. /\ Len(text) \in Nat /\ Len(s) = Len(text) + 2 /\ s[1] = Quote
       /\ \A k \in 1 .. Len(text) : s[k + 1] = text[k]
  BY <1>4, <1>15 DEF Wrapped
<1>17. Ast[n].form = "string"
  <2>1. 1 \in 1 .. Len(m)
    BY <1>12, <1>13
  <2> QED
    BY <1>8, <1>12, <1>13, <1>16, <2>1
<1>18. Len(m) = Len(s)
  <2> SUFFICES ASSUME Len(m) < Len(s) PROVE FALSE
    BY <1>13
  <2>1. Len(m) - 1 \in 1 .. Len(text) /\ Len(m) = (Len(m) - 1) + 1
    BY <1>12, <1>13, <1>16
  <2>2. PICK k \in 1 .. Len(text) : Len(m) = k + 1
    BY <2>1
  <2>3. Len(m) \in 1 .. Len(m)
    BY <1>12, <1>13
  <2>4. m[Len(m)] = text[k]
    BY <1>13, <1>16, <2>2, <2>3
  <2> QED
    BY <1>12, <1>14, <2>4
<1>19. \A k \in 1 .. Len(text) : text[k] # "]"
  <2>1. \A k \in 1 .. Len(text) : k + 1 \in 1 .. Len(m)
    BY <1>16, <1>18
  <2> QED
    BY <1>13, <1>16, <2>1
<1>20. Log(n, text).position = p.position /\ Log(n, text).level = p.level
  BY <1>2, <1>3 DEF Suits, Log
<1> QED
  BY <1>4, <1>15, <1>17, <1>19, <1>20 DEF Traceable

LEMMA TrieCalls == TrieInv => CallFound
<1> SUFFICES ASSUME TrieInv, NEW log \in Logs, query = log.query, log.pattern \in loaded
             PROVE  /\ log.traceable /\ IsASCII(log.query.message)
                       /\ Searchable(Path(log.pattern.signature[1])) => log.pattern \in found
                    /\ log.plain /\ log.pattern \in found => log.traceable
  BY DEF CallFound
<1>1. PICK n \in MessageLiterals : \E p \in PatternsOf(n), text \in Texts :
        /\ Prints(Ast[n].text, text)
        /\ log = [query |-> Log(n, text), pattern |-> p,
                  traceable |-> Traceable(n, p, text), plain |-> Plain(n, text)]
  BY DEF Logs
<1>2. PICK p \in PatternsOf(n), text \in Texts :
        /\ Prints(Ast[n].text, text)
        /\ log = [query |-> Log(n, text), pattern |-> p,
                  traceable |-> Traceable(n, p, text), plain |-> Plain(n, text)]
  BY <1>1
<1>3. /\ log.query = Log(n, text) /\ log.pattern = p
      /\ log.traceable = Traceable(n, p, text) /\ log.plain = Plain(n, text)
  BY <1>2
<1>4. ASSUME Traceable(n, p, text), IsASCII(query.message), Searchable(Path(p.signature[1]))
      PROVE  p \in found
  BY <1>2, <1>3, <1>4, TraceableFound
<1>5. ASSUME Plain(n, text), p \in found
      PROVE  Traceable(n, p, text)
  BY <1>3, <1>5, FoundTraceable
<1> QED
  BY <1>3, <1>4, <1>5, Zenon

(* For every source file and every text: a log that can be traced back to  *)
(* the pattern of its call is counted for it, and a plain log of a call    *)
(* whose line, level, quotes or brackets do not allow that never is        *)
(* (analyzer.go:92-108, parser.go:139, pattern_trie.go:137).               *)
THEOREM CallsFound == Spec => []CallFound
  BY TrieInvariant, TrieCalls, PTL
=============================================================================
