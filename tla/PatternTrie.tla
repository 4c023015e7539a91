---------------------------- MODULE PatternTrie ----------------------------
(***************************************************************************)
(* The matcher of `logcov scan`: a trie built from the signatures of the   *)
(* patterns in the store, and the search for the patterns that a log       *)
(* message may come from (scanner/log_match/).                             *)
(*                                                                         *)
(* A signature and a message are sequences of bytes, one string per byte;  *)
(* "u" followed by "v" stands for a character of two bytes.  The trie is   *)
(* the set of its paths: an item is named by the symbols that lead to it,  *)
(* a node by those of the item it is the child of.                         *)
(***************************************************************************)
EXTENDS Integers, Sequences, FiniteSets, SequencesExt

CONSTANTS
    Bytes,     \* the bytes that texts are made of
    Patterns,  \* records [signature, level, position]; their identity is the id
    Messages,  \* the messages that are looked up
    Levels,    \* levels, in lower case
    Places,    \* values "<file>:<line>"
    Verbs,     \* the bytes of the table formatPlaceholder
    WideVerb,  \* whether the low byte of the character "uv" is one of them
    MaxLoaded  \* bound of the model: patterns loaded

(* Text in UTF-8: the bytes of a character are not apart.                  *)
IsUTF8(text) ==
    \A i \in 1 .. Len(text) :
        /\ text[i] = "u" => i < Len(text) /\ text[i + 1] = "v"
        /\ text[i] = "v" => i > 1 /\ text[i - 1] = "u"

(* Signatures are literals of Go source, which is UTF-8; a log file may    *)
(* hold anything.                                                          *)
ASSUME PatternAssumption ==
    /\ {"*", "?", "%"} \subseteq Bytes
    /\ \A p \in Patterns :
         /\ p.signature \in Seq(Seq(Bytes))
         /\ \A k \in 1 .. Len(p.signature) : IsUTF8(p.signature[k])
         /\ p.level \in Levels /\ p.position \in Places

ASSUME QueryAssumption ==
    /\ \A text \in Messages : text \in Seq(Bytes)
    /\ "none" \notin Levels

(* The verbs are ASCII.                                                    *)
ASSUME VerbAssumption == Verbs \cap {"u", "v"} = {} /\ WideVerb \in BOOLEAN

ASSUME BoundAssumption == MaxLoaded \in Nat

VARIABLES
    loaded,   \* a history: the patterns load has taken from the store
    patterns, \* the patterns of every item of the trie, by its path
    query,    \* the arguments of the Match in progress
    found     \* its result

vars == <<loaded, patterns, query, found>>

NoQuery == [message |-> <<>>, level |-> "none", position |-> "none"]

---------------------------------------------------------------------------
(* Insert.                                                                 *)

(* The bytes that end a placeholder: `range` yields characters, whose low  *)
(* byte is looked up, but a character is left at its first byte.           *)
Taken == Verbs \cup {b \in {"u"} : WideVerb}

(* repalceFormatPlaceholder: how many bytes after a "%" belong to it, and  *)
(* the symbol that stands for them.                                        *)
Placeholder(rest) ==
    LET verb == SelectInSeq(rest, LAMBDA b : b \in Taken)
    IN  IF rest = <<>> THEN <<0, "*">>
        ELSE IF rest[1] = "%" THEN <<1, "%">>
        ELSE IF verb # 0 THEN <<verb, "*">>
        ELSE <<Len(rest), "*">>

(* The path that insert builds from a signature.                           *)
Path(key) ==
    LET path[i \in 1 .. Len(key) + 1] ==
            IF i > Len(key) THEN <<>>
            ELSE IF key[i] # "%" THEN <<key[i]>> \o path[i + 1]
            ELSE LET ph == Placeholder(SubSeq(key, i + 1, Len(key)))
                 IN  <<ph[2]>> \o path[i + ph[1] + 1]
    IN  path[1]

Items == DOMAIN patterns

(* A signature inserted replaces what its item held: breaks MatchFinds.    *)
InsertReplaces(key, p) ==
    [t \in Items \cup (Prefixes(Path(key)) \ {<<>>}) |->
        IF t = Path(key) THEN {p} ELSE IF t \in Items THEN patterns[t] ELSE {}]

(* An item for the root, which matches nothing: breaks TypeOK.             *)
InsertRoot(key, p) ==
    [t \in Items \cup Prefixes(Path(key)) |->
        (IF t \in Items THEN patterns[t] ELSE {}) \cup (IF t = Path(key) THEN {p} ELSE {})]

(* The items of the path come into being; the last one gets the pattern.   *)
Insert(key, p) ==
    [t \in Items \cup (Prefixes(Path(key)) \ {<<>>}) |->
        (IF t \in Items THEN patterns[t] ELSE {}) \cup (IF t = Path(key) THEN {p} ELSE {})]

---------------------------------------------------------------------------
(* Match.                                                                  *)

(* The width of the character at byte i, as `range` over a string sees it. *)
RuneWidth(key, i) ==
    IF key[i] = "u" /\ i < Len(key) /\ key[i + 1] = "v" THEN 2 ELSE 1

(* match[n][i] is matchNode at node n for the bytes of key from i on: the  *)
(* items appended to the result.  A character leads to a node by its first *)
(* byte; after the last one its item is appended.                          *)
MatchNode(key) ==
    LET match[n \in Items \cup {<<>>}] ==
            LET star     == Append(n, "*")
                question == Append(n, "?")
            IN  [i \in 1 .. Len(key) + 1 |->
                    LET byte == Append(n, key[i])
                        next == i + RuneWidth(key, i)
                    IN  IF i > Len(key) THEN {star} \cap Items
                        ELSE UNION {
                            IF star \notin Items THEN {}
                            ELSE {star} \cup UNION {match[star][k] : k \in i .. Len(key) + 1},
                            IF question \notin Items THEN {}
                            ELSE {t \in {question} : i = Len(key)} \cup match[question][i + 1],
                            IF key[i] \in {"*", "?"} \/ byte \notin Items THEN {}
                            ELSE {t \in {byte} : next > Len(key)} \cup match[byte][next]}]
    IN  match[<<>>][1]

(* The position is not looked at: breaks MatchSound.                       *)
SuitsLevel(p, q) == q.level \in {"", p.level}

(* MatchedResult.append: the patterns of an item with the log's level and  *)
(* position; an empty option takes any.                                    *)
Suits(p, q) ==
    /\ q.level \in {"", p.level}
    /\ q.position \in {"", p.position}

Matched(q) ==
    {p \in UNION {patterns[t] : t \in MatchNode(q.message)} : Suits(p, q)}

---------------------------------------------------------------------------
Init ==
    /\ loaded = {}
    /\ patterns = [t \in {} |-> {}]
    /\ query = NoQuery
    /\ found = {}

(* load passes a pattern on to the trie under its first signature.  One    *)
(* without a signature, or with an empty one, is left out.                 *)
Load(p) ==
    /\ p \notin loaded /\ Cardinality(loaded) < MaxLoaded
    /\ query = NoQuery
    /\ loaded' = loaded \cup {p}
    /\ patterns' = IF p.signature = <<>> \/ p.signature[1] = <<>> THEN patterns
                   ELSE Insert(p.signature[1], p)
    /\ UNCHANGED <<query, found>>

(* Match, called by the assembly lines; the lock of the trie keeps it and  *)
(* an Insert apart.                                                        *)
Match(q) ==
    /\ query = NoQuery
    /\ query' = q
    /\ found' = Matched(q)
    /\ UNCHANGED <<loaded, patterns>>

Return ==
    /\ query # NoQuery
    /\ query' = NoQuery
    /\ found' = {}
    /\ UNCHANGED <<loaded, patterns>>

Queries == [message : Messages, level : Levels \cup {""}, position : Places \cup {""}]

Next ==
    \/ \E p \in Patterns : Load(p)
    \/ \E q \in Queries : Match(q)
    \/ Return

Spec == Init /\ [][Next]_vars

---------------------------------------------------------------------------
(* Properties.                                                             *)

(* Every variable keeps its type; the root is not an item, and an item     *)
(* holds patterns that were loaded.                                        *)
TypeOK ==
    /\ loaded \subseteq Patterns
    /\ \A t \in Items : t # <<>> /\ patterns[t] \subseteq loaded
    /\ query \in Queries \cup {NoQuery}
    /\ found \subseteq loaded

(* The documented meaning of a path (pattern_trie.go:11-14): "*" stands    *)
(* for zero or more bytes, "?" for exactly one.  globs[i] holds the places *)
(* of the text from where the path from i on stands for the rest of it.    *)
Globs(path, text) ==
    LET globs[i \in 1 .. Len(path) + 1] ==
            IF i > Len(path) THEN {Len(text) + 1}
            ELSE IF path[i] = "*" THEN {j \in 1 .. Len(text) + 1 : \E k \in globs[i + 1] : j <= k}
            ELSE {j \in 1 .. Len(text) : j + 1 \in globs[i + 1] /\ path[i] \in {"?", text[j]}}
    IN  1 \in globs[1]

(* No pattern is counted for a log in UTF-8 that its signature, its level  *)
(* and its position do not fit.                                            *)
MatchSound ==
    \A p \in found :
        /\ IsUTF8(query.message) => Globs(Path(p.signature[1]), query.message)
        /\ query.level \in {"", p.level}
        /\ query.position \in {"", p.position}

(* What a call that formats `signature` may print: the text of the         *)
(* signature with any text for each verb and "%" for "%%".  prints[i]      *)
(* holds the places of the text from where it is what the signature from i *)
(* on prints.                                                              *)
Prints(signature, text) ==
    LET end == Len(signature) + 1
        prints[i \in 1 .. end] ==
            LET verb == SelectInSubSeq(signature, i + 1, Len(signature), LAMBDA b : b \in Verbs)
                rest == prints[IF verb = 0 THEN end ELSE verb + 1]
            IN  IF i = end THEN {Len(text) + 1}
                ELSE IF signature[i] # "%"
                     THEN {j \in 1 .. Len(text) : text[j] = signature[i] /\ j + 1 \in prints[i + 1]}
                ELSE IF i + 1 < end /\ signature[i + 1] = "%"
                     THEN {j \in 1 .. Len(text) : text[j] = "%" /\ j + 1 \in prints[i + 2]}
                ELSE {j \in 1 .. Len(text) + 1 : \E k \in rest : j <= k}
    IN  1 \in prints[1]

Found(p) ==
    /\ p.signature # <<>> /\ p.signature[1] # <<>>
    /\ Prints(p.signature[1], query.message)
    /\ Suits(p, query)
    => p \in found

IsASCII(text) == \A i \in 1 .. Len(text) : text[i] \notin {"u", "v"}

EndsInTwoStars(path) ==
    Len(path) > 1 /\ \A i \in Len(path) - 1 .. Len(path) : path[i] = "*"

(* The second half of a character without the first one.                   *)
HasHalf(path) == \E i \in 2 .. Len(path) : path[i] = "v" /\ path[i - 1] # "u"

(* The paths that the search is complete for.                              *)
Searchable(path) == ~EndsInTwoStars(path) /\ ~HasHalf(path)

(* A log of ASCII text is counted for every pattern that can have printed  *)
(* it, whatever other patterns share its way through the trie, unless the  *)
(* signature ends in two placeholders (then the text they print must not   *)
(* be empty), or a placeholder took half of a character for its verb.      *)
MatchFinds ==
    query # NoQuery /\ IsASCII(query.message) =>
        \A p \in loaded :
            p.signature = <<>> \/ ~Searchable(Path(p.signature[1])) \/ Found(p)

(* pattern_trie.go:137 "Match looks for all matching patterns in trie".    *)
MatchFindsAll == query # NoQuery => \A p \in loaded : Found(p)
===========================================================================
