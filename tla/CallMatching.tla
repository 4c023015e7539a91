---------------------------- MODULE CallMatching ----------------------------
(***************************************************************************)
(* From a log call in the source to the pattern that its log is counted    *)
(* for: the walk over the syntax trees (extractor/go/analyzer), the filter *)
(* (extractor/go/log/fllter.go), what the call prints, what the parser     *)
(* keeps of it, and the matcher of PatternTrie.                            *)
(*                                                                         *)
(* The tree is a function from nodes to records; the root of a file is the *)
(* node that has itself as parent.  A place "<file>:<line>" is a value.    *)
(***************************************************************************)
EXTENDS PatternTrie

CONSTANTS
    Ast,      \* per node, a record [kind, parent, ...]; see NodeAssumption
    Rule,     \* LogLevel of the filter rule; {} wants all levels
    Texts,    \* what the log calls print
    Quote,    \* the byte of a double quote
    BackQuote, \* that of a raw string's quote
    Special,  \* the bytes that make the logger quote a message
    NoObject  \* a name that denotes nothing the type checker knows

(* A call knows what its function denotes, if that is a selector: a        *)
(* function or method with its package and name, or something else; and    *)
(* the level and the place in the log that it prints.                      *)
ASSUME NodeAssumption ==
    \A n \in DOMAIN Ast :
        /\ Ast[n].parent \in DOMAIN Ast
        /\ Ast[n].kind = "CallExpr" =>
             /\ Ast[n].selector \in BOOLEAN /\ Ast[n].object \in {NoObject, "Func", "Var"}
             /\ Ast[n].prints # "" /\ Ast[n].place # ""
        /\ Ast[n].kind = "BasicLit" =>
             Ast[n].form \in {"string", "raw", "number"} /\ Ast[n].text \in Seq(Bytes)

(* The quotes are two bytes without a meaning for the matcher or parser.   *)
ASSUME TextAssumption ==
    /\ \A text \in Texts : text \in Seq(Bytes)
    /\ Quote \in Bytes /\ BackQuote \in Bytes /\ Quote # BackQuote
    /\ {Quote, BackQuote} \cap {"*", "?", "%", "]", "u", "v"} = {}

---------------------------------------------------------------------------
(* The walk.                                                               *)

(* astVisitor.parent: the i-th node above n, which the walk has pushed.    *)
Stack(n, i) ==
    LET above[k \in 0 .. i] == IF k = 0 THEN n ELSE Ast[above[k - 1]].parent
    IN  above[i]

(* callContext: the function around n, or its file.                        *)
CallContext(n) ==
    LET context[m \in DOMAIN Ast] ==
            IF Ast[m].kind \in {"FuncDecl", "File"} THEN m ELSE context[Ast[m].parent]
    IN  context[n]

(* The names of the functions of each package that logs, by level.         *)
LogFunctions ==
    [log |-> [error |-> {"ErrorFilterContextCanceled", "Error", "Errorf"},
              warn  |-> {"Warnf", "Warn"},
              fatal |-> {"Fatalf", "Fatal"},
              info  |-> {"Printf", "Print", "Infof", "Info"}],
     zap |-> [error |-> {"Errorf", "Error"},
              warn  |-> {"Warnf", "Warn"},
              fatal |-> {"Fatalf", "Fatal"},
              info  |-> {"Infof", "Info"}]]

(* Filter.Filter: the level of a function that logs, if the rule wants it. *)
Filter(pkg, fn) ==
    {level \in {"error", "warn", "fatal", "info"} :
        /\ pkg \in DOMAIN LogFunctions /\ fn \in LogFunctions[pkg][level]
        /\ Rule = {} \/ level \in Rule}

(* A literal without its quotes: breaks CallFound.                         *)
ValueBare(n) == Ast[n].text

(* A literal as the source writes it.                                      *)
Value(n) ==
    CASE Ast[n].form = "string" -> <<Quote>> \o Ast[n].text \o <<Quote>>
      [] Ast[n].form = "raw" -> <<BackQuote>> \o Ast[n].text \o <<BackQuote>>
      [] Ast[n].form = "number" -> Ast[n].text

(* filterLog and matchLog: every literal that is an argument of a call     *)
(* x.f(..) of a log function makes a pattern, at the place of the          *)
(* literal.                                                                *)
PatternsOf(n) ==
    LET call == Ast[Stack(n, 1)]
    IN  IF Ast[n].kind = "BasicLit" /\ call.kind = "CallExpr" /\ call.selector /\ call.object = "Func"
        THEN {[signature |-> <<Value(n)>>, level |-> level, position |-> Ast[n].place,
               func |-> CallContext(Stack(n, 1)), node |-> n] : level \in Filter(call.pkg, call.fn)}
        ELSE {}

Extracted == UNION {PatternsOf(n) : n \in DOMAIN Ast}

---------------------------------------------------------------------------
(* The log.                                                                *)

(* The logger quotes a message that has special bytes in it.  (It escapes  *)
(* quotes and control characters as a Go literal does; they are left out.) *)
Quoted(text) ==
    IF \E i \in 1 .. Len(text) : text[i] \in Special THEN <<Quote>> \o text \o <<Quote>> ELSE text

(* ZapLog.Extract takes the message until the first "]".                   *)
Msg(text) ==
    LET logged == Quoted(text)
        end    == SelectInSeq(logged, LAMBDA b : b = "]")
    IN  IF end = 0 THEN logged ELSE SubSeq(logged, 1, end - 1)

LogMessages == {Msg(text) : text \in Texts}

---------------------------------------------------------------------------
(* The literals that are the message of a log call above them.             *)
MessageLiterals ==
    {n \in DOMAIN Ast : Ast[n].kind = "BasicLit" /\ Ast[n].form # "number" /\ Ast[n].first
                        /\ PatternsOf(n) # {}}

(* A log that a call prints, as the matcher gets it.                       *)
Log(n, text) ==
    LET call == Ast[Stack(n, 1)]
    IN  [message |-> Msg(text), level |-> call.prints, position |-> call.place]

(* When such a log can be traced back to the pattern p of its call: the    *)
(* call stands on the line of its message and prints the level that the    *)
(* filter has for it, the message is no raw string, the logger puts it in  *)
(* quotes, and it has no "]".                                              *)
Traceable(n, p, text) ==
    /\ Log(n, text).position = p.position /\ Log(n, text).level = p.level
    /\ Ast[n].form = "string"
    /\ Quoted(text) # text
    /\ \A i \in 1 .. Len(text) : text[i] # "]"

(* A text that does not look as if it were quoted already, printed for a   *)
(* literal whose placeholders all have a verb.                             *)
Plain(n, text) ==
    /\ IsUTF8(text) /\ \A i \in 1 .. Len(text) : text[i] \notin {Quote, BackQuote}
    /\ Last(Path(Value(n))) \in {Quote, BackQuote}

Logs ==
    UNION {{[query |-> Log(n, text), pattern |-> p,
             traceable |-> Traceable(n, p, text), plain |-> Plain(n, text)] :
                p \in PatternsOf(n), text \in {t \in Texts : Prints(Ast[n].text, t)}} :
           n \in MessageLiterals}

(* The log of a call is counted for the pattern of this call, whichever    *)
(* other patterns the trie holds, if it is traceable (and the matcher is   *)
(* complete for it, see MatchFinds); a plain log only then                 *)
(* (analyzer.go:92-108, parser.go:139; the tests of the trie have          *)
(* signatures in quotes throughout, pattern_trie_test.go:40-70).           *)
CallFound ==
    \A log \in Logs :
        LET complete == /\ IsASCII(log.query.message)
                        /\ Searchable(Path(log.pattern.signature[1]))
        IN  query = log.query /\ log.pattern \in loaded =>
                /\ log.traceable /\ complete => log.pattern \in found
                /\ log.plain /\ log.pattern \in found => log.traceable
=============================================================================
