--------------------------- MODULE MCPatternTrie ---------------------------
(***************************************************************************)
(* Instances of PatternTrie and CallMatching for TLC.  "d" and "s" are     *)
(* verbs, "a" is not, "uv" is a character that is taken for one; "q" and   *)
(* "r" are quotes.                                                         *)
(***************************************************************************)
EXTENDS CallMatching

MCVerbs == {"d", "s"}

MCSignatures == {
    <<"a">>, <<"a", "d">>, <<"%", "d">>, <<"a", "%", "d">>, <<"%", "d", "a">>,
    <<"%", "a", "d", "a">>, <<"a", "%", "s", "d">>, <<"%", "%">>, <<"%", "%", "d">>,
    <<"%", "d", "%", "s">>, <<"%", "s", "%", "d", "a">>, <<"a", "%">>, <<"%", "a">>,
    <<"u", "v">>, <<"a", "%", "u", "v">>, <<"%", "u", "v", "d">>,
    <<"?">>, <<"a", "?">>, <<"?", "%", "d">>, <<"%", "d", "?">>, <<"a", "*">>, <<>>}

Pattern(s, l, q) == [signature |-> s, level |-> l, position |-> q]

(* Every signature once, two patterns that differ only in their level or   *)
(* only in their place, one without a signature, and those extracted.      *)
MCPatterns ==
    {Pattern(<<s>>, "info", "f:1") : s \in MCSignatures}
    \cup {Pattern(<<<<"a">>>>, "warn", "f:1"), Pattern(<<<<"a">>>>, "info", "f:2"),
          Pattern(<<>>, "info", "f:1")}
    \cup Extracted

MCMessages ==
    BoundedSeq({"a", "d", "%", "?"}, 3) \cup {<<"u", "v">>, <<"a", "u", "v">>, <<"u", "v", "v">>}
    \cup LogMessages

(* A signature with a character of two bytes.                              *)
MCRunePatterns == {Pattern(<<<<"a", "u", "v">>>>, "info", "f:1")}

---------------------------------------------------------------------------
(* A file with one function and a variable; all calls but two are in it.   *)

File == [kind |-> "File", parent |-> "file"]
Func == [kind |-> "FuncDecl", parent |-> "file"]

Call(parent, pkg, fn, prints, place) ==
    [kind |-> "CallExpr", parent |-> parent, selector |-> TRUE, object |-> "Func",
     pkg |-> pkg, fn |-> fn, prints |-> prints, place |-> place]

Lit(parent, form, text, place, first) ==
    [kind |-> "BasicLit", parent |-> parent, form |-> form, text |-> text, place |-> place,
     first |-> first]

MCAst == [
    file  |-> File,
    func  |-> Func,
    c1 |-> Call("func", "log", "Info", "info", "f:1"),    \* log.Info("a d")
    l1 |-> Lit("c1", "string", <<"a", " ", "d">>, "f:1", TRUE),
    c2 |-> Call("func", "zap", "Warn", "warn", "f:2"),    \* x.Warn("a")
    l2 |-> Lit("c2", "string", <<"a">>, "f:2", TRUE),
    c3 |-> Call("func", "log", "Warnf", "warn", "f:1"),   \* log.Warnf("%d d", 7)
    l3 |-> Lit("c3", "string", <<"%", "d", " ", "d">>, "f:1", TRUE),
    n3 |-> Lit("c3", "number", <<"7">>, "f:1", FALSE),
    c4 |-> Call("file", "log", "Print", "info", "f:1"),   \* the message on the next line
    l4 |-> Lit("c4", "string", <<"a", " ", "%", "s">>, "f:2", TRUE),
    c5 |-> Call("func", "log", "Infof", "info", "f:2"),   \* log.Infof(`a %s`, x)
    l5 |-> Lit("c5", "raw", <<"a", " ", "%", "s">>, "f:2", TRUE),
    c6 |-> Call("func", "fmt", "Printf", "info", "f:1"),
    l6 |-> Lit("c6", "string", <<"a", " ", "d">>, "f:1", TRUE),
    c7 |-> [Call("file", "log", "Info", "info", "f:2") EXCEPT !.object = "Var"],
    l7 |-> Lit("c7", "string", <<"a", " ", "d">>, "f:2", TRUE),
    c8 |-> Call("func", "log", "Info", "info", "f:2"),    \* log.Info("a" + x)
    b8 |-> [kind |-> "BinaryExpr", parent |-> "c8"],
    l8 |-> Lit("b8", "string", <<"a", " ", "d">>, "f:2", TRUE),
    c9 |-> Call("func", "log", "Infof", "info", "f:1"),   \* log.Infof(`%s`, x)
    l9 |-> Lit("c9", "raw", <<"%", "s">>, "f:1", TRUE),
    c0 |-> Call("func", "log", "Infof", "info", "f:2"),   \* log.Infof("a %", x)
    l0 |-> Lit("c0", "string", <<"a", " ", "%">>, "f:2", TRUE),
    cu |-> Call("func", "zap", "Info", "info", "f:2"),    \* log.Info("a <uv>")
    lu |-> Lit("cu", "string", <<"a", " ", "u", "v">>, "f:2", TRUE)]

MCTexts ==
    {<<"a">>, <<"a", " ", "d">>, <<"7", " ", "d">>, <<"a", " ", "]">>, <<"a", " ", "]", "d">>,
     <<"a", "]", " ", "d">>, <<"r", "a", "r">>, <<"a", " ", "u", "v">>}
===========================================================================
