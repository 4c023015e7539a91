\* Pairs of patterns, every ASCII message of up to three bytes, and what the log
\* calls of a small file print.
CONSTANTS
    Bytes = {"a", "d", "s", "u", "v", "7", "%", "*", "?", " ", "q", "r", "]"}
    Patterns <- MCPatterns
    Messages <- MCMessages
    Levels = {"info", "warn"}
    Places = {"f:1", "f:2"}
    Verbs <- MCVerbs
    WideVerb = TRUE
    MaxLoaded = 2
    Ast <- MCAst
    Rule = {}
    Texts <- MCTexts
    Quote = "q"
    BackQuote = "r"
    Special = {"q", " ", "=", "[", "]"}
    NoObject = NoObject
SPECIFICATION Spec
INVARIANTS
    TypeOK
    MatchSound
    MatchFinds
    CallFound
