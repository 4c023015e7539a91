\* Pairs of patterns, every ASCII message of up to three bytes and two others.
CONSTANTS
    Bytes = {"a", "d", "s", "u", "v", "7", "%", "*", "?", " ", "q", "r", "]"}
    Patterns <- MCRunePatterns
    Messages <- MCMessages
    Levels = {"info", "warn"}
    Places = {"f:1", "f:2"}
    Verbs <- MCVerbs
    WideVerb = TRUE
    MaxLoaded = 2
    Ast <- MCAst
    Rule = {}
    Texts <- MCTexts
    Quote = "q"
    BackQuote = "r"
    Special = {"q", " ", "=", "[", "]"}
    NoObject = NoObject
SPECIFICATION Spec
INVARIANTS
    MatchFindsAll
