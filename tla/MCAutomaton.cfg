SPECIFICATION TokenSpec
CONSTANTS
    Symbols <- MCSymbols
    Terminals <- MCTerminals
    Eof = "eof"
    AmbiguityGroups = {"amb"}
    Repeated = {"R"}
    Interesting <- MCInteresting
    Inline <- MCInline
    Preserved <- MCPreserved
    StartTerms <- MCStartTerms
    Grammars <- MCGrammars
    MaxText = 5
    MaxStack = 12
    CodePointLimit = 3
    Lexicons <- MCLexicons
    MaxTokenGroups = 2
    Lexemes <- MCLexemes
CHECK_DEADLOCK FALSE
INVARIANTS
    Sound
    MemoHonest
    SkipHonest
    NoNewConflict
    Recognizes
    SameLanguage
    TokensAsDeclared
PROPERTY
    Finishes
