SPECIFICATION CacheSpec
CONSTANTS
    State <- MCState
    ActionRow <- MCActionRow
    SkipRow <- MCSkipRow
    ActionElse <- MCNoActions
    SkipElse <- MCNoActions
    DefaultReduce <- MCNoActions
    ForcedReduce <- MCNoActions
    SkippedState = {}
    AcceptingState = {}
    LexingState <- MCState
    Goto <- MCNothing
    DynamicPrecedence <- MCNothing
    TopRule <- MCTopRule
    MinRepeatTerm = 6
    MaxNode = 5
    Position = {0, 1, 2, 3}
    InputEnd = 3
    Clip <- MCClip
    Context = {0, 1}
    Tokenizer <- MCTokenizer
    Mask <- MCMask
    Read <- MCRead
    Specialize <- MCSpecialize
    Invalid <- MCInvalid
    Strict = TRUE
    Filtered = {1}
    StartSet <- MCStartSet
    NextChar <- MCNextChar
INVARIANTS
    OneReading
    OnlyValid
    Fresh
PROPERTIES
    SelectionSpec
CHECK_DEADLOCK FALSE
