SPECIFICATION Spec
CONSTANTS
    State <- MCState
    ActionRow <- MCActionRow
    SkipRow <- MCSkipRow
    ActionElse <- MCNoActions
    SkipElse <- MCNoActions
    DefaultReduce <- MCDefaultReduce
    ForcedReduce <- MCForcedReduce
    SkippedState <- MCSkippedState
    AcceptingState <- MCAcceptingState
    LexingState <- MCLexingState
    Goto <- MCGoto
    DynamicPrecedence <- MCDynamicPrecedence
    Lex <- MCLex
    Language <- MCLanguage
    Inputs <- MCAllTexts
    TopRule <- MCTopRule
    MinRepeatTerm = 21
    MaxNode = 29
    MaxStackDepth = 1000
    MaxBufferRecords = 1000
    MaxNext = 4
    MaxInsertDepth = 300
    DampenInsertDepth = 120
    MinLargeReductionSpan = 2000
    MaxStacks = 12
    MaxActions = 1000
    MaxRecoveryActions = 1000
    RecoveryDistance = 5
    MaxRemaining = 3
    MinBranchLength = 125
    ForceReduceLimit = 10
    CutDepth = 2800
    CutToDepth = 2000
    MaxLeftReductions = 300
    StopPoints = {2}
    MaxResults = 2
INVARIANTS
    TypeOK
    PostfixOrder
    SequenceCovering
    FrozenSettled
    FramesOrdered
    NoneBehind
    NoTwins
    TreeReachesEnd
    BestDerivation
    Recognizes
    OverIsOver
