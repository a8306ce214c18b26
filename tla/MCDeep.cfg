SPECIFICATION FairSpec
CONSTANTS
    State <- MCState
    ActionRow <- MCActionRow
    SkipRow <- MCSkipRow
    ActionElse <- MCNoActions
    SkipElse <- MCNoActions
    DefaultReduce <- MCDefaultReduce
    ForcedReduce <- MCForcedReduce
    SkippedState <- MCSkippedState
    AcceptingState <- MCAcceptingState
    LexingState <- MCLexingState
    Goto <- MCGoto
    DynamicPrecedence <- MCDynamicPrecedence
    Lex <- MCLex
    Language <- MCLanguage
    Inputs <- MCRecursiveTexts
    TopRule <- MCTopRule
    MinRepeatTerm = 21
    MaxNode = 29
    MaxStackDepth = 3
    MaxBufferRecords = 1000
    MaxNext = 1
    MaxInsertDepth = 3
    DampenInsertDepth = 2
    MinLargeReductionSpan = 1
    MaxStacks = 2
    MaxActions = 16
    MaxRecoveryActions = 4
    RecoveryDistance = 2
    MaxRemaining = 1
    MinBranchLength = 1
    ForceReduceLimit = 2
    CutDepth = 3
    CutToDepth = 2
    MaxLeftReductions = 1
    StopPoints = {2}
    MaxResults = 2
INVARIANTS
    AlwaysATree
    WithinBudget
PROPERTIES
    Progress
    Terminates
