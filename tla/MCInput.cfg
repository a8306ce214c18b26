SPECIFICATION Spec
CONSTANTS
    Texts <- MCTexts
    Positions <- MCPositions
    Groups <- MCGroups
    LocalGroups <- MCLocalGroups
    Runs <- MCRuns
    Counts = {1, 2}
    MaxLength = 3
    MaxRanges = 3
    MaxParts = 5
    Overruns = FALSE
    EscapedAscii = FALSE
INVARIANTS
    LooksAgree
    PositionsAgree
    AssertionsHold
PROPERTY
    StreamSpec
