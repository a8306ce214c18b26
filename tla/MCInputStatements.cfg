SPECIFICATION Spec
CONSTANTS
    Texts <- MCTexts
    Positions <- MCPositions
    Groups <- MCGroups
    LocalGroups <- MCLocalGroups
    Runs <- MCRuns
    Counts = {1, 2}
    MaxLength = 3
    MaxRanges = 1
    MaxParts = 5
    Overruns = TRUE
    EscapedAscii = TRUE
INVARIANT
    StatementsKept
