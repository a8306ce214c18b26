CONSTANTS
    MinRepeat = 10
    BranchFactor = 2
    MaxRecords = 8
    MaxDepth = 9
    MaxOffset = 63
    MaxNodes = 2
    MaxItems = 2
    Gaps = {0, 1}
    Lengths = {1, 9}
    Cuts = {2}
    InGaps = TRUE
    Nests <- MCNests
    Tops <- MCTops
    Matches <- MCMatches
    Requests <- MCRequests
    Pieces <- MCPieces
    TopTypes = {3, 4, 8}
    Sheets <- MCSheets
    Highlighters <- MCHighlighters
    TextRanges <- MCTextRanges
    StopPoints = {}

SPECIFICATION Spec

INVARIANT
    InnerInPlace
CHECK_DEADLOCK FALSE
