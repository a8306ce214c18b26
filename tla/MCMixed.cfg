CONSTANTS
    MinRepeat = 10
    BranchFactor = 2
    MaxRecords = 8
    MaxDepth = 9
    MaxOffset = 63
    MaxNodes = 3
    MaxItems = 2
    Gaps = {0, 1}
    Lengths = {1, 9}
    Cuts = {2}
    InGaps = FALSE
    Nests <- MCNests
    Tops <- MCTops
    Matches <- MCMatches
    Requests <- MCRequests
    Pieces <- MCPieces
    TopTypes = {3, 4, 8}
    Sheets <- MCSheets
    Highlighters <- MCHighlighters
    TextRanges <- MCTextRanges
    StopPoints = {2, 20}

SPECIFICATION Spec

INVARIANTS
    ScopesMatch
    StopsAgree
    SpansTagText
    ClassesMarkText

PROPERTIES
    MixedSpec
    Returns
CHECK_DEADLOCK FALSE
