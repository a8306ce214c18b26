CONSTANTS
    MinRepeat = 10
    BranchFactor = 2
    MaxRecords = 3
    MaxDepth = 1
    MaxOffset = 15
    MaxNodes = 4
    MaxItems = 7
    MaxNodesRead = 3
    MaxItemsRead = 4
    Gaps = {0, 1}
    Lengths = {1, 2, 4}
    Builds <- MCHollow
    Forms = {"built"}
    Mounts = {"none"}
    Inner <- MCInner
    Modes = {{}}
    Positions = {0, 1, 2}
    Sides <- MCSides
    Reads <- ReadsHollow

SPECIFICATION Spec


PROPERTY
    PreviousIsBefore
CHECK_DEADLOCK FALSE
