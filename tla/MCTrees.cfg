CONSTANTS
    MinRepeat = 10
    BranchFactor = 2
    MaxRecords = 3
    MaxDepth = 1
    MaxOffset = 15
    MaxNodes = 4
    MaxItems = 7
    MaxNodesRead = 3
    MaxItemsRead = 4
    Gaps = {0, 1}
    Lengths = {1, 2, 4}
    Builds <- MCBuilds
    Forms = {"built", "balanced", "materialized"}
    Mounts = {"none", "replacement", "overlay"}
    Inner <- MCInner
    Modes <- MCModes
    Positions = {0, 1, 2}
    Sides <- MCSides
    Reads <- MCReads

SPECIFICATION Spec

INVARIANTS
    BuildKeeps
    BuffersFit

PROPERTY
    WalkSpec
CHECK_DEADLOCK FALSE
