SPECIFICATION FairSpec
CONSTANTS
    ChunkSize = 2
    StartTop = 1
    MaxTop = 3
    MaxReorgs = 2
    MaxDepth = 2
    MaxFaults = 1
    MaxCrashes = 1
INVARIANTS StaleIsGoing NoGap
PROPERTIES RowsNeverRewritten CatchesUp
CHECK_DEADLOCK FALSE
