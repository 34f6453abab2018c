SPECIFICATION Spec
CONSTANTS
    ChunkSize = 2
    StartTop = 1
    MaxTop = 4
    MaxReorgs = 2
    MaxDepth = 2
    MaxFaults = 1
    MaxCrashes = 1
INVARIANT RollbackHeals
CHECK_DEADLOCK FALSE
