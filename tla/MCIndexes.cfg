SPECIFICATION FairSpec
CONSTANTS
    Order <- MCOrder
    ChunkSize = 2
    Confirmations = 2
    FlakyReads = FALSE
    NoPlace = NoPlace
    StartTop = 2
    MaxTop = 4
    MaxReorgs = 1
    MaxDepth = 2
    MaxFaults = 1
    MaxCrashes = 1
INVARIANTS ExactlyOnce BalancesOfChain CountIsWhole
PROPERTIES EveryScanArrives IsTally
CHECK_DEADLOCK FALSE
