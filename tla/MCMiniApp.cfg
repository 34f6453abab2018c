SPECIFICATION FairSpec
CONSTANTS
  Kept = 2
  GoneKept = 1
  Nothing = Nothing
  MaxTxs = 4
  MaxBlocks = 2
  MaxFaults = 1
  Pages = {p1, p2}
  Cap = 1
  NoRender = NoRender
  MaxVersion <- Changes
  MaxBreaks = 1
INVARIANTS PageShowsList ListedUnmined ChangeAnnounced StaleIsRaced
PROPERTIES EveryPageSettles
CHECK_DEADLOCK FALSE
