SPECIFICATION Spec
CONSTANTS
  Batch = 1
  MaxRows = 3
  Depth = 1
  MaxHeight = 5
  MaxReorgs = 1
  MaxOpens = 1
  ReaderLangs = {en, ru}
  ReaderLang = ru
  MaxTaps = 4
  MaxWaiting = 2
  MaxHeldPages = 1
  MaxNodeStops = 1
  Ins <- ThreeInputs
  OutSum = 7
  BlockFees <- TwoFees
  EpochLength = 2
  Epochs = 2
  FirstSubsidy = 4
  MaxTip = 3
  MaxForks = 1
  MaxLookups = 1
  MaxCallErrors = 1
INVARIANT Contiguous
CHECK_DEADLOCK FALSE
