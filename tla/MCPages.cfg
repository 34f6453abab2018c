SPECIFICATION FairSpec
CONSTANTS
  Batch = 2
  MaxRows = 3
  Depth = 3
  MaxHeight = 6
  MaxReorgs = 1
  MaxOpens = 1
  ReaderLangs = {en, ru}
  ReaderLang = ru
  MaxTaps = 4
  MaxWaiting = 2
  MaxHeldPages = 1
  MaxNodeStops = 1
  Ins <- ThreeInputs
  OutSum = 7
  BlockFees <- TwoFees
  EpochLength = 2
  Epochs = 2
  FirstSubsidy = 4
  MaxTip = 3
  MaxForks = 1
  MaxLookups = 1
  MaxCallErrors = 1
INVARIANTS ListWithoutGap BackToOrigin RepliesSound
PROPERTIES ListSettles
CHECK_DEADLOCK FALSE
