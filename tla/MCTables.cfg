CONSTANTS
  Chain <- MCChain
  Payee <- AddressesOf
  NoPayee = ""
  Slot <- SlotsOf
  MaxScanFaults = 1
  ChunkSize = 3
  FlushKeys = 3
  Workers = {w1, w2}
  AddrsFirstPage = 2
  AddrsPage = 1
  AddrsMaxRows = 3
  AddrsRestoreRows = 2
  BalChunk = 4
  BalFlushKeys = 3
  Fetchers = 2
  Confirmations = 1
  Prefix <- PrefixesOf
  NoScript = "none"
  RangeBlocks = 2
  IndexChunk = 3
  MaxLookup = 4
  ScriptOf <- OwnScripts
  NodeAddress <- NamesOf
  AddrTxBatch = 2
  AddrTxLimit = 3
  History <- MCHistory
  HistoryFiles = {"unset", "whole"}
  Sources = 2
  Quotes = {310, 325}
  Tolerance = 1
  Horizon = 1
  Periods = {1, 4}
  FirstDay = 4
  LastDay = 6
  Attempts = 3
  BlockWeight = 80
  BlocksAhead = 3
  Mempools <- MCMempools
  MinFees = {1000, 2500}
  MaxPoolTxs = 2
  MaxArrivals = 3
  MaxPoolBlocks = 1
  MaxPoolFaults = 1
  FlowWindow = 1
  MaxFlowTime = 5
  NodesTTL = 2
  NodesMaxAge = 2
  MaxCardTime = 5
  MaxCardFaults = 2
SPECIFICATION FairSpec
INVARIANTS TablesOfChain IndexAndPages FiguresOfSources
PROPERTIES WorkEnds FiguresNeverOlder
CHECK_DEADLOCK FALSE
