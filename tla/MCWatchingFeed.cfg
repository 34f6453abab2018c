CONSTANTS
  c1 = c1  c2 = c2  a1 = a1  a2 = a2  t1 = t1  t2 = t2  al1 = al1  al2 = al2
  Chats = {c1}
  Addrs = {a1, a2}
  Txs = {t1, t2}
  Aliases = {al1, al2}
  Pays <- PayThenSpend
  Spends <- SpendT1
  Requests = {r1, r2}
  Calls <- FeedCalls
  StoredAtStart <- NobodyWatches
  MinedAtStart = {t1}
  Orderly = TRUE
  MaxWatches = 2
  Expiring = TRUE
  MaxFaults = 0
  MaxCrashes = 0
  Absent = Absent  NoAddr = NoAddr  None = None  Boot = Boot
SPECIFICATION FairSpec
PROPERTIES BroadcastEnds TransactionTold
CHECK_DEADLOCK FALSE
