CONSTANTS
  c1 = c1  c2 = c2  a1 = a1  a2 = a2  t1 = t1  t2 = t2  al1 = al1  al2 = al2
  Chats = {c1, c2}
  Addrs = {a1}
  Txs = {}
  Aliases = {al1}
  Pays <- PayA1
  Spends <- NoSpends
  Requests = {r1, r2, r3}
  Calls <- SharedCalls
  StoredAtStart <- NobodyWatches
  MinedAtStart = {}
  Orderly = TRUE
  MaxWatches = 1
  Expiring = FALSE
  MaxFaults = 0
  MaxCrashes = 0
  Absent = Absent  NoAddr = NoAddr  None = None  Boot = Boot
SPECIFICATION Spec
SYMMETRY RequestSymmetry
INVARIANT WatchedIsMatched
CHECK_DEADLOCK FALSE
