CONSTANTS
  c1 = c1  c2 = c2  a1 = a1  a2 = a2  t1 = t1  t2 = t2  al1 = al1  al2 = al2
  Chats = {c1}
  Addrs = {a1}
  Txs = {t1}
  Aliases = {al1, al2}
  Pays <- PayA1
  Spends <- NoSpends
  Requests = {r1, r2}
  Calls <- EveryCall
  StoredAtStart <- A1Watched
  MinedAtStart = {}
  Orderly = TRUE
  MaxWatches = 1
  Expiring = FALSE
  MaxFaults = 1
  MaxCrashes = 1
  Absent = Absent  NoAddr = NoAddr  None = None  Boot = Boot
SPECIFICATION Spec
SYMMETRY RequestSymmetry
INVARIANTS TypeOK ToldAndConfirmedOnce NotifiersFollowTable WatchedIsMatched CoinsKnown
CHECK_DEADLOCK FALSE
