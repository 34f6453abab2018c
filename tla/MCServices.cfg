CONSTANTS
  Callers = {c1, c2}
  Watchdog = Watchdog
  Nobody = Nobody
  FailedPings = 2
  MaxConns = 3
  MaxRestarts = 1
  MaxTimeouts = 1
  Handlers = {h1, h2}
  Unlocked = Unlocked
  Langs = {en}
  NoLang = NoLang
  Uncached = Uncached
  States <- TwoStates
  NoState = ""
  MaxUpdates = 2
  MaxErrors = 1
  MaxStops = 2
  MaxDiskFaults = 2
  MaxEnds = 2
  MaxNews = 1
  MaxPages = 1
SPECIFICATION FairSpec
INVARIANTS CachePerConnection AnsweredOnce LangAgrees NeverTruncated ShutdownLosesNothing
PROPERTIES CallsSucceed TextLeavesNothing BackupTaken
CHECK_DEADLOCK FALSE
