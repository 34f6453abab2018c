CONSTANTS
  Scripts <- MCScripts
  AddrOf <- AddressOfScript
  NoAddr = ""
  Body <- Bodies
  Voided = {0}
  Shards = 2
  ShardOf <- Hashes
  Batch = 2
  Fetch = 1
  Sum = 2
  Flags <- SomeFlags
  Never = Never
  MaxTop = 3
  MaxBranch = 2
  MaxRuns = 3
  MaxFaults = 1
  Outputs = {"x", "y", "z", "w"}
  NoScript = ""
  Pays <- PaysTo
  NoAddress = ""
  Broken = Broken
  Padding = Padding
  Disks <- DiskFiles
  ActiveMin = 2
  MaxCount = 4
  BufferedAddrs = 2
  Messages <- MCMessages
  MaxBlock = 5000
  Magic <- MCMagic
  Rounds = 14
  ScriptInputs <- MCForms
  Mistyped = {1, 2, 5, 20, 34, 42}
SPECIFICATION Spec
INVARIANTS AnswersOfChain ReadBackAsWritten
CHECK_DEADLOCK FALSE
