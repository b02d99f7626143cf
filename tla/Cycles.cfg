SPECIFICATION FairSpec
CONSTANTS
  NodeName <- Names
  Plans <- MixedPlans
  SpawnOf <- NoSpawn
  RewindTo = {}
  MayFail <- NamedFail
  MayViolate = {}
  MayMiss <- OnlyC
  MAX_CONCURRENT = 2
  MAX_ATTEMPTS = 2
  HelpersDefined = TRUE
  Repl = FALSE
  MaxMeta = 2
  MaxCrashes = 0
  MaxResets = 0
INVARIANTS
  TypeOK
  NoOrphanExecutor
  RetriesDiagnosed
  CompleteMeansDone
PROPERTIES
  Terminates
  ExhaustedFails
