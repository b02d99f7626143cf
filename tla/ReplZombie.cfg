SPECIFICATION FairSpec
CONSTANTS
  NodeName <- Names
  Plans <- ChainPlans
  SpawnOf <- NoSpawn
  RewindTo = {}
  MayFail <- NamedFail
  MayViolate = {}
  MayMiss = {}
  MAX_CONCURRENT = 2
  MAX_ATTEMPTS = 2
  HelpersDefined = TRUE
  Repl = TRUE
  MaxMeta = 2
  MaxCrashes = 0
  MaxResets = 0
PROPERTIES
  DeadExecutorSettled
