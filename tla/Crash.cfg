SPECIFICATION FairSpec
CONSTANTS
  NodeName <- Names
  Plans <- PairPlans
  SpawnOf <- NoSpawn
  RewindTo = {}
  MayFail <- OnlyA
  MayViolate = {}
  MayMiss = {}
  MAX_CONCURRENT = 2
  MAX_ATTEMPTS = 2
  HelpersDefined = TRUE
  Repl = FALSE
  MaxMeta = 2
  MaxCrashes = 1
  MaxResets = 1
INVARIANTS
  RunningBound
  AttemptBound
PROPERTIES
  ManifestGrows
  IndexFollows
  ImplementsLifecycle
