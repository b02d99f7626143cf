SPECIFICATION Spec
CONSTANTS
  NodeName <- Names
  Plans <- AuditPlans
  SpawnOf <- NoSpawn
  RewindTo = {}
  MayFail = {}
  MayViolate = {}
  MayMiss = {}
  MAX_CONCURRENT = 2
  MAX_ATTEMPTS = 2
  HelpersDefined = TRUE
  Repl = FALSE
  MaxMeta = 2
  MaxCrashes = 0
  MaxResets = 0
INVARIANTS
  DoneIsComplete
