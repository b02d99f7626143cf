SPECIFICATION Spec
CONSTANTS
  NodeName <- Names6
  Plans <- RedoPlans
  SpawnOf <- SpawnFromA
  RewindTo = {"b"}
  MayFail <- OnlyE
  MayViolate = {"a"}
  MayMiss = {}
  MAX_CONCURRENT = 2
  MAX_ATTEMPTS = 3
  HelpersDefined = TRUE
  Repl = TRUE
  MaxMeta = 2
  MaxCrashes = 0
  MaxResets = 0
INVARIANTS
  UniqueIds
  GovernedGate
  UpstreamDone
