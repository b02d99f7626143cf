SPECIFICATION FairSpec
CONSTANTS
  Package = {"a", "b"}
  Behaviour <- AllBehaviours
  Capacity = 1
  Timeout = 1
  MaxAttempts = 2
  NoCommand = {"b"}
  MayMiss = {"a"}
  MaxLost = 2
INVARIANTS
  TransportTyped
  LiveAreWatched
  VerdictFits
  
PROPERTIES
  CycleEnds
CHECK_DEADLOCK FALSE
