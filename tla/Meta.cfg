SPECIFICATION FairSpec
CONSTANTS
  Domain = {"d1", "d2", "d3"}
  Work = {"w1"}
  Event = {"e1"}
  Design <- Designs
  NoDesign = NoDesign
  Gap <- Gaps
  XVDomain = {"architecture_review"}
  MaxRing = 3
  MaxCalls = 3
INVARIANTS
  MetaTyped
  CycleVerdict
  VerdictOnDesign
PROPERTIES
  CallsReturn
CHECK_DEADLOCK FALSE
