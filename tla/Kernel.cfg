SPECIFICATION Spec
CONSTANTS
  Packages <- SmallPackages
  Requirements <- ModifyA
  SeamStatus <- DraftSeam
  Policy <- NoPolicy
  ExistingRepo = FALSE
  Commands = {"snapshot-with-stores", "continue"}
  Subprocess = TRUE
  MayFail = {"a"}
  Missing = {"claude_code"}
  Live = TRUE
  MaxCycles = 2
  MaxCrashes = 1
INVARIANTS
  SnapshotTyped
  FirmGround
  PatchOnce
  AttemptsLogged
  HistoryLogged
  AffectedDeprecated
CHECK_DEADLOCK FALSE
