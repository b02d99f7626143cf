SPECIFICATION Spec
CONSTANTS
  Terminal = {t1, t2}
  Workflow = {w1, w2}
  Run = {r1, r2}
  Nil = Nil
  MaxCommands = 5
  MaxCycles = 2
  MaxCrashes = 1
INVARIANTS
  AttachedRunKnown
  RuntimeFits
  SessionCurrent
  ListedRunnable
PROPERTIES
  WorkflowsKept
SYMMETRY Interchangeable
CHECK_DEADLOCK FALSE
