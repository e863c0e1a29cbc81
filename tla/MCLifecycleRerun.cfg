SPECIFICATION Spec
CONSTANTS
  Runs = {r, s}
  Downs = {d}
  Kinds <- SomeKinds
  Overlap = FALSE
  Origin = 0
  None = None
CHECK_DEADLOCK FALSE
INVARIANTS RerunReverted
