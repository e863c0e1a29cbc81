SPECIFICATION BoundedSpec
CONSTANTS
  Flows = {f}
  Modes = {"gauge", "ceiling", "fixed"}
  Ceiling = 4
  Floor = 2
  Step = 1
  Token = 4
  Second = 2
  FillTime = 4
  Warmup = 0
  Stall = 0
  Reap = 1
  MaxClock = 6
CHECK_DEADLOCK FALSE
INVARIANTS CreditBound RateInForce
PROPERTIES CapSpec
