SPECIFICATION FairSpecLimiter
CONSTANTS
  Flows = {f}
  Modes = {"gauge", "ceiling", "fixed"}
  Ceiling = 1
  Floor = 1
  Step = 2
  Token = 4
  Second = 2
  FillTime = 2
  Warmup = 2
  Stall = 1
  Reap = 2
PROPERTIES EveryRequestAdmitted
