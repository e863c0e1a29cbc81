SPECIFICATION FairSpecLimiter
CONSTANTS
  Flows = {f, g}
  Modes = {"gauge", "ceiling", "fixed"}
  Ceiling = 5
  Floor = 3
  Step = 1
  Token = 6
  Second = 2
  FillTime = 4
  Warmup = 3
  Stall = 1
  Reap = 2
INVARIANTS LimiterTypeOK TrackedIsUpstream NoIdleToken
PROPERTIES NoLossForgotten EveryRequestAdmitted InflightNeverLeaks RampReachesCeiling
