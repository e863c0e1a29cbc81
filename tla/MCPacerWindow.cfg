SPECIFICATION BoundedSpec
CONSTANTS
  Callers = {p, q, r}
  Rate = 2
  Token = 7
  Second = 4
  MinNap = 1
  MaxClock = 12
CHECK_DEADLOCK FALSE
INVARIANTS CreditBound NoOversleep
PROPERTIES CapSpec
