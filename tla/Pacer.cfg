SPECIFICATION Spec
CONSTANTS
  Callers = {c, d}
  Talking = {c, d}
  Rate = 1
  Token = 2
  Second = 2
  MinNap = 1
  MaxAsked = 1
  MaxReplies = 1
INVARIANTS PacerTypeOK PaidFor CountersTrue Lossless
PROPERTIES NothingCutOff
