SPECIFICATION FairSpec
CONSTANTS
  Callers = {c, d}
  Talking = {c}
  Rate = 2
  Token = 3
  Second = 2
  MinNap = 1
  MaxAsked = 1
  MaxReplies = 1
PROPERTIES SomebodyIsServed EndedIsReleased HalfClosePropagates
