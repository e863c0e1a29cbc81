SPECIFICATION Spec
CONSTANTS
  Conns = {c}
  Period = 1
  Nap = 2
  Flush = 1
  StaleAfter = 5
INVARIANTS StatsTypeOK ShownIsAlive AliveIsShown CountedOnce
