SPECIFICATION Spec
CONSTANTS
  my = my
  pg = pg
  None = None
  Jobs = {j1}
  Workers = {w1, w2}
  Destinations <- OnlyMySQL
  MySQL <- OnlyMySQL
  Triggers = {1, 2}
  Originals <- AllFire
  SuspendTries = 2
  RestoreTries = 3
  MaxRuns = 2
  MaxFaults = 2
INVARIANT CreatedInPlace
CHECK_DEADLOCK FALSE
