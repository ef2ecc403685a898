SPECIFICATION Spec
CONSTANTS
  my = my
  pg = pg
  None = None
  Jobs = {j1}
  Workers = {w1, w2}
  Destinations <- TwoKinds
  MySQL <- OnlyMySQL
  Triggers = {1, 2}
  Originals <- AllFire
  SuspendTries = 2
  RestoreTries = 3
  MaxRuns = 1
  MaxFaults = 1
INVARIANT NeverWithoutRecord
CHECK_DEADLOCK FALSE
