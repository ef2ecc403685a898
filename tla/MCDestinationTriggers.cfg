SPECIFICATION Spec
CONSTANTS
  my = my
  pg = pg
  None = None
  Jobs = {j1}
  Workers = {w1, w2}
  Destinations <- TwoKinds
  MySQL <- OnlyMySQL
  Triggers = {1, 2}
  Originals <- SomeOriginals
  SuspendTries = 2
  RestoreTries = 3
  MaxRuns = 2
  MaxFaults = 2
INVARIANTS RecordsTellOriginal OutOfTheWayIsRecorded RestoredAsBefore WritesUndisturbed PlacesKeptIfWhole
CHECK_DEADLOCK FALSE
