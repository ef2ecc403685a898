SPECIFICATION Spec
CONSTANTS
  Plans <- UpdatePlans
  MaxConcurrency = 2
  None = None
INVARIANT ColumnsWritten
