SPECIFICATION Spec
CONSTANTS
  Plans <- MCPlans
  MaxConcurrency = 2
  None = None
INVARIANTS ParentsInserted GroupOrder SlotsBounded SuccessIsComplete
PROPERTIES NoStartOnceStopped StepEnds ImplementsRunOrder
