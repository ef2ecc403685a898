SPECIFICATION Spec
CONSTANTS StopRoom = 3 MayPanic = FALSE
PROPERTY EndedStartsNone
CHECK_DEADLOCK FALSE
