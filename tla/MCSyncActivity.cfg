SPECIFICATION Spec
CONSTANTS StopRoom = 3 MayPanic = TRUE
INVARIANTS TypeOK SuccessIsWhole
PROPERTIES AlwaysAnswered NothingLeftRunning
\* An attempt ends: that it ends well is what the properties say.
CHECK_DEADLOCK FALSE
