SPECIFICATION FairSpec
CONSTANTS
    ahead = ahead
    exact = exact
    Replicas = {ahead, exact}
    Skew <- MCSkew
    Diagnosing = {ahead}
    Runs = {r1}
    None = None
    Unset = Unset
    ReportDays = {0, 1}
    DayLength = 2
    MaxTime = 4
    ClosedAfter = 1
    WaitBeforeFirst = 2
    RetryAfter = 0
    SentDays = 2
    SentBefore = 0
    PendingCap = 1
    MaxFaults = 1
INVARIANTS ReportIsWhole NoConflict SentArrived
PROPERTIES FirstWaits PendingIsStored
\* The clock stops at its bound.
CHECK_DEADLOCK FALSE
