SPECIFICATION FairSpec
CONSTANTS
    Runs = {r1}
    Settlers = {s1, s2}
    None = None
    DayLength = 2
    MaxTime = 3
    SettleAfter = 1
    MaxTries = 2
    MaxFaults = 2
INVARIANTS NotClosedEarly ToldIsKept
PROPERTIES CountedOnce OpenRunsAreSettled
\* The runs end and the clock stops at its bound.
CHECK_DEADLOCK FALSE
