SPECIFICATION Spec
CONSTANTS
    k1 = k1 k2 = k2 k3 = k3 k4 = k4 k5 = k5
    MaxRow = 4 Boss <- MCBoss
    MaxChild = 3 ParentOf <- MCParentOf Nullable = {1}
    Keys = {k1, k2, k3, k4, k5} None = None
    Transforms <- MCTransforms Missing <- MCMissing
    Policies = {"none", "nothing"}
    PageLimit = 3 BatchSize = 2 Workers = {w1, w2} MaxFaults = 2
INVARIANTS TypeOK ReferencesHold ReferencesFollow RowsWhole DiscardedIsExact RetriesGoThrough
\* A table that is done is left to the attempts given up on.
CHECK_DEADLOCK FALSE
