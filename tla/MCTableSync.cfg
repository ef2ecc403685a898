SPECIFICATION Spec
CONSTANTS
    Columns = {c1} Workers = {w1, w2} None = None Rows <- MCRows
    BlockSize = 2 MaxIterations = 2 MaxTries = 2 MaxValue = 6
INVARIANTS SumsAreExact
PROPERTIES IdentitiesAreFresh TableEnds
\* A table that is done, or failed, is left to its last attempts.
CHECK_DEADLOCK FALSE
