------------------------- MODULE MCConnectionManager -------------------------
\* Two sessions of a group and one of another, two connections.
EXTENDS ConnectionManager

CONSTANTS s1, s2, s3, g1, g2
MCSessions == {s1, s2, s3}
MCGroups == {g1, g2}
MCGroupOf == [s \in MCSessions |-> IF s = s3 THEN g2 ELSE g1]
=============================================================================
