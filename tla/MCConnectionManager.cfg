SPECIFICATION Spec
CONSTANTS
    s1 = s1 s2 = s2 s3 = s3 g1 = g1 g2 = g2
    Sessions <- MCSessions Groups <- MCGroups GroupOf <- MCGroupOf
    Connections = {c1, c2}
    MaxClients = 3 NoClient = NoClient
INVARIANTS InUseStaysOpen OneClientPerConnection NothingForgotten ReleaseClosesUnused
PROPERTIES UnusedCloses ShutdownClosesAll
\* After a shutdown, and with every client opened, nothing is left to do.
CHECK_DEADLOCK FALSE
