--------------------------- MODULE MCSyncActivity ---------------------------
\* An attempt with the channel of the code: room for three signals.
EXTENDS SyncActivity
=============================================================================
