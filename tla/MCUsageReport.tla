--------------------------- MODULE MCUsageReport ---------------------------
(* Two replicas, the first with a clock ahead and the diagnostics on. *)
EXTENDS UsageReport, TLC

CONSTANTS ahead, exact

MCSkew == (ahead :> 1) @@ (exact :> 0)
=============================================================================
