----------------------------- MODULE MCRunUsage -----------------------------
(* A run, its attempts and two settlers that race, over two days. *)
EXTENDS RunUsage
=============================================================================
