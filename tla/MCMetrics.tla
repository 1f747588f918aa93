-------------------------------- MODULE MCMetrics ------------------------------
(* Instance of Metrics for TLC.  Sessions are alike.                          *)
EXTENDS Metrics, TLC

Symmetry == Permutations(Session)
================================================================================
