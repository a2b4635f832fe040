---- MODULE MCMlxProxy ----
(* MlxProxy with a few client connections. *)
EXTENDS MlxProxy
CONSTANTS r1, r2, r3
====
