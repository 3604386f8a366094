----------------------------- MODULE MCUexCaches -----------------------------
(***************************************************************************)
(* Values of the caches' constants for the model checker.                  *)
(***************************************************************************)
EXTENDS UexCaches, TLC

CONSTANTS o1, o2, f1, f2
=============================================================================
