------------------------------ MODULE MCLedger ------------------------------
(***************************************************************************)
(* Values of the ledger's constants for the model checker.                 *)
(***************************************************************************)
EXTENDS Ledger, TLC

CONSTANTS alice, bob, run1, s1, s2

OneRunOwner  == run1 :> alice
SlotSymmetry == Permutations(Slots)
=============================================================================
