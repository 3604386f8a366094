--------------------------- MODULE MCLedgerClients ---------------------------
(***************************************************************************)
(* Instances of LedgerClients for TLC: one run, two sets of details that   *)
(* differ in the fee and in the loading, which is what changes the order   *)
(* of a sale's milestones.                                                 *)
(***************************************************************************)
EXTENDS LedgerClients, TLC

MCDetails ==
    {[quantity_scu |-> 1, price_per_unit |-> 1, cargo_transfer_fee |-> 0, cargo_transfer_type |-> "manual"],
     [quantity_scu |-> 1, price_per_unit |-> 1, cargo_transfer_fee |-> 1, cargo_transfer_type |-> "autoload"]}

(* The panel's clicks are told apart by nothing but what they ask for.     *)
ClickSymmetry == Permutations(Clicks)
=============================================================================
