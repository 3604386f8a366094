------------------------------ MODULE TradeLeg ------------------------------
(***************************************************************************)
(* The rows of the trade ledger and the pure helpers on them               *)
(* (app/db/models.py, app/db/trade_run_store.py).  The server's ledger,    *)
(* the voice tools and the overlay panel all take their decisions from     *)
(* these helpers, so every module about the ledger extends this one.       *)
(*                                                                         *)
(* A timestamp column is abstracted to the operation that stamped it: what *)
(* the code tells apart is whether a milestone is set, and what the        *)
(* properties tell apart is which operation set it.  Names of terminals,   *)
(* commodities and ships never change and are left out.                    *)
(***************************************************************************)
EXTENDS Integers, Sequences

LegType == {"acquisition", "sale"}
CargoTransferType == {"manual", "autoload"}

Unset == "unset"
Stamp == {"create", "advance", "purchase", "sale", "write_off", "finalize"}
Milestone == {"reached_at", "transaction_completed_at", "transferred_at", "finalized_at"}

StampColumn == Stamp \cup {Unset}

LegRow == [started_at               : StampColumn,
           reached_at               : StampColumn,
           transaction_completed_at : StampColumn,
           transferred_at           : StampColumn,
           finalized_at             : StampColumn,
           cargo_transfer_type      : CargoTransferType,
           quantity_scu             : Int,
           price_per_unit           : Int,
           cargo_transfer_fee       : Int]

NewRow(started, type, q, p) ==
    [started_at |-> started, reached_at |-> Unset, transaction_completed_at |-> Unset,
     transferred_at |-> Unset, finalized_at |-> Unset, cargo_transfer_type |-> type,
     quantity_scu |-> q, price_per_unit |-> p, cargo_transfer_fee |-> 0]

(* Stands for the absence of a row: the legs of a run that does not exist. *)
NoRow == NewRow(Unset, "manual", 0, 0)

Sibling(l) == IF l = "acquisition" THEN "sale" ELSE "acquisition"

(***************************************************************************)
(* The order in which a leg of type l passes its milestones.  An autoload  *)
(* sale never stops at transferred_at: record_sale stamps it.              *)
(***************************************************************************)

MilestoneSequence(l, row) ==
    IF l = "acquisition"
    THEN <<"reached_at", "transaction_completed_at", "transferred_at", "finalized_at">>
    ELSE IF row.cargo_transfer_type = "manual"
    THEN <<"reached_at", "transferred_at", "transaction_completed_at", "finalized_at">>
    ELSE <<"reached_at", "transaction_completed_at", "finalized_at">>

NoMilestone == "none"

next_unset_field(l, row) ==
    LET seq     == MilestoneSequence(l, row)
        pending == {i \in DOMAIN seq : row[seq[i]] = Unset}
    IN  IF pending = {} THEN NoMilestone
        ELSE seq[CHOOSE i \in pending : \A j \in pending : i <= j]

(***************************************************************************)
(* The money of a run, from the values on its two legs.                    *)
(***************************************************************************)
run_investment(legs) == legs["acquisition"].quantity_scu * legs["acquisition"].price_per_unit
run_revenue(legs)    == legs["sale"].quantity_scu * legs["sale"].price_per_unit
run_fees(legs)       == legs["acquisition"].cargo_transfer_fee + legs["sale"].cargo_transfer_fee
run_profit(legs)     == run_revenue(legs) - run_investment(legs) - run_fees(legs)

(***************************************************************************)
(* The leg of a run a pilot is working on: the acquisition until it is     *)
(* done, then the sale, then none.                                         *)
(***************************************************************************)
current_leg(legs) ==
    IF legs["acquisition"].finalized_at = Unset THEN "acquisition"
    ELSE IF legs["sale"].finalized_at = Unset THEN "sale"
    ELSE "none"
=============================================================================
