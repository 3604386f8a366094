---------------------------- MODULE AtomicLedger ----------------------------
(***************************************************************************)
(* What the ledger promises: each operation of app/server/ledger_service.py *)
(* happens at one instant, on the rows as they are at that instant.  The   *)
(* tests of the repository call the operations one after the other and so  *)
(* test this ledger.  Ledger implements it for pilots who have one request *)
(* in flight, and does not for a pilot who has two.                        *)
(***************************************************************************)
EXTENDS TradeLeg

CONSTANTS Runs, Quantities, Prices, Fees

VARIABLES live, run_finalized, leg

vars == <<live, run_finalized, leg>>

Init ==
    /\ live = {}
    /\ run_finalized = [r \in Runs |-> Unset]
    /\ leg = [r \in Runs |-> [l \in LegType |-> NoRow]]

Create(r) ==
    /\ r \notin live
    /\ live' = live \cup {r}
    /\ \E q \in Quantities, p, p2 \in Prices, type, type2 \in CargoTransferType :
          leg' = [leg EXCEPT ![r] = [acquisition |-> NewRow("create", type, q, p),
                                     sale |-> NewRow(Unset, type2, q, p2)]]
    /\ UNCHANGED run_finalized

(* One milestone is stamped; finishing a leg starts the other one.         *)
Advance(r, l) ==
    LET field == next_unset_field(l, leg[r][l]) IN
    /\ field \notin {NoMilestone, "transaction_completed_at"}
    /\ leg' = [leg EXCEPT ![r][l][field] = "advance",
                          ![r][Sibling(l)].started_at =
                              IF field = "finalized_at" /\ @ = Unset THEN "advance" ELSE @]
    /\ UNCHANGED <<live, run_finalized>>

Recorded(row, q, p, fee, type, stamp) ==
    [row EXCEPT !.quantity_scu = q, !.price_per_unit = p, !.cargo_transfer_fee = fee,
                !.cargo_transfer_type = type, !.transaction_completed_at = stamp]

(* A purchase moves the plan of a sale that is still to come.              *)
Purchase(r) ==
    /\ leg[r]["acquisition"].transaction_completed_at = Unset
    /\ \E q \in Quantities, p \in Prices, fee \in Fees, type \in CargoTransferType :
          leg' = [leg EXCEPT ![r]["acquisition"] = Recorded(@, q, p, fee, type, "purchase"),
                             ![r]["sale"].quantity_scu =
                                IF leg[r]["sale"].transaction_completed_at = Unset THEN q ELSE @]
    /\ UNCHANGED <<live, run_finalized>>

(* A sale entails the unloading.                                           *)
Unloaded(row) == [row EXCEPT !.transferred_at = IF @ = Unset THEN "sale" ELSE @]

Sale(r) ==
    /\ leg[r]["sale"].transaction_completed_at = Unset
    /\ \E q \in Quantities, p \in Prices, fee \in Fees, type \in CargoTransferType :
          leg' = [leg EXCEPT ![r]["sale"] = Unloaded(Recorded(@, q, p, fee, type, "sale"))]
    /\ UNCHANGED <<live, run_finalized>>

Edit(r, l) ==
    /\ run_finalized[r] = Unset
    /\ \E q \in Quantities \cup {leg[r][l].quantity_scu}, p \in Prices \cup {leg[r][l].price_per_unit},
          fee \in Fees \cup {leg[r][l].cargo_transfer_fee}, type \in CargoTransferType :
          leg' = [leg EXCEPT ![r][l].quantity_scu = q, ![r][l].price_per_unit = p,
                             ![r][l].cargo_transfer_fee = fee, ![r][l].cargo_transfer_type = type]
    /\ UNCHANGED <<live, run_finalized>>

Finalize(r) ==
    /\ \A l \in LegType : next_unset_field(l, leg[r][l]) = NoMilestone
    /\ run_finalized' = [run_finalized EXCEPT ![r] = "finalize"]
    /\ UNCHANGED <<live, leg>>

Filled(row) ==
    [c \in DOMAIN row |->
        IF c \in Milestone \cup {"started_at"} /\ row[c] = Unset THEN "write_off" ELSE row[c]]

(* The cargo is lost: the sale is closed as nothing for nothing.           *)
WriteOff(r) ==
    /\ run_finalized[r] = Unset
    /\ leg[r]["acquisition"].transaction_completed_at # Unset
    /\ leg[r]["sale"].transaction_completed_at = Unset
    /\ leg' = [leg EXCEPT ![r]["acquisition"] = Filled(@),
                          ![r]["sale"] = [Filled(@) EXCEPT !.quantity_scu = 0, !.price_per_unit = 0,
                                                           !.cargo_transfer_fee = 0]]
    /\ run_finalized' = [run_finalized EXCEPT ![r] = "write_off"]
    /\ UNCHANGED live

Delete(r) ==
    /\ live' = live \ {r}
    /\ leg' = [leg EXCEPT ![r] = [l \in LegType |-> NoRow]]
    /\ run_finalized' = [run_finalized EXCEPT ![r] = Unset]

Next ==
    \/ \E r \in Runs : Create(r)
    \/ \E r \in live : \/ Purchase(r) \/ Sale(r) \/ Finalize(r) \/ WriteOff(r) \/ Delete(r)
                       \/ \E l \in LegType : Advance(r, l) \/ Edit(r, l)

Spec == Init /\ [][Next]_vars
=============================================================================
