------------------------------- MODULE Ledger -------------------------------
(***************************************************************************)
(* The ledger server: app/server/ledger_service.py behind the routes of    *)
(* app/server/routes/ledger.py.                                            *)
(*                                                                         *)
(* Every operation is a coroutine that opens a database session, SELECTs   *)
(* the rows it decides on, checks its guards on what it read, changes the  *)
(* loaded objects and commits.  Other requests run at every await between  *)
(* the read and the commit, and nothing locks the rows that were read      *)
(* (READ COMMITTED, db/session.py).  So a request is two or three steps:   *)
(* the read, which computes the unit of work (the columns the UPDATE will  *)
(* carry: those whose new value differs from the one that was read), for   *)
(* two operations a second read, of the sibling leg, which first flushes   *)
(* the changes made so far and so takes the row lock of the leg; and the   *)
(* commit, which writes those columns and no others.                       *)
(*                                                                         *)
(* A request whose guard refuses answers 400 or 404 and changes nothing:   *)
(* its read is not a step of this module.                                  *)
(***************************************************************************)
EXTENDS TradeLeg, FiniteSets

CONSTANTS
    Pilots,         \* users.id of the pilots
    Runs,           \* ids of trade runs; ids are UUIDs, so each has one creator
    Owner,          \* the pilot who creates each run id
    Slots,          \* requests the server holds at one time
    MaxPerPilot,    \* how many of them may be one pilot's
    Quantities, Prices, Fees,   \* values a pilot may state
    Idle,           \* a slot with no request
    Keep            \* a column an UPDATE leaves alone

ASSUME OwnerAssumption == Owner \in [Runs -> Pilots]
ASSUME ValuesAssumption == Quantities \subseteq Int /\ Prices \subseteq Int /\ Fees \subseteq Int
ASSUME SlotsAssumption == IsFiniteSet(Slots)
ASSUME KeepAssumption ==
    /\ Keep \notin StampColumn
    /\ Keep \notin CargoTransferType
    /\ Keep \notin Int

VARIABLES
    live,           \* the run ids that are rows of trade_run
    run_finalized,  \* TradeRun.finalized_at
    leg,            \* the two TradeLeg rows of each run
    txn             \* the requests between their first read and their commit

vars == <<live, run_finalized, leg, txn>>

-----------------------------------------------------------------------------
(* Units of work.                                                          *)

Update == [started_at               : Stamp \cup {Keep},
           reached_at               : Stamp \cup {Keep},
           transaction_completed_at : Stamp \cup {Keep},
           transferred_at           : Stamp \cup {Keep},
           finalized_at             : Stamp \cup {Keep},
           cargo_transfer_type      : CargoTransferType \cup {Keep},
           quantity_scu             : Int \cup {Keep},
           price_per_unit           : Int \cup {Keep},
           cargo_transfer_fee       : Int \cup {Keep}]

NoUpdate == [started_at |-> Keep, reached_at |-> Keep, transaction_completed_at |-> Keep,
             transferred_at |-> Keep, finalized_at |-> Keep, cargo_transfer_type |-> Keep,
             quantity_scu |-> Keep, price_per_unit |-> Keep, cargo_transfer_fee |-> Keep]

Changed(old, new) == IF new = old THEN Keep ELSE new
Written(update, old) == IF update = Keep THEN old ELSE update

Apply(u, row) ==
    [started_at               |-> Written(u.started_at, row.started_at),
     reached_at               |-> Written(u.reached_at, row.reached_at),
     transaction_completed_at |-> Written(u.transaction_completed_at, row.transaction_completed_at),
     transferred_at           |-> Written(u.transferred_at, row.transferred_at),
     finalized_at             |-> Written(u.finalized_at, row.finalized_at),
     cargo_transfer_type      |-> Written(u.cargo_transfer_type, row.cargo_transfer_type),
     quantity_scu             |-> Written(u.quantity_scu, row.quantity_scu),
     price_per_unit           |-> Written(u.price_per_unit, row.price_per_unit),
     cargo_transfer_fee       |-> Written(u.cargo_transfer_fee, row.cargo_transfer_fee)]

NoWrites == [l \in LegType |-> NoUpdate]

Operation == {"advance_leg", "record_purchase", "record_sale", "update_transaction",
              "finalize_run", "write_off_run", "delete_run"}

(***************************************************************************)
(* "sibling": the sibling leg is still to be read, and writes holds what   *)
(* the code means to set on it; "flushed": it has been read, and the row   *)
(* of txn.leg is locked; "commit": the commit is next.  For an operation  *)
(* on a whole run, leg is "none".                                          *)
(***************************************************************************)
Txn == {t \in [op     : Operation,
               phase  : {"sibling", "flushed", "commit"},
               user   : Pilots,
               run    : Runs,
               leg    : LegType \cup {"none"},
               writes : [LegType -> Update],
               run_finalized : Stamp \cup {Keep}] :
          t.phase # "commit" => t.leg \in LegType}

Holds(s, r, l) == txn[s] # Idle /\ txn[s].phase = "flushed" /\ txn[s].run = r /\ txn[s].leg = l
Locked(s, r, l) == \E t \in Slots \ {s} : Holds(t, r, l)

InFlight(u) == {s \in Slots : txn[s] # Idle /\ txn[s].user = u}

-----------------------------------------------------------------------------
Init ==
    /\ live = {}
    /\ run_finalized = [r \in Runs |-> Unset]
    /\ leg = [r \in Runs |-> [l \in LegType |-> NoRow]]
    /\ txn = [s \in Slots |-> Idle]

(***************************************************************************)
(* create_run_from_route: one INSERT of the run and its two legs.  A       *)
(* deleted id stands for a fresh UUID once no request names it.            *)
(***************************************************************************)
CreateRun(u, r) ==
    /\ Owner[r] = u
    /\ r \notin live
    /\ \A s \in Slots : txn[s] # Idle => txn[s].run # r
    /\ \E q \in Quantities, p, p2 \in Prices, type, type2 \in CargoTransferType :
          leg' = [leg EXCEPT ![r] = [l \in LegType |->
                    IF l = "acquisition" THEN NewRow("create", type, q, p)
                                         ELSE NewRow(Unset, type2, q, p2)]]
    /\ live' = live \cup {r}
    /\ UNCHANGED <<run_finalized, txn>>

(***************************************************************************)
(* _get_owned_leg and the run queries: the row exists and is the caller's. *)
(***************************************************************************)

Fetched(s, u, r) ==
    /\ txn[s] = Idle
    /\ Cardinality(InFlight(u)) < MaxPerPilot
    /\ r \in live
    /\ Owner[r] = u

Begin(s, t) == txn' = [txn EXCEPT ![s] = t] /\ UNCHANGED <<live, run_finalized, leg>>

LegTxn(op, phase, u, r, l, update, sibling) ==
    [op |-> op, phase |-> phase, user |-> u, run |-> r, leg |-> l,
     writes |-> [k \in LegType |-> IF k = l THEN update ELSE sibling],
     run_finalized |-> Keep]

RunTxn(op, u, r, writes, stamp) ==
    [op |-> op, phase |-> "commit", user |-> u, run |-> r, leg |-> "none",
     writes |-> writes, run_finalized |-> stamp]

advance_leg(s, u, r, l) ==
    LET field == next_unset_field(l, leg[r][l]) IN
    /\ Fetched(s, u, r)
    /\ field \notin {NoMilestone, "transaction_completed_at"}
    /\ LET update == [NoUpdate EXCEPT ![field] = "advance"] IN
       Begin(s, IF field = "finalized_at"
                THEN LegTxn("advance_leg", "sibling", u, r, l, update,
                            [NoUpdate EXCEPT !.started_at = "advance"])
                ELSE LegTxn("advance_leg", "commit", u, r, l, update, NoUpdate))

NeverAlsoStamp(stamp, also_stamp_transferred) == Keep      \* mutant: forgets the unloading
AlsoStamp(stamp, also_stamp_transferred) == IF also_stamp_transferred THEN stamp ELSE Keep

_apply_transaction(row, q, p, fee, type, stamp, also_stamp_transferred) ==
    [NoUpdate EXCEPT !.quantity_scu = Changed(row.quantity_scu, q),
                     !.price_per_unit = Changed(row.price_per_unit, p),
                     !.cargo_transfer_type = Changed(row.cargo_transfer_type, type),
                     !.cargo_transfer_fee = Changed(row.cargo_transfer_fee, fee),
                     !.transaction_completed_at = stamp,
                     !.transferred_at = AlsoStamp(stamp, also_stamp_transferred)]

Unrecorded(row) == row.transaction_completed_at = Unset

record_purchase(s, u, r, l) ==
    LET row == leg[r][l] IN
    /\ Fetched(s, u, r)
    /\ l = "acquisition"
    /\ Unrecorded(row)
    /\ \E q \in Quantities, p \in Prices, fee \in Fees, type \in CargoTransferType :
          Begin(s, LegTxn("record_purchase", "sibling", u, r, l,
                          _apply_transaction(row, q, p, fee, type, "purchase", FALSE),
                          [NoUpdate EXCEPT !.quantity_scu = q]))

record_sale(s, u, r, l) ==
    LET row == leg[r][l] IN
    /\ Fetched(s, u, r)
    /\ l = "sale"
    /\ Unrecorded(row)
    /\ \E q \in Quantities, p \in Prices, fee \in Fees, type \in CargoTransferType :
          Begin(s, LegTxn("record_sale", "commit", u, r, l,
                          _apply_transaction(row, q, p, fee, type, "sale",
                                             row.transferred_at = Unset),
                          NoUpdate))

(* None leaves the column alone; a negative value is refused.              *)
Optional(values) == {v \in values : v >= 0} \cup {Keep}

EditableAlways(r) == TRUE    \* mutant: Finalize is not the lock point
Editable(r) == run_finalized[r] = Unset

update_transaction(s, u, r, l) ==
    LET row == leg[r][l] IN
    /\ Fetched(s, u, r)
    /\ Editable(r)
    /\ \E q \in Optional(Quantities), p \in Optional(Prices), fee \in Optional(Fees),
          type \in CargoTransferType \cup {Keep} :
          Begin(s, LegTxn("update_transaction", "commit", u, r, l,
                          [NoUpdate EXCEPT !.quantity_scu = Changed(row.quantity_scu, q),
                                           !.price_per_unit = Changed(row.price_per_unit, p),
                                           !.cargo_transfer_fee = Changed(row.cargo_transfer_fee, fee),
                                           !.cargo_transfer_type = Changed(row.cargo_transfer_type, type)],
                          NoUpdate))

SaleDone(r) ==    \* mutant: only the last leg is looked at
    next_unset_field("sale", leg[r]["sale"]) = NoMilestone
LegsDone(r) == \A l \in LegType : next_unset_field(l, leg[r][l]) = NoMilestone

finalize_run(s, u, r) ==
    /\ Fetched(s, u, r)
    /\ LegsDone(r)
    /\ Begin(s, RunTxn("finalize_run", u, r, NoWrites, "finalize"))

StampUnset(column) == IF column = Unset THEN "write_off" ELSE Keep

Closed(row) ==
    [NoUpdate EXCEPT !.started_at = StampUnset(row.started_at),
                     !.reached_at = StampUnset(row.reached_at),
                     !.transaction_completed_at = StampUnset(row.transaction_completed_at),
                     !.transferred_at = StampUnset(row.transferred_at),
                     !.finalized_at = StampUnset(row.finalized_at)]

ClosedForNothing(row) ==
    [Closed(row) EXCEPT !.quantity_scu = Changed(row.quantity_scu, 0),
                        !.price_per_unit = Changed(row.price_per_unit, 0),
                        !.cargo_transfer_fee = Changed(row.cargo_transfer_fee, 0)]

CanWriteOffUnbought(r) ==    \* mutant: closes a run that bought nothing
    run_finalized[r] = Unset /\ Unrecorded(leg[r]["sale"])
CanWriteOff(r) ==
    /\ run_finalized[r] = Unset
    /\ ~Unrecorded(leg[r]["acquisition"])
    /\ Unrecorded(leg[r]["sale"])

write_off_run(s, u, r) ==
    /\ Fetched(s, u, r)
    /\ CanWriteOff(r)
    /\ Begin(s, RunTxn("write_off_run", u, r,
                       [l \in LegType |-> IF l = "acquisition" THEN Closed(leg[r][l])
                                                              ELSE ClosedForNothing(leg[r][l])],
                       "write_off"))

delete_run(s, u, r) ==
    /\ Fetched(s, u, r)
    /\ Begin(s, RunTxn("delete_run", u, r, NoWrites, Keep))

-----------------------------------------------------------------------------
(***************************************************************************)
(* The SELECT of the sibling leg, in advance_leg and record_purchase.  The *)
(* session flushes first, so the step waits for the lock of the row.       *)
(***************************************************************************)
CarriedOverASale(t) ==    \* mutant: the carry-forward ignores a recorded sale
    LET row == leg[t.run][Sibling(t.leg)] IN
    CASE t.op = "advance_leg" /\ row.started_at # Unset -> NoUpdate
      [] t.op = "record_purchase" ->
            [t.writes[Sibling(t.leg)] EXCEPT !.quantity_scu = Changed(row.quantity_scu, @)]
      [] OTHER -> t.writes[Sibling(t.leg)]

SiblingNotStarted(t) ==    \* mutant: a done leg does not start the other one
    IF t.op = "record_purchase" THEN t.writes[Sibling(t.leg)] ELSE NoUpdate

SiblingUpdate(t) ==
    LET row      == leg[t.run][Sibling(t.leg)]
        intended == t.writes[Sibling(t.leg)]
    IN  CASE t.op = "advance_leg" /\ row.started_at = Unset -> intended
          [] t.op = "record_purchase" /\ row.transaction_completed_at = Unset ->
                [intended EXCEPT !.quantity_scu = Changed(row.quantity_scu, @)]
          [] OTHER -> NoUpdate

ReadSibling(s) ==
    LET t == txn[s] IN
    /\ t # Idle
    /\ t.phase = "sibling"
    /\ t.run \in live
    /\ ~Locked(s, t.run, t.leg)
    /\ txn' = [txn EXCEPT ![s].phase = "flushed",
                          ![s].writes[Sibling(t.leg)] = SiblingUpdate(t)]
    /\ UNCHANGED <<live, run_finalized, leg>>

Ready(s) ==
    /\ txn[s] # Idle
    /\ txn[s].phase # "sibling"
    /\ txn[s].run \in live
    /\ \A l \in LegType : txn[s].writes[l] # NoUpdate \/ txn[s].op = "delete_run"
                             => ~Locked(s, txn[s].run, l)

Finish(s) == txn' = [txn EXCEPT ![s] = Idle]

Commit(s) ==
    LET t == txn[s] IN
    /\ Ready(s)
    /\ t.op # "delete_run"
    /\ leg' = [leg EXCEPT ![t.run] = [l \in LegType |-> Apply(t.writes[l], leg[t.run][l])]]
    /\ run_finalized' = [run_finalized EXCEPT ![t.run] = Written(t.run_finalized, @)]
    /\ Finish(s)
    /\ UNCHANGED live

(* The delete of a run takes its legs with it.                             *)
CommitDelete(s) ==
    LET r == txn[s].run IN
    /\ Ready(s)
    /\ txn[s].op = "delete_run"
    /\ live' = live \ {r}
    /\ leg' = [leg EXCEPT ![r] = [l \in LegType |-> NoRow]]
    /\ run_finalized' = [run_finalized EXCEPT ![r] = Unset]
    /\ Finish(s)

(***************************************************************************)
(* The session is closed without a commit: an UPDATE found its row deleted *)
(* (StaleDataError), the database broke off, or the server was restarted.  *)
(***************************************************************************)
Abort(s) ==
    /\ txn[s] # Idle
    /\ Finish(s)
    /\ UNCHANGED <<live, run_finalized, leg>>

LegRequest(s, u, r, l) ==
    \/ advance_leg(s, u, r, l)
    \/ record_purchase(s, u, r, l)
    \/ record_sale(s, u, r, l)
    \/ update_transaction(s, u, r, l)

RunRequest(s, u, r) ==
    \/ finalize_run(s, u, r)
    \/ write_off_run(s, u, r)
    \/ delete_run(s, u, r)

Next ==
    \/ \E u \in Pilots, r \in Runs : CreateRun(u, r)
    \/ \E s \in Slots, u \in Pilots, r \in Runs, l \in LegType : LegRequest(s, u, r, l)
    \/ \E s \in Slots, u \in Pilots, r \in Runs : RunRequest(s, u, r)
    \/ \E s \in Slots : ReadSibling(s) \/ Commit(s) \/ CommitDelete(s) \/ Abort(s)

Spec == Init /\ [][Next]_vars

-----------------------------------------------------------------------------
(* Properties that hold however many requests are in flight.               *)

(* The type of the rows and of the units of work in flight.                *)
TypeOK ==
    /\ live \subseteq Runs
    /\ run_finalized \in [Runs -> StampColumn]
    /\ leg \in [Runs -> [LegType -> LegRow]]
    /\ txn \in [Slots -> Txn \cup {Idle}]

(* A recorded sale has its unloading stamped, whatever its transfer type:  *)
(* the fact that makes transfer type safe to edit after the record         *)
(* (docs/ledger-edit-path.md, rule 2).                                     *)
SaleStampsTransfer ==
    \A r \in Runs :
        leg[r]["sale"].transaction_completed_at # Unset => leg[r]["sale"].transferred_at # Unset

(* A done leg stays done: no race leaves a finalized leg with a step still *)
(* to take, and no edit of its transfer type opens one: a leg of either    *)
(* type passes through milestones that are all set.                        *)
DoneLegIsComplete ==
    \A r \in Runs, l \in LegType :
        leg[r][l].finalized_at # Unset => \A m \in Milestone : leg[r][l][m] # Unset

(* A run in the ledger has both its legs done: finalize_run and            *)
(* write_off_run close no run over an open leg, even one edited meanwhile. *)
FinalizedRunIsComplete ==
    \A r \in Runs : run_finalized[r] # Unset =>
        \A l \in LegType : /\ leg[r][l].finalized_at # Unset
                           /\ next_unset_field(l, leg[r][l]) = NoMilestone

(* When a leg is done the other one is under way: the pilot is never left  *)
(* between two legs with nothing started.                                  *)
NextStopStarted ==
    \A r \in Runs, l \in LegType :
        leg[r][l].finalized_at # Unset => leg[r][Sibling(l)].started_at # Unset

(* A purchase is one that a pilot recorded: a write-off never invents the  *)
(* purchase of the run it closes.  And its three rows are closed together: *)
(* a sale stamped by a write-off belongs to a run that is closed.          *)
ClosedRunWasBought ==
    \A r \in Runs :
        /\ leg[r]["acquisition"].transaction_completed_at \in {Unset, "purchase"}
        /\ leg[r]["sale"].transaction_completed_at = "write_off" => run_finalized[r] # Unset

(* A run changes only by a request of the pilot who owns it.               *)
OnlyOwnersWrite ==
    [][\A r \in live :
          \/ r \in live' /\ UNCHANGED <<run_finalized[r], leg[r]>>
          \/ \E s \in Slots : /\ txn[s] # Idle /\ txn'[s] = Idle
                              /\ txn[s].user = Owner[r] /\ txn[s].run = r]_vars

-----------------------------------------------------------------------------
(* Properties of a ledger that serves one request of a pilot at a time.    *)

Atomic == INSTANCE AtomicLedger

(* With one request of a pilot in flight the ledger is atomic: each        *)
(* operation of ledger_service.py takes effect at its commit, on the rows  *)
(* its guards were checked against.                                        *)
AtomicSpec == Atomic!Spec

(* The values of a finalized run do not change: update_transaction edits a *)
(* leg "up until its run is finalized" (ledger_service.py:223), and the    *)
(* panel says that recorded values can't be changed after Finalize.        *)
FinalizedFrozen ==
    [][\A r \in Runs : run_finalized[r] # Unset /\ r \in live' => leg'[r] = leg[r]]_vars

(* write_off_run "refuses ... once a sale is recorded"                     *)
(* (ledger_service.py:282): it never zeroes a sale.                        *)
WriteOffSparesSale ==
    [][\A r \in Runs : run_finalized'[r] = "write_off" /\ run_finalized[r] # "write_off" =>
          leg[r]["sale"].transaction_completed_at = Unset]_vars

(* "Recording a second time stays refused" (docs/ledger-edit-path.md,      *)
(* rule 6): a purchase or sale is recorded on a leg that has none.         *)
RecordedOnce ==
    [][\A s \in Slots :
          /\ txn[s] # Idle /\ txn'[s] = Idle /\ leg' # leg
          /\ txn[s].op \in {"record_purchase", "record_sale"}
          => leg[txn[s].run][txn[s].leg].transaction_completed_at = Unset]_vars

(* record_sale does not clobber the real timestamp of Confirm Unloaded     *)
(* (ledger_service.py:206-208).                                            *)
UnloadedStampKept ==
    [][\A r \in Runs : leg[r]["sale"].transferred_at = "advance" /\ r \in live' =>
          leg'[r]["sale"].transferred_at = "advance"]_vars

(* A write-off books the whole outlay as a loss: "run_profit comes out as  *)
(* -(investment + fees)" (ledger_service.py:281-282).                      *)
WriteOffBooksLoss ==
    \A r \in Runs : run_finalized[r] = "write_off" =>
        run_profit(leg[r]) = - (run_investment(leg[r]) + leg[r]["acquisition"].cargo_transfer_fee)

-----------------------------------------------------------------------------
(***************************************************************************)
(* The inductive invariant.  What a request found out at its read is still *)
(* true at its commit, although the rows have changed since, because it is *)
(* about milestones that are set and nothing unsets a milestone.           *)
(***************************************************************************)

(* The column is set once t has committed on these rows of its run.        *)
WillBeSet(t, rows, l, column) ==
    t.writes[l][column] # Keep \/ rows[l][column] # Unset

TxnInv(t, rows) ==
    /\ t.user = Owner[t.run]
    /\ t.writes["sale"].transaction_completed_at # Keep => WillBeSet(t, rows, "sale", "transferred_at")
    /\ \A l \in LegType : t.writes[l].finalized_at # Keep =>
          /\ \A m \in Milestone : WillBeSet(t, rows, l, m)
          /\ t.phase # "sibling" => WillBeSet(t, rows, Sibling(l), "started_at")
    /\ t.run_finalized # Keep =>
          \A l \in LegType : \A m \in Milestone : WillBeSet(t, rows, l, m)
    /\ t.writes["acquisition"].transaction_completed_at \in {Keep, "purchase"}
    /\ t.writes["sale"].transaction_completed_at = "write_off" => t.run_finalized # Keep
    /\ t.phase = "sibling" =>
          /\ t.writes[t.leg].finalized_at # Keep => /\ t.op = "advance_leg"
                                                    /\ t.writes[Sibling(t.leg)].started_at # Keep
          /\ \A m \in Milestone : t.writes[Sibling(t.leg)][m] = Keep

(* Every request in flight on a run that still exists will leave, when it  *)
(* commits, rows that keep the invariants: its guards, checked on the rows *)
(* it read, are not undone by what the others have committed since.        *)
InFlightInv ==
    \A s \in Slots : txn[s] # Idle /\ txn[s].run \in live => TxnInv(txn[s], leg[txn[s].run])

(* A run that is not in the database is not closed.                        *)
GoneRunIsOpen == \A r \in Runs \ live : run_finalized[r] = Unset

IInv ==
    /\ TypeOK
    /\ GoneRunIsOpen
    /\ InFlightInv
    /\ SaleStampsTransfer
    /\ DoneLegIsComplete
    /\ FinalizedRunIsComplete
    /\ NextStopStarted
    /\ ClosedRunWasBought
=============================================================================
