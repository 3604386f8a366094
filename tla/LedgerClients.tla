---------------------------- MODULE LedgerClients ----------------------------
(***************************************************************************)
(* The two clients of the ledger, working for one pilot at the same time:  *)
(* the voice tools the model calls (app/tools/trade_run) and the overlay   *)
(* panel the pilot clicks (app/overlay/trade_runs_panel.py).               *)
(*                                                                         *)
(* The server takes each request at one instant (AtomicLedger), so every   *)
(* interleaving here is of the clients' own making: a voice tool reads the *)
(* leg it is about in one request and acts on it in the next ones, and the *)
(* panel acts on the list it last rendered.  A request whose answer is     *)
(* late is one more request in flight: the tool that gave up on it and is  *)
(* called again is another member of Voices.                               *)
(***************************************************************************)
EXTENDS TradeLeg

CONSTANTS Runs, Voices, Clicks, Details

Column == {"quantity_scu", "price_per_unit", "cargo_transfer_fee", "cargo_transfer_type"}
DetailRow == [quantity_scu : Nat, price_per_unit : Nat,
              cargo_transfer_fee : Nat, cargo_transfer_type : CargoTransferType]

ASSUME DetailsAssumption == Details \subseteq DetailRow
ASSUME CallersAssumption == Voices \cap Clicks = {}

VARIABLES
    live, run_finalized, leg,   \* the ledger
    known,                      \* ids of runs ever created: an id is never given twice
    call,                       \* what each voice tool call and each click has in flight
    shown,                      \* the list the panel rendered last: run -> its legs
    armed                       \* runs whose Write off button was clicked once

vars == <<live, run_finalized, leg, known, call, shown, armed>>
ledger == <<live, run_finalized, leg>>

Server == INSTANCE AtomicLedger WITH
              Quantities <- {d.quantity_scu : d \in Details},
              Prices     <- {d.price_per_unit : d \in Details},
              Fees       <- {0} \cup {d.cargo_transfer_fee : d \in Details}

Callers == Voices \cup Clicks
Idle == [step |-> "idle"]
NoRunShown == [r \in {} |-> 0]

InProgress == {r \in live : run_finalized[r] = Unset}

(***************************************************************************)
(* The voice tools.  Each names the milestone it is about.                 *)
(***************************************************************************)
Tool == {"mark_arrived", "mark_cargo_acquired", "mark_cargo_sold",
         "confirm_cargo_loaded", "confirm_cargo_unloaded", "update_leg_details"}

LegTypesOf(tool) ==
    CASE tool \in {"mark_cargo_acquired", "confirm_cargo_loaded"} -> {"acquisition"}
      [] tool \in {"mark_cargo_sold", "confirm_cargo_unloaded"}   -> {"sale"}
      [] OTHER                                                    -> LegType

AdvancesAt(tool) ==
    CASE tool = "mark_arrived" -> {"reached_at"}
      [] tool \in {"confirm_cargo_loaded", "confirm_cargo_unloaded"} -> {"transferred_at"}
      [] OTHER -> {}

CatchesUpAt(tool) ==
    CASE tool = "mark_cargo_acquired" -> {"reached_at"}
      [] tool = "mark_cargo_sold"     -> {"reached_at", "transferred_at"}
      [] OTHER -> {}

Recorders == {"mark_cargo_acquired", "mark_cargo_sold"}

RecordsUnreached(tool, field) ==     \* mutant: a purchase needs no arrival
    IF tool = "update_leg_details" THEN "update"
    ELSE IF field \in AdvancesAt(tool) THEN "advance"
    ELSE IF tool \in Recorders /\ field # "finalized_at" THEN "record"
    ELSE "refuse"

AdvancesWhateverIsNext(tool, field) ==     \* mutant: the tool does not check the step it is for
    IF tool = "update_leg_details" THEN "update"
    ELSE IF tool \notin Recorders THEN "advance"
    ELSE IF field \in CatchesUpAt(tool) THEN "catch_up"
    ELSE IF field = "transaction_completed_at" THEN "record"
    ELSE "refuse"

(* What a tool does about a leg whose next milestone is field.             *)
FirstStep(tool, field) ==
    IF tool = "update_leg_details" THEN "update"
    ELSE IF field \in AdvancesAt(tool) THEN "advance"
    ELSE IF field \in CatchesUpAt(tool) THEN "catch_up"
    ELSE IF tool \in Recorders /\ field = "transaction_completed_at" THEN "record"
    ELSE "refuse"

(* What the pilot did not say is taken from the leg as the tool read it.   *)
Merged(row, stated, d) == [c \in Column |-> IF c \in stated THEN d[c] ELSE row[c]]

ResolvedLeg(legs) == current_leg(legs)

(* The tool looks the leg up: the current leg of a run in progress.  Only  *)
(* the id of the leg, the step it decided on and the values outlive this.  *)
Resolve(v, tool) ==
    /\ call[v] = Idle
    /\ \E r \in InProgress, d \in Details, stated \in {{}, Column} :
          LET l    == ResolvedLeg(leg[r])
              row  == leg[r][l]
              step == FirstStep(tool, next_unset_field(l, row))
          IN  /\ l \in LegTypesOf(tool)
              /\ step # "refuse"
              /\ tool = "update_leg_details" => stated # {}
              /\ call' = [call EXCEPT ![v] = [step |-> step, tool |-> tool, run |-> r, leg |-> l,
                                              stated |-> stated, unraced |-> TRUE,
                                              vals |-> IF tool \in Recorders
                                                       THEN Merged(row, stated, d) ELSE d]]
    /\ UNCHANGED <<ledger, known, shown, armed>>

(***************************************************************************)
(* A request reaches the server.  k is the call it belongs to.             *)
(***************************************************************************)
Holds(r, l, columns, vals) == \A c \in Column : leg'[r][l][c] = IF c \in columns THEN vals[c] ELSE leg[r][l][c]

Request(k) ==
    /\ k.step \in {"advance", "catch_up", "record", "update", "finalize", "write_off", "delete"}
    /\ k.run \in live
    /\ \/ k.step \in {"advance", "catch_up"} /\ Server!Advance(k.run, k.leg)
       \/ k.step = "record" /\ k.leg = "acquisition" /\ Server!Purchase(k.run) /\ Holds(k.run, k.leg, Column, k.vals)
       \/ k.step = "record" /\ k.leg = "sale" /\ Server!Sale(k.run) /\ Holds(k.run, k.leg, Column, k.vals)
       \/ k.step = "update" /\ Server!Edit(k.run, k.leg) /\ Holds(k.run, k.leg, k.stated, k.vals)
       \/ k.step = "finalize" /\ Server!Finalize(k.run)
       \/ k.step = "write_off" /\ Server!WriteOff(k.run)
       \/ k.step = "delete" /\ Server!Delete(k.run)

(* The caller goes on to k; every other voice call has been overtaken.     *)
Onward(c, k) ==
    call' = [x \in Callers |->
                IF x = c THEN k
                ELSE IF x \in Voices /\ call[x] # Idle THEN [call[x] EXCEPT !.unraced = FALSE]
                ELSE call[x]]

(* The loop of catch_up_before_transaction goes by the row in the answer.  *)
AfterAnswer(k, row) ==
    LET field == next_unset_field(k.leg, row) IN
    CASE k.step = "catch_up" /\ field = "transaction_completed_at" -> [k EXCEPT !.step = "record"]
      [] k.step = "catch_up" /\ field \notin {"transaction_completed_at", NoMilestone} -> k
      [] OTHER -> Idle

Answered(v) ==
    /\ call[v] # Idle
    /\ Request(call[v])
    /\ Onward(v, AfterAnswer(call[v], leg'[call[v].run][call[v].leg]))
    /\ UNCHANGED <<known, shown, armed>>

(* The server did it and the tool is told it took too long: the tool ends. *)
AnswerLost(v) ==
    /\ call[v] # Idle
    /\ Request(call[v])
    /\ Onward(v, Idle)
    /\ UNCHANGED <<known, shown, armed>>

(* The server refuses the request, or never gets it: the tool ends.        *)
Fails(v) ==
    /\ call[v] # Idle
    /\ call' = [call EXCEPT ![v] = Idle]
    /\ UNCHANGED <<ledger, known, shown, armed>>

(* The pilot commits to a route, by voice or in the results panel.         *)
start_trade_run(r) ==
    /\ r \notin known
    /\ known' = known \cup {r}
    /\ Server!Create(r)
    /\ \A l \in LegType : \E d \in Details :
          leg'[r][l] = NewRow(IF l = "acquisition" THEN "create" ELSE Unset,
                              d.cargo_transfer_type, d.quantity_scu, d.price_per_unit)
    /\ UNCHANGED <<call, shown, armed>>

(***************************************************************************)
(* The panel.  Which button exists is decided by the list it shows; no     *)
(* button is disabled while the request of an earlier click is in flight.  *)
(***************************************************************************)
_can_abandon(legs) == legs["acquisition"].transaction_completed_at = Unset
_can_write_off(legs) == ~_can_abandon(legs) /\ legs["sale"].transaction_completed_at = Unset

_is_ready_to_finalize(legs) == \A l \in LegType : legs[l].finalized_at # Unset
_can_edit_transaction(row) == row.transaction_completed_at # Unset

(* What a request without a body carries is not looked at.                 *)
AnyDetail == CHOOSE d \in Details : TRUE

Post(p, step, r, l, d) ==
    /\ call[p] = Idle
    /\ call' = [call EXCEPT ![p] = [step |-> step, run |-> r, leg |-> l, stated |-> Column, vals |-> d]]
    /\ UNCHANGED <<ledger, known, shown>>

(* Travel, Confirm loaded, Confirm unloaded and Mark Done are one request. *)
ClickAdvance(p, r) ==
    LET l == current_leg(shown[r]) IN
    /\ l # "none"
    /\ next_unset_field(l, shown[r][l]) # "transaction_completed_at"
    /\ Post(p, "advance", r, l, AnyDetail)
    /\ UNCHANGED armed

(* The Buy Cargo and the Sell Cargo form.                                  *)
ClickRecord(p, r) ==
    LET l == current_leg(shown[r]) IN
    /\ l # "none"
    /\ next_unset_field(l, shown[r][l]) = "transaction_completed_at"
    /\ \E d \in Details : Post(p, "record", r, l, d)
    /\ UNCHANGED armed

(* The form again, over a transaction that is already recorded.            *)
ClickUpdate(p, r) ==
    /\ \E l \in LegType, d \in Details :
          _can_edit_transaction(shown[r][l]) /\ Post(p, "update", r, l, d)
    /\ UNCHANGED armed

ClickFinalize(p, r) ==
    /\ _is_ready_to_finalize(shown[r])
    /\ Post(p, "finalize", r, "none", AnyDetail)
    /\ UNCHANGED armed

ClickAbandon(p, r) ==
    /\ _can_abandon(shown[r])
    /\ Post(p, "delete", r, "none", AnyDetail)
    /\ UNCHANGED armed

(* The first click arms the button, and it stays armed until the second.   *)
ClickWriteOff(p, r) ==
    /\ _can_write_off(shown[r])
    /\ \/ r \notin armed /\ armed' = armed \cup {r} /\ UNCHANGED <<ledger, known, call, shown>>
       \/ r \in armed /\ armed' = armed \ {r} /\ Post(p, "write_off", r, "none", AnyDetail)

Click(p) ==
    \E r \in DOMAIN shown : \/ ClickAdvance(p, r) \/ ClickRecord(p, r) \/ ClickUpdate(p, r)
                            \/ ClickFinalize(p, r) \/ ClickAbandon(p, r) \/ ClickWriteOff(p, r)

ClickDone(p) ==
    /\ call[p] # Idle
    /\ Request(call[p])
    /\ Onward(p, [step |-> "refresh"])
    /\ UNCHANGED <<known, shown, armed>>

ClickAnswerLost(p) ==
    /\ call[p] # Idle
    /\ Request(call[p])
    /\ Onward(p, Idle)
    /\ shown' = NoRunShown
    /\ UNCHANGED <<known, armed>>

(* A message takes the place of the list, and of all its buttons.          *)
ClickFails(p) ==
    /\ call[p] # Idle
    /\ call' = [call EXCEPT ![p] = Idle]
    /\ shown' = NoRunShown
    /\ UNCHANGED <<ledger, known, armed>>

EveryRun == live     \* mutant: the list does not leave out what is finalized

ListedRuns == InProgress

(* After a click that worked, and whenever the pilot comes back to the tab. *)
refresh(p) ==
    /\ call[p] \in {Idle, [step |-> "refresh"]}
    /\ shown' = [r \in ListedRuns |-> leg[r]]
    /\ call' = [call EXCEPT ![p] = Idle]
    /\ UNCHANGED <<ledger, known, armed>>

(***************************************************************************)
Init ==
    /\ Server!Init
    /\ known = {}
    /\ call = [c \in Callers |-> Idle]
    /\ shown = NoRunShown
    /\ armed = {}

Next ==
    \/ \E v \in Voices : \/ \E tool \in Tool : Resolve(v, tool)
                         \/ Answered(v) \/ AnswerLost(v) \/ Fails(v)
    \/ \E r \in Runs : start_trade_run(r)
    \/ \E p \in Clicks : \/ Click(p) \/ ClickDone(p) \/ ClickAnswerLost(p)
                         \/ ClickFails(p) \/ refresh(p)

Spec == Init /\ [][Next]_vars

-----------------------------------------------------------------------------
StepsOf(tool) ==
    CASE tool = "update_leg_details" -> {"update"}
      [] tool \in Recorders          -> {"catch_up", "record"}
      [] OTHER                       -> {"advance"}

(* Every call in flight is one its tool, or a button of the panel, makes.  *)
TypeOK ==
    /\ live \subseteq known /\ known \subseteq Runs
    /\ run_finalized \in [Runs -> StampColumn]
    /\ leg \in [Runs -> [LegType -> LegRow]]
    /\ \A v \in Voices : call[v] # Idle =>
          /\ call[v].tool \in Tool /\ call[v].step \in StepsOf(call[v].tool)
          /\ call[v].run \in known /\ call[v].leg \in LegTypesOf(call[v].tool)
          /\ call[v].vals \in DetailRow
    /\ \A p \in Clicks : call[p].step \in {"idle", "refresh", "advance", "record", "update",
                                           "finalize", "write_off", "delete"}
    /\ armed \subseteq known
    /\ DOMAIN shown \subseteq known

(***************************************************************************)
(* The server takes a purchase or a sale of a leg nobody has reached       *)
(* (app/server/ledger_service.py does not look): that no step of a leg is  *)
(* skipped is the clients' doing, and it survives every stale read.        *)
(***************************************************************************)
NoStepSkipped ==
    \A r \in live, l \in LegType :
        LET row == leg[r][l] IN
        run_finalized[r] # "write_off" =>
            /\ row.transaction_completed_at # Unset => row.reached_at # Unset
            /\ row.transferred_at # Unset =>
                  row[IF l = "acquisition" THEN "transaction_completed_at" ELSE "reached_at"] # Unset
            /\ row.finalized_at # Unset =>
                  row.transaction_completed_at # Unset /\ row.transferred_at # Unset

(* Nothing happens on the drop-off before the pickup is done: both clients *)
(* work on trade_run_store.current_leg, the server on any leg it is given. *)
SaleWaitsForPickup ==
    \A r \in live : (\E m \in Milestone : leg[r]["sale"][m] # Unset)
                        => leg[r]["acquisition"].finalized_at # Unset

(* However clicks, calls and lost answers fall, the milestones of a run    *)
(* are stamped in the order of the trip.                                   *)
StepsInOrder == NoStepSkipped /\ SaleWaitsForPickup

(* A loss stays a loss: finalize_run would accept a run that was written   *)
(* off, since all its milestones are filled, but no list ever offers it.   *)
WriteOffStands ==
    [][\A r \in Runs : run_finalized[r] = "write_off" => run_finalized'[r] # "finalize"]_vars

(***************************************************************************)
(* What a tool's request may stamp, going by its description.              *)
(***************************************************************************)
Names(tool) ==
    CASE tool = "mark_cargo_acquired" -> {"reached_at", "transaction_completed_at"}
      [] tool = "mark_cargo_sold"     -> {"reached_at", "transferred_at", "transaction_completed_at"}
      [] OTHER                        -> AdvancesAt(tool)

Stamped(r, l) == {m \in Milestone : leg[r][l][m] = Unset /\ leg'[r][l][m] # Unset}
VoiceRequest(v) == call[v] # Idle /\ (Answered(v) \/ AnswerLost(v))

(* advance_leg names no milestone: it stamps whichever is next.  A tool    *)
(* stamps the ones it is for as long as nobody else's request came between *)
(* its look at the leg and its last request, however many it needs.        *)
UnracedToolStampsItsOwn ==
    [][\A v \in Voices : VoiceRequest(v) /\ call[v].unraced =>
          Stamped(call[v].run, call[v].leg) \subseteq Names(call[v].tool)]_vars

(* And what the pilot did not state keeps the value it had in the ledger.  *)
UnracedToolKeepsTheRest ==
    [][\A v \in Voices : VoiceRequest(v) /\ call[v].unraced =>
          \A c \in Column \ call[v].stated :
              leg'[call[v].run][call[v].leg][c] = leg[call[v].run][call[v].leg][c]]_vars

(* A tool that nobody overtook does what its description says and no more. *)
UnracedToolDoesItsOwn == UnracedToolStampsItsOwn /\ UnracedToolKeepsTheRest

(* "FINALIZED_AT -- the one milestone no AI tool is allowed to set":       *)
(* app/tools/trade_run/confirm_cargo_loaded.py:52.  Marking a leg done is  *)
(* the pilot's own check of what was recorded.                             *)
NoToolFinalizes ==
    [][\A v \in Voices : VoiceRequest(v) =>
          "finalized_at" \notin Stamped(call[v].run, call[v].leg)]_vars

(* "Nothing's actually been bought yet -- deleting the run loses no real   *)
(* progress": app/overlay/trade_runs_panel.py:207, of the Abandon button.  *)
AbandonLosesNothing ==
    [][\A r \in live \ live' : leg[r]["acquisition"].transaction_completed_at = Unset]_vars
=============================================================================
