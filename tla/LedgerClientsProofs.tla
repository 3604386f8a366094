------------------------- MODULE LedgerClientsProofs -------------------------
(***************************************************************************)
(* For any number of runs, voice calls and clicks, however late the lists  *)
(* and the looks are that they go by: the milestones of a run are stamped  *)
(* in the order of the trip, a loss stays a loss, and a voice tool that    *)
(* nobody overtook does its own and no more.                               *)
(***************************************************************************)
EXTENDS LedgerClients, TLAPS

-----------------------------------------------------------------------------
(* The inductive invariant.                                                *)

Has(rows, l, m) == rows[l][m] # Unset

(* The milestones of a run, in the order of the trip.  A written-off run   *)
(* has them all.                                                           *)
InOrder(rows) ==
    /\ \A l \in LegType :
          /\ Has(rows, l, "transaction_completed_at") => Has(rows, l, "reached_at")
          /\ Has(rows, l, "transferred_at") =>
                Has(rows, l, IF l = "acquisition" THEN "transaction_completed_at" ELSE "reached_at")
          /\ Has(rows, l, "finalized_at") =>
                Has(rows, l, "transaction_completed_at") /\ Has(rows, l, "transferred_at")
    /\ Has(rows, "sale", "transaction_completed_at") => Has(rows, "sale", "transferred_at")
    /\ (\E m \in Milestone : Has(rows, "sale", m)) => Has(rows, "acquisition", "finalized_at")

(* What is in flight, or shown.                                            *)
VoiceCalls == [step : {"advance", "catch_up", "record", "update"}, tool : Tool, run : Runs,
               leg : LegType, stated : SUBSET Column, unraced : BOOLEAN,
               vals : Details \cup [Column -> Int \cup CargoTransferType]]
ClickCalls == [step : {"advance", "record", "update", "finalize", "write_off", "delete"}, run : Runs,
               leg : LegType \cup {"none"}, stated : {Column}, vals : Details \cup {AnyDetail}]
Refreshing == [step |-> "refresh"]

WellFormed(c, k, ids) ==
    /\ c \in Voices => /\ k \in {Idle} \cup VoiceCalls
                       /\ k # Idle => k.leg \in LegTypesOf(k.tool)
    /\ c \in Clicks => /\ k \in {Idle, Refreshing} \cup ClickCalls
                       /\ k.step \in {"advance", "record", "update"} => k.leg \in LegType
    /\ k \notin {Idle, Refreshing} => k.run \in ids

Ledgered ==
    /\ live \subseteq Runs
    /\ run_finalized \in [Runs -> StampColumn]
    /\ leg \in [Runs -> [LegType -> LegRow]]

Shape ==
    /\ Ledgered /\ live \subseteq known /\ known \subseteq Runs
    /\ call = [c \in Callers |-> call[c]]
    /\ DOMAIN shown \subseteq known
    /\ \A r \in DOMAIN shown : shown[r] \in [LegType -> LegRow]

OrderedRuns == \A r \in live : InOrder(leg[r])

(* A request is made on a look at the run that may be old; what matters of *)
(* it stays true, for no milestone is ever unset.                          *)
Promise(k, rows, closed) ==
    /\ k.step \in {"advance", "catch_up", "record"} /\ k.leg = "sale"
          => Has(rows, "acquisition", "finalized_at")
    /\ k.step = "record" => Has(rows, k.leg, "reached_at")
    /\ k.step = "finalize" => Has(rows, "sale", "transaction_completed_at") /\ closed # "write_off"

Kept(k, there, rows, closed) ==
    k \notin {Idle, Refreshing} /\ k.run \in there => Promise(k, rows[k.run], closed[k.run])

(* The list of the panel is one of the past.                               *)
IsPast(rows, now, closed) ==
    /\ \A l \in LegType, m \in Milestone : Has(rows, l, m) => Has(now, l, m)
    /\ Has(rows, "sale", "finalized_at")
          => Has(now, "sale", "transaction_completed_at") /\ closed # "write_off"

ShownIsPast == \A r \in DOMAIN shown \cap live : IsPast(shown[r], leg[r], run_finalized[r])

(* A tool that nobody has overtaken is about the row as it is.             *)
InHand(k, row) ==
    /\ FirstStep(k.tool, next_unset_field(k.leg, row)) = k.step
    /\ k.tool \in Recorders => \A c \in Column \ k.stated : k.vals[c] = row[c]

Mine(k, there, rows) ==
    k # Idle /\ k.unraced /\ k.run \in there => InHand(k, rows[k.run][k.leg])

CallInv(c, k, ids, there, rows, closed) ==
    /\ WellFormed(c, k, ids)
    /\ Kept(k, there, rows, closed)
    /\ c \in Voices => Mine(k, there, rows)

CallsInv == \A c \in Callers : CallInv(c, call[c], known, live, leg, run_finalized)

IInv == Shape /\ OrderedRuns /\ ShownIsPast /\ CallsInv

-----------------------------------------------------------------------------
(* The rows.                                                               *)

LEMMA Legs ==
    /\ \A l \in LegType : Sibling(l) \in LegType /\ Sibling(l) # l /\ LegType = {l, Sibling(l)}
    /\ "acquisition" \in LegType /\ "sale" \in LegType /\ "none" \notin LegType
BY DEF LegType, Sibling

(* The columns of a row are the milestones, the details and started_at.    *)
LEMMA Columns ==
    ASSUME NEW row \in LegRow
    PROVE  /\ \A c \in Milestone : row[c] \in StampColumn
           /\ \A c \in Column : row[c] \in Int \cup CargoTransferType
           /\ DOMAIN row = Milestone \cup Column \cup {"started_at"}
           /\ Milestone \cap Column = {} /\ "started_at" \notin Milestone \cup Column
           /\ Unset \in StampColumn /\ Stamp \subseteq StampColumn /\ Unset \notin Stamp
BY DEF LegRow, Milestone, Column, StampColumn, Stamp, Unset

(* next_unset_field, spelled out.                                          *)
FirstOf(l, row) ==
    IF row.reached_at = Unset THEN "reached_at"
    ELSE IF l = "acquisition" /\ row.transaction_completed_at = Unset THEN "transaction_completed_at"
    ELSE IF (l = "acquisition" \/ row.cargo_transfer_type = "manual") /\ row.transferred_at = Unset
         THEN "transferred_at"
    ELSE IF row.transaction_completed_at = Unset THEN "transaction_completed_at"
    ELSE IF row.finalized_at = Unset THEN "finalized_at"
    ELSE NoMilestone

LEMMA LeastOfFour ==
    ASSUME NEW n \in 3 .. 4, NEW pending \in SUBSET (1 .. n), pending # {}
    PROVE  LET first == CHOOSE i \in pending : \A j \in pending : i <= j
           IN  first \in pending /\ \A j \in 1 .. n : j < first => j \notin pending
<1>1. \A i \in pending : i = 1 \/ i = 2 \/ i = 3 \/ i = 4
    OBVIOUS
<1>2. \E i \in pending : \A j \in pending : i <= j
    <2>1. CASE 1 \in pending
        BY <1>1, <2>1
    <2>2. CASE 1 \notin pending /\ 2 \in pending
        BY <1>1, <2>2
    <2>3. CASE 1 \notin pending /\ 2 \notin pending /\ 3 \in pending
        BY <1>1, <2>3
    <2>4. CASE 1 \notin pending /\ 2 \notin pending /\ 3 \notin pending
        <3>1. 4 \in pending /\ \A j \in pending : j = 4
            BY <1>1, <2>4
        <3> QED BY <3>1
    <2> QED BY <2>1, <2>2, <2>3, <2>4
<1> DEFINE first == CHOOSE i \in pending : \A j \in pending : i <= j
<1>3. first \in pending /\ \A j \in pending : first <= j
    BY <1>2
<1> HIDE DEF first
<1>4. \A j \in 1 .. n : j < first => j \notin pending
    BY <1>1, <1>3
<1> QED BY <1>3, <1>4 DEF first

LEMMA NextField ==
    ASSUME NEW l \in LegType, NEW row \in LegRow
    PROVE  next_unset_field(l, row) = FirstOf(l, row)
<1> DEFINE seq == MilestoneSequence(l, row)
           pending == {i \in DOMAIN seq : row[seq[i]] = Unset}
           first == CHOOSE i \in pending : \A j \in pending : i <= j
<1>1. next_unset_field(l, row) = IF pending = {} THEN NoMilestone ELSE seq[first]
    BY DEF next_unset_field
<1>2. ASSUME NEW n \in 3 .. 4, DOMAIN seq = 1 .. n, pending # {}
      PROVE  first \in pending /\ \A j \in 1 .. n : j < first => j \notin pending
    <2>1. pending \in SUBSET (1 .. n)
        BY <1>2
    <2> HIDE DEF pending
    <2> QED BY <1>2, <2>1, LeastOfFour
<1>3. ASSUME NEW n \in 3 .. 4, DOMAIN seq = 1 .. n
      PROVE  \/ /\ next_unset_field(l, row) = NoMilestone
                /\ \A j \in 1 .. n : row[seq[j]] # Unset
             \/ \E i \in 1 .. n : /\ next_unset_field(l, row) = seq[i] /\ row[seq[i]] = Unset
                                  /\ \A j \in 1 .. n : j < i => row[seq[j]] # Unset
    <2>1. CASE pending = {}
        BY <1>1, <1>3, <2>1
    <2>2. CASE pending # {}
        <3>1. first \in pending /\ \A j \in 1 .. n : j < first => j \notin pending
            BY <1>2, <1>3, <2>2
        <3>2. next_unset_field(l, row) = seq[first]
            BY <1>1, <2>2
        <3> HIDE DEF first
        <3> QED BY <1>3, <3>1, <3>2
    <2> QED BY <2>1, <2>2
<1> HIDE DEF pending, first
<1>4. CASE l = "acquisition"
    <2>1. seq = <<"reached_at", "transaction_completed_at", "transferred_at", "finalized_at">>
        BY <1>4 DEF MilestoneSequence
    <2>2. DOMAIN seq = 1 .. 4 /\ 4 \in 3 .. 4
        BY <2>1
    <2> QED BY <1>3, <1>4, <2>1, <2>2 DEF FirstOf, LegRow
<1>5. CASE l # "acquisition" /\ row.cargo_transfer_type = "manual"
    <2>1. seq = <<"reached_at", "transferred_at", "transaction_completed_at", "finalized_at">>
        BY <1>5 DEF MilestoneSequence
    <2>2. DOMAIN seq = 1 .. 4 /\ 4 \in 3 .. 4
        BY <2>1
    <2> QED BY <1>3, <1>5, <2>1, <2>2 DEF FirstOf, LegRow
<1>6. CASE l # "acquisition" /\ row.cargo_transfer_type # "manual"
    <2>1. seq = <<"reached_at", "transaction_completed_at", "finalized_at">>
        BY <1>6 DEF MilestoneSequence
    <2>2. DOMAIN seq = 1 .. 3 /\ 3 \in 3 .. 4
        BY <2>1
    <2> QED BY <1>3, <1>6, <2>1, <2>2 DEF FirstOf, LegRow
<1> QED BY <1>4, <1>5, <1>6

(* The ledger that the clients talk to has the same rows.                  *)
LEMMA SameRows ==
    /\ Server!LegType = LegType /\ Server!CargoTransferType = CargoTransferType
    /\ Server!Milestone = Milestone /\ Server!NoMilestone = NoMilestone
    /\ Server!Unset = Unset /\ Server!NoRow = NoRow
    /\ \A started, type, q, p : Server!NewRow(started, type, q, p) = NewRow(started, type, q, p)
    /\ \A l : Server!Sibling(l) = Sibling(l)
    /\ \A l, row : Server!next_unset_field(l, row) = next_unset_field(l, row)
BY DEF Server!LegType, LegType, Server!CargoTransferType, CargoTransferType,
       Server!Milestone, Milestone, Server!NoMilestone, NoMilestone, Server!Unset, Unset,
       Server!NoRow, NoRow, Server!NewRow, NewRow, Server!Sibling, Sibling,
       Server!next_unset_field, next_unset_field, Server!MilestoneSequence, MilestoneSequence

-----------------------------------------------------------------------------
(* What each operation of the server does to the milestones.               *)

(* It is about the run r.                                                  *)
Touches(r) ==
    /\ leg' \in [Runs -> [LegType -> LegRow]]
    /\ run_finalized' \in [Runs -> StampColumn]
    /\ \A q \in Runs \ {r} : leg'[q] = leg[q] /\ run_finalized'[q] = run_finalized[q]

(* The leg l gains the milestones in gained, and nothing else is gained.   *)
Gains(r, l, gained) ==
    \A k \in LegType, m \in Milestone : Has(leg'[r], k, m) <=> Has(leg[r], k, m) \/ (k = l /\ m \in gained)

GainsOnly(new, row, gained) == \A m \in Milestone : new[m] # Unset <=> row[m] # Unset \/ m \in gained

Advanced(row, c) == [row EXCEPT ![c] = "advance"]
Started(row, w) == [row EXCEPT !.started_at = w]
Planned(row, q) == [row EXCEPT !.quantity_scu = q]

LEMMA RowAdvanced ==
    ASSUME NEW row \in LegRow, NEW c \in Milestone
    PROVE  /\ Advanced(row, c) \in LegRow
           /\ GainsOnly(Advanced(row, c), row, {c})
           /\ \A d \in Column : Advanced(row, c)[d] = row[d]
BY DEF GainsOnly, Advanced, LegRow, Milestone, Column, StampColumn, Stamp, Unset

LEMMA RowStarted ==
    ASSUME NEW row \in LegRow, NEW w \in StampColumn
    PROVE  /\ Started(row, w) \in LegRow
           /\ \A m \in Milestone : Started(row, w)[m] = row[m]
BY DEF Started, LegRow, Milestone

LEMMA RowPlanned ==
    ASSUME NEW row \in LegRow, NEW q \in Int
    PROVE  /\ Planned(row, q) \in LegRow
           /\ \A m \in Milestone : Planned(row, q)[m] = row[m]
BY DEF Planned, LegRow, Milestone

LEMMA RowRecorded ==
    ASSUME NEW row \in LegRow, NEW q \in Int, NEW p \in Int, NEW fee \in Int,
           NEW type \in CargoTransferType, NEW stamp \in Stamp
    PROVE  /\ Server!Recorded(row, q, p, fee, type, stamp) \in LegRow
           /\ GainsOnly(Server!Recorded(row, q, p, fee, type, stamp), row, {"transaction_completed_at"})
BY DEF GainsOnly, Server!Recorded, LegRow, Milestone, StampColumn, Stamp, Unset

LEMMA RowUnloaded ==
    ASSUME NEW row \in LegRow
    PROVE  /\ Server!Unloaded(row) \in LegRow
           /\ GainsOnly(Server!Unloaded(row), row, {"transferred_at"})
BY SameRows DEF GainsOnly, Server!Unloaded, LegRow, Milestone, StampColumn, Stamp, Unset

LEMMA RowFilled ==
    ASSUME NEW row \in LegRow
    PROVE  /\ Server!Filled(row) \in LegRow
           /\ \A m \in Milestone : Server!Filled(row)[m] # Unset
BY SameRows DEF Server!Filled, LegRow, Milestone, StampColumn, Stamp, Unset

(* Writing both rows of a run, one path after the other.                   *)
Both(legs, r, l, own, other) == [legs EXCEPT ![r] = [k \in LegType |-> IF k = l THEN own ELSE other]]

LEMMA BothRows ==
    ASSUME NEW legs \in [Runs -> [LegType -> LegRow]], NEW r \in Runs, NEW l \in LegType,
           NEW own \in LegRow, NEW other \in LegRow
    PROVE  /\ Both(legs, r, l, own, other) \in [Runs -> [LegType -> LegRow]]
           /\ Both(legs, r, l, own, other)[r][l] = own
           /\ Both(legs, r, l, own, other)[r][Sibling(l)] = other
           /\ \A q \in Runs \ {r} : Both(legs, r, l, own, other)[q] = legs[q]
BY Legs DEF Both
LEMMA RowsWritten ==
    ASSUME Ledgered, NEW r \in Runs, NEW l \in LegType, NEW own \in LegRow, NEW other \in LegRow,
           leg' = Both(leg, r, l, own, other)
    PROVE  /\ leg' \in [Runs -> [LegType -> LegRow]]
           /\ leg'[r][l] = own /\ leg'[r][Sibling(l)] = other
           /\ \A q \in Runs \ {r} : leg'[q] = leg[q]
<1>1. leg \in [Runs -> [LegType -> LegRow]]
    BY DEF Ledgered
<1> DEFINE new == Both(leg, r, l, own, other)
<1>2. /\ new \in [Runs -> [LegType -> LegRow]] /\ new[r][l] = own /\ new[r][Sibling(l)] = other
      /\ \A q \in Runs \ {r} : new[q] = leg[q]
    BY <1>1, BothRows
<1>3. leg' = new
    OBVIOUS
<1> HIDE DEF new
<1> QED BY <1>2, <1>3

(* From the two rows of the run to its milestones.                         *)
LEMMA RowsGain ==
    ASSUME Ledgered, NEW r \in Runs, NEW l \in LegType, NEW own \in LegRow, NEW other \in LegRow,
           leg' = Both(leg, r, l, own, other), run_finalized' = run_finalized,
           NEW gained, GainsOnly(own, leg[r][l], gained),
           \A m \in Milestone : other[m] = leg[r][Sibling(l)][m]
    PROVE  /\ Touches(r) /\ Gains(r, l, gained)
           /\ leg'[r][l] = own /\ leg'[r][Sibling(l)] = other
<1>1. /\ leg' \in [Runs -> [LegType -> LegRow]]
      /\ leg'[r][l] = own /\ leg'[r][Sibling(l)] = other
      /\ \A q \in Runs \ {r} : leg'[q] = leg[q]
    BY RowsWritten
<1>2. Touches(r)
    BY <1>1 DEF Touches, Ledgered
<1>3. ASSUME NEW k \in LegType, NEW m \in Milestone
      PROVE  Has(leg'[r], k, m) <=> Has(leg[r], k, m) \/ (k = l /\ m \in gained)
    <2>1. CASE k = l
        BY <1>1, <2>1 DEF Has, GainsOnly
    <2>2. CASE k = Sibling(l)
        BY <1>1, <2>2, Legs DEF Has
    <2> QED BY <2>1, <2>2, Legs
<1> QED BY <1>1, <1>2, <1>3 DEF Gains

StepsByOne == {"reached_at", "transferred_at", "finalized_at"}

LEMMA AdvanceDoes ==
    ASSUME Ledgered, NEW r \in Runs, NEW l \in LegType, Server!Advance(r, l)
    PROVE  LET field == next_unset_field(l, leg[r][l])
           IN  /\ field \in StepsByOne
               /\ Touches(r) /\ Gains(r, l, {field})
               /\ live' = live /\ run_finalized' = run_finalized
               /\ leg'[r][l] = Advanced(leg[r][l], field)
<1> DEFINE field == next_unset_field(l, leg[r][l])
           row == leg[r][Sibling(l)]
           own == Advanced(leg[r][l], field)
           stamp == IF field = "finalized_at" /\ row.started_at = Unset THEN "advance" ELSE row.started_at
           other == Started(row, stamp)
<1>1. /\ leg \in [Runs -> [LegType -> LegRow]] /\ leg[r] \in [LegType -> LegRow]
      /\ leg[r][l] \in LegRow /\ row \in LegRow
    BY Legs DEF Ledgered
<1>2. /\ field \notin {NoMilestone, "transaction_completed_at"}
      /\ live' = live /\ run_finalized' = run_finalized
    BY SameRows DEF Server!Advance
<1>3. field \in StepsByOne /\ field \in Milestone
    BY <1>1, <1>2, NextField DEF FirstOf, StepsByOne, Milestone
<1>4. stamp \in StampColumn
    BY <1>1 DEF LegRow, StampColumn, Stamp
<1>5. leg' = [leg EXCEPT ![r][l][field] = "advance", ![r][Sibling(l)].started_at = stamp]
    <2>1. leg' = [leg EXCEPT ![r][l][field] = "advance",
                             ![r][Sibling(l)].started_at =
                                 IF field = "finalized_at" /\ @ = Unset THEN "advance" ELSE @]
        BY SameRows DEF Server!Advance
    <2>2. Sibling(l) # l
        BY Legs
    <2> HIDE DEF field
    <2> QED BY <1>1, <2>1, <2>2
<1>6. leg' = Both(leg, r, l, own, other)
    <2> DEFINE first == [leg EXCEPT ![r] = [leg[r] EXCEPT ![l] = own]]
    <2>1. leg' = [first EXCEPT ![r][Sibling(l)].started_at = stamp]
        BY <1>5 DEF Advanced
    <2>2. first[r] = [leg[r] EXCEPT ![l] = own] /\ first[r][Sibling(l)] = row
        BY <1>1, Legs
    <2>3. [first EXCEPT ![r][Sibling(l)].started_at = stamp]
            = [first EXCEPT ![r] = [first[r] EXCEPT ![Sibling(l)] = other]]
        <3> HIDE DEF first, stamp
        <3> QED BY <2>2 DEF Started
    <2>4. [first[r] EXCEPT ![Sibling(l)] = other] = [k \in LegType |-> IF k = l THEN own ELSE other]
        <3>1. Sibling(l) \in LegType /\ Sibling(l) # l /\ LegType = {l, Sibling(l)}
            BY Legs
        <3> HIDE DEF first, own, other
        <3> QED BY <1>1, <2>2, <3>1
    <2>5. \A f : [first EXCEPT ![r] = f] = [leg EXCEPT ![r] = f]
        OBVIOUS
    <2> HIDE DEF first, own, other
    <2> QED BY <2>1, <2>3, <2>4, <2>5 DEF Both
<1>7. /\ own \in LegRow /\ other \in LegRow
      /\ GainsOnly(own, leg[r][l], {field})
      /\ \A m \in Milestone : other[m] = row[m]
    BY <1>1, <1>3, <1>4, RowAdvanced, RowStarted
<1>8. Touches(r) /\ Gains(r, l, {field}) /\ leg'[r][l] = own
    <2> HIDE DEF own, other, field
    <2> QED BY <1>2, <1>6, <1>7, RowsGain
<1> QED BY <1>2, <1>3, <1>8

LEMMA DetailsTyped ==
    ASSUME NEW d \in Details
    PROVE  /\ d.quantity_scu \in Int /\ d.price_per_unit \in Int
           /\ d.cargo_transfer_fee \in Int /\ d.cargo_transfer_type \in CargoTransferType
BY DetailsAssumption DEF DetailRow

LEMMA ServerValues ==
    /\ {d.quantity_scu : d \in Details} \subseteq Int
    /\ {d.price_per_unit : d \in Details} \subseteq Int
    /\ {0} \cup {d.cargo_transfer_fee : d \in Details} \subseteq Int
<1>1. 0 \in Int
    OBVIOUS
<1> QED BY <1>1, DetailsTyped

LEMMA PurchaseDoes ==
    ASSUME Ledgered, NEW r \in Runs, Server!Purchase(r)
    PROVE  /\ ~Has(leg[r], "acquisition", "transaction_completed_at")
           /\ Touches(r) /\ Gains(r, "acquisition", {"transaction_completed_at"})
           /\ live' = live /\ run_finalized' = run_finalized
<1> DEFINE row == leg[r]["acquisition"]
           sold == leg[r]["sale"]
<1>1. PICK q \in {d.quantity_scu : d \in Details}, p \in {d.price_per_unit : d \in Details},
           fee \in {0} \cup {d.cargo_transfer_fee : d \in Details}, type \in CargoTransferType :
           leg' = [leg EXCEPT ![r]["acquisition"] = Server!Recorded(@, q, p, fee, type, "purchase"),
                              ![r]["sale"].quantity_scu =
                                IF leg[r]["sale"].transaction_completed_at = Unset THEN q ELSE @]
    BY SameRows DEF Server!Purchase, Server!Unset, Unset, Server!CargoTransferType, CargoTransferType
<1> DEFINE own == Server!Recorded(row, q, p, fee, type, "purchase")
           planned == IF sold.transaction_completed_at = Unset THEN q ELSE sold.quantity_scu
           other == Planned(sold, planned)
<1>2. /\ leg \in [Runs -> [LegType -> LegRow]] /\ leg[r] \in [LegType -> LegRow]
      /\ row \in LegRow /\ sold \in LegRow
      /\ q \in Int /\ p \in Int /\ fee \in Int /\ type \in CargoTransferType /\ "purchase" \in Stamp
    BY Legs, ServerValues DEF Ledgered, Stamp
<1>3. planned \in Int
    BY <1>2 DEF LegRow
<1>4. /\ own \in LegRow /\ other \in LegRow
      /\ GainsOnly(own, row, {"transaction_completed_at"})
      /\ \A m \in Milestone : other[m] = sold[m]
    <2> HIDE DEF row, sold, planned
    <2>1. own \in LegRow /\ GainsOnly(own, row, {"transaction_completed_at"})
        BY <1>2, RowRecorded
    <2>2. other \in LegRow /\ \A m \in Milestone : other[m] = sold[m]
        BY <1>2, <1>3, RowPlanned
    <2> QED BY <2>1, <2>2
<1>5. leg' = [leg EXCEPT ![r]["acquisition"] = own, ![r]["sale"].quantity_scu = planned]
    BY <1>1, <1>2
<1>6. leg' = Both(leg, r, "acquisition", own, other)
    <2> DEFINE first == [leg EXCEPT ![r] = [leg[r] EXCEPT !["acquisition"] = own]]
    <2>1. leg' = [first EXCEPT ![r]["sale"].quantity_scu = planned]
        <3> HIDE DEF own, planned
        <3> QED BY <1>5
    <2>2. first[r] = [leg[r] EXCEPT !["acquisition"] = own] /\ first[r]["sale"] = sold
        BY <1>2, Legs
    <2>3. [first EXCEPT ![r]["sale"].quantity_scu = planned]
            = [first EXCEPT ![r] = [first[r] EXCEPT !["sale"] = other]]
        <3> HIDE DEF first, planned
        <3> QED BY <2>2 DEF Planned
    <2>4. [first[r] EXCEPT !["sale"] = other] = [k \in LegType |-> IF k = "acquisition" THEN own ELSE other]
        <3> HIDE DEF own, other
        <3> QED BY <1>2, <2>2 DEF LegType
    <2>5. \A f : [first EXCEPT ![r] = f] = [leg EXCEPT ![r] = f]
        OBVIOUS
    <2> HIDE DEF first, own, other
    <2> QED BY <2>1, <2>3, <2>4, <2>5 DEF Both
<1>7. /\ row.transaction_completed_at = Unset
      /\ live' = live /\ run_finalized' = run_finalized
    BY SameRows DEF Server!Purchase
<1>8. Touches(r) /\ Gains(r, "acquisition", {"transaction_completed_at"})
    <2>1. sold = leg[r][Sibling("acquisition")] /\ "acquisition" \in LegType
        BY DEF Sibling, LegType
    <2> HIDE DEF own, other
    <2> QED BY <1>4, <1>6, <1>7, <2>1, RowsGain
<1> QED BY <1>7, <1>8 DEF Has

LEMMA SaleDoes ==
    ASSUME Ledgered, NEW r \in Runs, Server!Sale(r)
    PROVE  /\ ~Has(leg[r], "sale", "transaction_completed_at")
           /\ Touches(r) /\ Gains(r, "sale", {"transaction_completed_at", "transferred_at"})
           /\ live' = live /\ run_finalized' = run_finalized
<1> DEFINE row == leg[r]["sale"]
           bought == leg[r]["acquisition"]
<1>1. PICK q \in {d.quantity_scu : d \in Details}, p \in {d.price_per_unit : d \in Details},
           fee \in {0} \cup {d.cargo_transfer_fee : d \in Details}, type \in CargoTransferType :
           leg' = [leg EXCEPT ![r]["sale"] = Server!Unloaded(Server!Recorded(@, q, p, fee, type, "sale"))]
    BY SameRows DEF Server!Sale
<1> DEFINE recorded == Server!Recorded(row, q, p, fee, type, "sale")
           own == Server!Unloaded(recorded)
<1>2. /\ leg \in [Runs -> [LegType -> LegRow]] /\ leg[r] \in [LegType -> LegRow]
      /\ row \in LegRow /\ bought \in LegRow
      /\ q \in Int /\ p \in Int /\ fee \in Int /\ type \in CargoTransferType /\ "sale" \in Stamp
    BY Legs, ServerValues DEF Ledgered, Stamp
<1>3. recorded \in LegRow /\ GainsOnly(recorded, row, {"transaction_completed_at"})
    <2> HIDE DEF row
    <2> QED BY <1>2, RowRecorded
<1>4. own \in LegRow /\ GainsOnly(own, row, {"transaction_completed_at", "transferred_at"})
    <2> HIDE DEF recorded
    <2>1. own \in LegRow /\ GainsOnly(own, recorded, {"transferred_at"})
        BY <1>3, RowUnloaded
    <2> HIDE DEF own, row
    <2> QED BY <1>3, <2>1 DEF GainsOnly
<1>5. leg' = Both(leg, r, "sale", own, bought)
    <2>1. leg' = [leg EXCEPT ![r] = [leg[r] EXCEPT !["sale"] = own]]
        BY <1>1, <1>2
    <2>2. [leg[r] EXCEPT !["sale"] = own] = [k \in LegType |-> IF k = "sale" THEN own ELSE bought]
        <3> HIDE DEF own
        <3> QED BY <1>2 DEF LegType
    <2> HIDE DEF own
    <2> QED BY <2>1, <2>2 DEF Both
<1>6. /\ row.transaction_completed_at = Unset
      /\ live' = live /\ run_finalized' = run_finalized
    BY SameRows DEF Server!Sale
<1>7. Touches(r) /\ Gains(r, "sale", {"transaction_completed_at", "transferred_at"})
    <2>1. bought = leg[r][Sibling("sale")] /\ "sale" \in LegType
        BY DEF Sibling, LegType
    <2>2. bought \in LegRow /\ \A m \in Milestone : bought[m] = leg[r][Sibling("sale")][m]
        BY <1>2, <2>1
    <2> HIDE DEF own, bought
    <2> QED BY <1>4, <1>5, <1>6, <2>1, <2>2, RowsGain
<1> QED BY <1>6, <1>7 DEF Has

Edited(row, q, p, fee, type) ==
    [row EXCEPT !.quantity_scu = q, !.price_per_unit = p,
                !.cargo_transfer_fee = fee, !.cargo_transfer_type = type]

LEMMA RowEdited ==
    ASSUME NEW row \in LegRow, NEW q \in Int, NEW p \in Int, NEW fee \in Int,
           NEW type \in CargoTransferType
    PROVE  Edited(row, q, p, fee, type) \in LegRow /\ GainsOnly(Edited(row, q, p, fee, type), row, {})
BY DEF GainsOnly, Edited, LegRow, Milestone

LEMMA EditDoes ==
    ASSUME Ledgered, NEW r \in Runs, NEW l \in LegType, Server!Edit(r, l)
    PROVE  /\ Touches(r) /\ Gains(r, l, {})
           /\ live' = live /\ run_finalized' = run_finalized
<1> DEFINE row == leg[r][l]
           sibling == leg[r][Sibling(l)]
<1>1. PICK q \in {d.quantity_scu : d \in Details} \cup {row.quantity_scu},
           p \in {d.price_per_unit : d \in Details} \cup {row.price_per_unit},
           fee \in {0} \cup {d.cargo_transfer_fee : d \in Details} \cup {row.cargo_transfer_fee},
           type \in CargoTransferType :
           leg' = [leg EXCEPT ![r][l].quantity_scu = q, ![r][l].price_per_unit = p,
                              ![r][l].cargo_transfer_fee = fee, ![r][l].cargo_transfer_type = type]
    BY DEF Server!Edit, Server!CargoTransferType, CargoTransferType
<1> DEFINE own == Edited(row, q, p, fee, type)
<1>2. /\ leg \in [Runs -> [LegType -> LegRow]] /\ leg[r] \in [LegType -> LegRow]
      /\ row \in LegRow /\ sibling \in LegRow
    BY Legs DEF Ledgered
<1>3. q \in Int /\ p \in Int /\ fee \in Int
    <2>1. row.quantity_scu \in Int /\ row.price_per_unit \in Int /\ row.cargo_transfer_fee \in Int
        BY <1>2 DEF LegRow
    <2> QED BY <2>1, ServerValues
<1>4. own \in LegRow /\ GainsOnly(own, row, {})
    <2> HIDE DEF row
    <2> QED BY <1>2, <1>3, RowEdited
<1>5. leg' = [leg EXCEPT ![r] = [leg[r] EXCEPT ![l] = own]]
    BY <1>1, <1>2 DEF Edited
<1>6. leg' = Both(leg, r, l, own, sibling)
    <2>1. [leg[r] EXCEPT ![l] = own] = [k \in LegType |-> IF k = l THEN own ELSE sibling]
        <3>1. Sibling(l) \in LegType /\ Sibling(l) # l /\ LegType = {l, Sibling(l)}
            BY Legs
        <3> HIDE DEF own
        <3> QED BY <1>2, <3>1
    <2> HIDE DEF own, sibling
    <2> QED BY <1>5, <2>1 DEF Both
<1>7. live' = live /\ run_finalized' = run_finalized
    BY DEF Server!Edit
<1>8. Touches(r) /\ Gains(r, l, {})
    <2>1. \A m \in Milestone : sibling[m] = leg[r][Sibling(l)][m]
        OBVIOUS
    <2> HIDE DEF own, sibling
    <2>2. leg' = Both(leg, r, l, own, sibling) /\ run_finalized' = run_finalized
        BY <1>6, <1>7
    <2>3. own \in LegRow /\ sibling \in LegRow /\ GainsOnly(own, leg[r][l], {})
        BY <1>2, <1>4
    <2> QED BY <2>1, <2>2, <2>3, RowsGain
<1> QED BY <1>7, <1>8

LEMMA FinalizeDoes ==
    ASSUME Ledgered, NEW r \in Runs, Server!Finalize(r)
    PROVE  /\ Touches(r) /\ live' = live /\ leg' = leg /\ run_finalized'[r] = "finalize"
<1>1. live' = live /\ leg' = leg /\ run_finalized' = [run_finalized EXCEPT ![r] = "finalize"]
    BY DEF Server!Finalize
<1>2. "finalize" \in StampColumn
    BY DEF StampColumn, Stamp
<1> QED BY <1>1, <1>2 DEF Touches, Ledgered

LEMMA WriteOffDoes ==
    ASSUME Ledgered, NEW r \in Runs, Server!WriteOff(r)
    PROVE  /\ run_finalized[r] = Unset /\ ~Has(leg[r], "sale", "transaction_completed_at")
           /\ Touches(r) /\ live' = live /\ run_finalized'[r] = "write_off"
           /\ \A l \in LegType, m \in Milestone : Has(leg'[r], l, m)
<1> DEFINE bought == leg[r]["acquisition"]
           sold == leg[r]["sale"]
           own == Server!Filled(bought)
           closed == Server!Filled(sold)
           other == [closed EXCEPT !.quantity_scu = 0, !.price_per_unit = 0, !.cargo_transfer_fee = 0]
<1>1. /\ leg \in [Runs -> [LegType -> LegRow]] /\ leg[r] \in [LegType -> LegRow]
      /\ bought \in LegRow /\ sold \in LegRow
    BY Legs DEF Ledgered
<1>2. own \in LegRow /\ \A m \in Milestone : own[m] # Unset
    <2> HIDE DEF bought
    <2> QED BY <1>1, RowFilled
<1>3. closed \in LegRow /\ \A m \in Milestone : closed[m] # Unset
    <2> HIDE DEF sold
    <2> QED BY <1>1, RowFilled
<1>4. other \in LegRow /\ \A m \in Milestone : other[m] # Unset
    <2> HIDE DEF closed
    <2>1. ASSUME NEW row \in LegRow, NEW zero \in Int, \A m \in Milestone : row[m] # Unset
          PROVE  LET new == [row EXCEPT !.quantity_scu = zero, !.price_per_unit = zero,
                                        !.cargo_transfer_fee = zero]
                 IN  new \in LegRow /\ \A m \in Milestone : new[m] # Unset
        BY <2>1 DEF LegRow, Milestone
    <2>2. 0 \in Int
        OBVIOUS
    <2> QED BY <1>3, <2>1, <2>2, Zenon
<1>5. /\ leg' = [leg EXCEPT ![r]["acquisition"] = own, ![r]["sale"] = other]
      /\ run_finalized' = [run_finalized EXCEPT ![r] = "write_off"] /\ live' = live
      /\ run_finalized[r] = Unset /\ sold.transaction_completed_at = Unset
    BY <1>1, SameRows DEF Server!WriteOff
<1>6. leg' = Both(leg, r, "acquisition", own, other)
    <2> HIDE DEF own, other
    <2>1. leg' = [leg EXCEPT ![r] = [[leg[r] EXCEPT !["acquisition"] = own] EXCEPT !["sale"] = other]]
        BY <1>1, <1>5
    <2>2. [[leg[r] EXCEPT !["acquisition"] = own] EXCEPT !["sale"] = other]
            = [k \in LegType |-> IF k = "acquisition" THEN own ELSE other]
        BY <1>1 DEF LegType
    <2> QED BY <2>1, <2>2 DEF Both
<1>7. /\ leg' \in [Runs -> [LegType -> LegRow]]
      /\ leg'[r]["acquisition"] = own /\ leg'[r]["sale"] = other
      /\ \A q \in Runs \ {r} : leg'[q] = leg[q]
    <2>1. "acquisition" \in LegType /\ Sibling("acquisition") = "sale"
        BY DEF LegType, Sibling
    <2>2. own \in LegRow /\ other \in LegRow
        BY <1>2, <1>4
    <2> HIDE DEF own, other
    <2> QED BY <1>6, <2>1, <2>2, RowsWritten
<1>8. "write_off" \in StampColumn
    BY DEF StampColumn, Stamp
<1>9. Touches(r)
    BY <1>5, <1>7, <1>8 DEF Touches, Ledgered
<1>10. ASSUME NEW l \in LegType, NEW m \in Milestone
       PROVE  Has(leg'[r], l, m)
    <2> HIDE DEF own, other
    <2> QED BY <1>2, <1>4, <1>7 DEF Has, LegType
<1> QED BY <1>5, <1>8, <1>9, <1>10 DEF Has, Ledgered

LEMMA NewRowType ==
    ASSUME NEW started \in StampColumn, NEW type \in CargoTransferType, NEW q \in Int, NEW p \in Int
    PROVE  NewRow(started, type, q, p) \in LegRow
           /\ \A m \in Milestone : NewRow(started, type, q, p)[m] = Unset
BY DEF NewRow, LegRow, StampColumn, Milestone

LEMMA NoRowIsRow == NoRow \in LegRow /\ \A m \in Milestone : NoRow[m] = Unset
<1>1. Unset \in StampColumn /\ "manual" \in CargoTransferType
    BY DEF StampColumn, CargoTransferType
<1> QED BY <1>1, NewRowType DEF NoRow

LEMMA DeleteDoes ==
    ASSUME Ledgered, NEW r \in Runs, Server!Delete(r)
    PROVE  Touches(r) /\ live' = live \ {r} /\ run_finalized'[r] = Unset
<1> DEFINE none == [l \in LegType |-> NoRow]
<1>1. /\ live' = live \ {r} /\ leg' = [leg EXCEPT ![r] = none]
      /\ run_finalized' = [run_finalized EXCEPT ![r] = Unset]
    BY SameRows DEF Server!Delete
<1>2. none \in [LegType -> LegRow] /\ Unset \in StampColumn
    BY NoRowIsRow DEF StampColumn
<1> HIDE DEF none
<1> QED BY <1>1, <1>2 DEF Touches, Ledgered

LEMMA CreateDoes ==
    ASSUME Ledgered, NEW r \in Runs, Server!Create(r)
    PROVE  /\ Touches(r) /\ live' = live \cup {r} /\ run_finalized' = run_finalized
           /\ \A l \in LegType, m \in Milestone : ~Has(leg'[r], l, m)
<1>1. PICK q \in {d.quantity_scu : d \in Details}, p \in {d.price_per_unit : d \in Details},
           p2 \in {d.price_per_unit : d \in Details},
           type \in CargoTransferType, type2 \in CargoTransferType :
           leg' = [leg EXCEPT ![r] = [acquisition |-> NewRow("create", type, q, p),
                                      sale |-> NewRow(Unset, type2, q, p2)]]
    BY DEF Server!Create, Server!Unset, Unset, Server!CargoTransferType, CargoTransferType, Server!NewRow, NewRow
<1> DEFINE bought == NewRow("create", type, q, p)
           sold == NewRow(Unset, type2, q, p2)
           new == [acquisition |-> bought, sale |-> sold]
<1>2. q \in Int /\ p \in Int /\ p2 \in Int /\ 0 \in Int
    BY ServerValues
<1>3. /\ bought \in LegRow /\ sold \in LegRow
      /\ \A m \in Milestone : bought[m] = Unset /\ sold[m] = Unset
    <2>1. "create" \in StampColumn /\ Unset \in StampColumn
        BY DEF StampColumn, Stamp
    <2> QED BY <1>2, <2>1, NewRowType
<1>4. /\ new \in [LegType -> LegRow] /\ new["acquisition"] = bought /\ new["sale"] = sold
    <2> HIDE DEF bought, sold
    <2> QED BY <1>3 DEF LegType
<1>5. leg' = [leg EXCEPT ![r] = new] /\ live' = live \cup {r} /\ run_finalized' = run_finalized
    BY <1>1 DEF Server!Create
<1> HIDE DEF new, bought, sold
<1>6. Touches(r) /\ leg'[r] = new
    BY <1>4, <1>5 DEF Touches, Ledgered
<1>7. ASSUME NEW l \in LegType, NEW m \in Milestone
      PROVE  ~Has(leg'[r], l, m)
    BY <1>3, <1>4, <1>6 DEF Has, LegType
<1> QED BY <1>5, <1>6, <1>7

-----------------------------------------------------------------------------
(* What a request does, by the step it is.                                 *)

OnALeg == {"advance", "catch_up", "record", "update"}
OnTheRun == {"finalize", "write_off", "delete"}

OneLeg(k, gained) ==
    /\ k.leg \in LegType /\ Gains(k.run, k.leg, gained)
    /\ live' = live /\ run_finalized' = run_finalized

Advances(k) ==
    LET row == leg[k.run][k.leg]
        field == FirstOf(k.leg, row)
    IN  /\ k.step \in {"advance", "catch_up"}
        /\ field \in StepsByOne /\ OneLeg(k, {field})
        /\ leg'[k.run][k.leg] = Advanced(row, field)

Recording(l) == IF l = "sale" THEN {"transaction_completed_at", "transferred_at"} ELSE {"transaction_completed_at"}

Records(k) ==
    /\ k.step = "record" /\ OneLeg(k, Recording(k.leg))
    /\ ~Has(leg[k.run], k.leg, "transaction_completed_at")
    /\ Holds(k.run, k.leg, Column, k.vals)

Updates(k) == k.step = "update" /\ OneLeg(k, {}) /\ Holds(k.run, k.leg, k.stated, k.vals)

Finalizes(k) ==
    /\ k.step = "finalize" /\ live' = live /\ leg' = leg /\ run_finalized'[k.run] = "finalize"

WritesOff(k) ==
    /\ k.step = "write_off" /\ live' = live /\ run_finalized'[k.run] = "write_off"
    /\ ~Has(leg[k.run], "sale", "transaction_completed_at")
    /\ \A l \in LegType, m \in Milestone : Has(leg'[k.run], l, m)

Deletes(k) == k.step = "delete" /\ live' = live \ {k.run} /\ run_finalized'[k.run] = Unset

Outcome(k) ==
    /\ k.run \in live /\ Touches(k.run)
    /\ \/ Advances(k) \/ Records(k) \/ Updates(k)
       \/ Finalizes(k) \/ WritesOff(k) \/ Deletes(k)

LEMMA RequestOutcome ==
    ASSUME Ledgered, NEW k, k.step \in OnALeg => k.leg \in LegType, Request(k)
    PROVE  Outcome(k)
<1>1. k.run \in live /\ k.run \in Runs
    BY DEF Request, Ledgered
<1>2. CASE k.step \in {"advance", "catch_up"} /\ Server!Advance(k.run, k.leg)
    <2>1. k.leg \in LegType
        BY <1>2 DEF OnALeg
    <2>2. leg[k.run][k.leg] \in LegRow
        BY <1>1, <2>1 DEF Ledgered
    <2>3. next_unset_field(k.leg, leg[k.run][k.leg]) = FirstOf(k.leg, leg[k.run][k.leg])
        BY <2>1, <2>2, NextField
    <2>4. /\ FirstOf(k.leg, leg[k.run][k.leg]) \in StepsByOne
          /\ Touches(k.run) /\ Gains(k.run, k.leg, {FirstOf(k.leg, leg[k.run][k.leg])})
          /\ live' = live /\ run_finalized' = run_finalized
          /\ leg'[k.run][k.leg] = Advanced(leg[k.run][k.leg], FirstOf(k.leg, leg[k.run][k.leg]))
        BY <1>1, <1>2, <2>1, <2>3, AdvanceDoes
    <2> QED BY <1>1, <1>2, <2>1, <2>4 DEF Outcome, Advances, OneLeg
<1>3. CASE k.step = "record" /\ k.leg = "acquisition" /\ Server!Purchase(k.run)
           /\ Holds(k.run, k.leg, Column, k.vals)
    <2>1. /\ ~Has(leg[k.run], "acquisition", "transaction_completed_at")
          /\ Touches(k.run) /\ Gains(k.run, "acquisition", {"transaction_completed_at"})
          /\ live' = live /\ run_finalized' = run_finalized
        BY <1>1, <1>3, PurchaseDoes
    <2>2. Recording(k.leg) = {"transaction_completed_at"} /\ k.leg \in LegType
        BY <1>3 DEF Recording, LegType
    <2> QED BY <1>1, <1>3, <2>1, <2>2 DEF Outcome, Records, OneLeg
<1>4. CASE k.step = "record" /\ k.leg = "sale" /\ Server!Sale(k.run)
           /\ Holds(k.run, k.leg, Column, k.vals)
    <2>1. /\ ~Has(leg[k.run], "sale", "transaction_completed_at")
          /\ Touches(k.run) /\ Gains(k.run, "sale", {"transaction_completed_at", "transferred_at"})
          /\ live' = live /\ run_finalized' = run_finalized
        BY <1>1, <1>4, SaleDoes
    <2>2. Recording(k.leg) = {"transaction_completed_at", "transferred_at"} /\ k.leg \in LegType
        BY <1>4 DEF Recording, LegType
    <2> QED BY <1>1, <1>4, <2>1, <2>2 DEF Outcome, Records, OneLeg
<1>5. CASE k.step = "update" /\ Server!Edit(k.run, k.leg) /\ Holds(k.run, k.leg, k.stated, k.vals)
    <2>1. k.leg \in LegType
        BY <1>5 DEF OnALeg
    <2>2. /\ Touches(k.run) /\ Gains(k.run, k.leg, {})
          /\ live' = live /\ run_finalized' = run_finalized
        BY <1>1, <1>5, <2>1, EditDoes
    <2> QED BY <1>1, <1>5, <2>1, <2>2 DEF Outcome, Updates, OneLeg
<1>6. CASE k.step = "finalize" /\ Server!Finalize(k.run)
    BY <1>1, <1>6, FinalizeDoes DEF Outcome, Finalizes
<1>7. CASE k.step = "write_off" /\ Server!WriteOff(k.run)
    BY <1>1, <1>7, WriteOffDoes DEF Outcome, WritesOff
<1>8. CASE k.step = "delete" /\ Server!Delete(k.run)
    BY <1>1, <1>8, DeleteDoes DEF Outcome, Deletes
<1> QED BY <1>2, <1>3, <1>4, <1>5, <1>6, <1>7, <1>8 DEF Request

(* No milestone is unset, and a run with a recorded sale is not written    *)
(* off any more.                                                           *)
Grows(r) ==
    r \in live' =>
        /\ r \in live
        /\ \A l \in LegType, m \in Milestone : Has(leg[r], l, m) => Has(leg'[r], l, m)
        /\ Has(leg[r], "sale", "transaction_completed_at") /\ run_finalized[r] # "write_off"
              => run_finalized'[r] # "write_off"

LEMMA RequestGrows ==
    ASSUME Ledgered, NEW k, Outcome(k)
    PROVE  Ledgered' /\ live' \subseteq live /\ \A r \in Runs : Grows(r)
<1>1. k.run \in live /\ k.run \in Runs /\ Touches(k.run) /\ live' \subseteq live
    BY DEF Outcome, Ledgered, Advances, Records, Updates, OneLeg, Finalizes, WritesOff, Deletes
<1>2. Ledgered'
    BY <1>1 DEF Touches, Ledgered
<1>3. ASSUME NEW r \in Runs, r # k.run
      PROVE  Grows(r)
    BY <1>1, <1>3 DEF Touches, Grows, Has
<1>4. Grows(k.run)
    <2>1. ASSUME NEW gained, OneLeg(k, gained)
          PROVE  Grows(k.run)
        BY <1>1, <2>1 DEF OneLeg, Gains, Grows
    <2>2. CASE Advances(k) \/ Records(k) \/ Updates(k)
        BY <2>1, <2>2 DEF Advances, Records, Updates
    <2>3. CASE Finalizes(k)
        BY <1>1, <2>3 DEF Finalizes, Grows
    <2>4. CASE WritesOff(k)
        BY <1>1, <2>4 DEF WritesOff, Grows
    <2>5. CASE Deletes(k)
        BY <1>1, <2>5 DEF Deletes, Grows
    <2> QED BY <2>2, <2>3, <2>4, <2>5 DEF Outcome
<1> QED BY <1>1, <1>2, <1>3, <1>4

(* A request that keeps its promise leaves the milestones in order.        *)
LEMMA RequestInOrder ==
    ASSUME Ledgered, NEW k, Outcome(k), InOrder(leg[k.run]),
           Promise(k, leg[k.run], run_finalized[k.run]), k.run \in live'
    PROVE  InOrder(leg'[k.run])
<1> DEFINE r == k.run
           l == k.leg
           row == leg[r][l]
<1>1. r \in Runs /\ leg[r] \in [LegType -> LegRow]
    BY DEF Outcome, Ledgered
<1>2. CASE Advances(k)
    <2>1. /\ l \in LegType /\ Gains(r, l, {FirstOf(l, row)})
          /\ FirstOf(l, row) \in StepsByOne
          /\ l = "sale" => Has(leg[r], "acquisition", "finalized_at")
        BY <1>2 DEF Advances, OneLeg, Promise
    <2>2. CASE FirstOf(l, row) = "reached_at"
        BY <2>1, <2>2 DEF Gains, InOrder, LegType, Milestone
    <2>3. CASE FirstOf(l, row) = "transferred_at"
        <3>1. Has(leg[r], l, IF l = "acquisition" THEN "transaction_completed_at" ELSE "reached_at")
            BY <2>3 DEF FirstOf, Has, NoMilestone
        <3> HIDE DEF row
        <3> QED BY <2>1, <2>3, <3>1 DEF Gains, InOrder, LegType, Milestone
    <2>4. CASE FirstOf(l, row) = "finalized_at"
        <3>1. Has(leg[r], l, "transaction_completed_at")
            BY <2>4 DEF FirstOf, Has, NoMilestone
        <3>2. Has(leg[r], l, "transferred_at")
            BY <2>1, <2>4, <3>1 DEF FirstOf, Has, NoMilestone, InOrder, LegType
        <3> HIDE DEF row
        <3> QED BY <2>1, <2>4, <3>1, <3>2 DEF Gains, InOrder, LegType, Milestone
    <2> QED BY <2>1, <2>2, <2>3, <2>4 DEF StepsByOne
<1>3. CASE Records(k)
    <2>1. /\ l \in LegType /\ Gains(r, l, Recording(l))
          /\ Has(leg[r], l, "reached_at")
          /\ l = "sale" => Has(leg[r], "acquisition", "finalized_at")
        BY <1>3 DEF Records, OneLeg, Promise
    <2>2. CASE l = "acquisition"
        BY <2>1, <2>2 DEF Gains, Recording, InOrder, LegType, Milestone
    <2>3. CASE l = "sale"
        BY <2>1, <2>3 DEF Gains, Recording, InOrder, LegType, Milestone
    <2> QED BY <2>1, <2>2, <2>3 DEF LegType
<1>4. CASE Updates(k)
    BY <1>4 DEF Updates, OneLeg, Gains, InOrder, LegType, Milestone
<1>5. CASE Finalizes(k)
    BY <1>5 DEF Finalizes
<1>6. CASE WritesOff(k)
    BY <1>6 DEF WritesOff, InOrder, LegType, Milestone
<1>7. CASE Deletes(k)
    BY <1>7 DEF Deletes
<1> QED BY <1>2, <1>3, <1>4, <1>5, <1>6, <1>7 DEF Outcome

(* A promise, and a look, last.                                            *)
LEMMA PromiseLasts ==
    ASSUME NEW k, NEW r, Grows(r), r \in live', k.step = "record" => k.leg \in LegType,
           Promise(k, leg[r], run_finalized[r])
    PROVE  Promise(k, leg'[r], run_finalized'[r])
BY DEF Promise, Grows, LegType, Milestone

LEMMA LookLasts ==
    ASSUME NEW rows, NEW r, Grows(r), r \in live',
           IsPast(rows, leg[r], run_finalized[r])
    PROVE  IsPast(rows, leg'[r], run_finalized'[r])
BY DEF IsPast, Grows, LegType, Milestone

-----------------------------------------------------------------------------
(* What is in flight.                                                      *)

LEMMA Steps ==
    /\ Idle.step = "idle" /\ Refreshing.step = "refresh"
    /\ \A k \in VoiceCalls : k \notin {Idle, Refreshing} /\ k.step \in OnALeg
    /\ \A k \in ClickCalls : k \notin {Idle, Refreshing}
BY DEF Idle, Refreshing, VoiceCalls, ClickCalls, OnALeg

LEMMA ToolLegs ==
    /\ \A tool \in Tool : LegTypesOf(tool) \subseteq LegType
    /\ LegTypesOf("mark_cargo_acquired") = {"acquisition"}
    /\ LegTypesOf("mark_cargo_sold") = {"sale"}
BY DEF LegTypesOf, Tool, LegType

(* A request of a well-formed call is about a leg that exists.             *)
LEMMA CallOutcome ==
    ASSUME IInv, NEW c \in Callers, call[c] # Idle, Request(call[c])
    PROVE  /\ Outcome(call[c])
           /\ call[c] \notin {Idle, Refreshing} /\ call[c].run \in live
           /\ Promise(call[c], leg[call[c].run], run_finalized[call[c].run])
           /\ c \in Voices => call[c] \in VoiceCalls /\ call[c].leg \in LegTypesOf(call[c].tool)
           /\ c \in Clicks => call[c] \in ClickCalls
<1>1. /\ Ledgered /\ WellFormed(c, call[c], known) /\ Kept(call[c], live, leg, run_finalized)
      /\ c \in Voices \/ c \in Clicks
    BY DEF IInv, Shape, CallsInv, CallInv, Callers
<1>2. call[c].step # "refresh" /\ call[c].run \in live
    BY DEF Request
<1>3. call[c] \notin {Idle, Refreshing}
    BY <1>2, Steps
<1>4. c \in Voices => call[c] \in VoiceCalls /\ call[c].leg \in LegTypesOf(call[c].tool) /\ call[c].leg \in LegType
    <2>1. ASSUME c \in Voices
          PROVE  call[c] \in VoiceCalls /\ call[c].leg \in LegTypesOf(call[c].tool)
        BY <1>1, <2>1 DEF WellFormed
    <2>2. \A k \in VoiceCalls : k.tool \in Tool
        BY DEF VoiceCalls
    <2> QED BY <2>1, <2>2, ToolLegs
<1>5. c \in Clicks => /\ call[c] \in ClickCalls
                      /\ call[c].step \in {"advance", "record", "update"} => call[c].leg \in LegType
    BY <1>1, <1>3 DEF WellFormed
<1>6. \A k \in ClickCalls : k.step # "catch_up"
    BY DEF ClickCalls
<1>7. call[c].step \in OnALeg => call[c].leg \in LegType
    BY <1>1, <1>4, <1>5, <1>6 DEF OnALeg
<1>8. Outcome(call[c])
    BY <1>1, <1>7, RequestOutcome
<1> QED BY <1>1, <1>2, <1>3, <1>4, <1>5, <1>8 DEF Kept

(* Another caller's request came in between.                               *)
Overtaken(x, k) == IF x \in Voices /\ k # Idle THEN [k EXCEPT !.unraced = FALSE] ELSE k

LEMMA OvertakenStays ==
    ASSUME NEW x \in Callers, NEW k, known' = known, \A r \in known : Grows(r),
           CallInv(x, k, known, live, leg, run_finalized)
    PROVE  CallInv(x, Overtaken(x, k), known', live', leg', run_finalized')
<1>1. WellFormed(x, k, known) /\ Kept(k, live, leg, run_finalized)
    BY DEF CallInv
<1>2. CASE x \in Voices /\ k # Idle
    <2> DEFINE k2 == [k EXCEPT !.unraced = FALSE]
    <2>1. /\ k \in VoiceCalls /\ k.leg \in LegTypesOf(k.tool) /\ x \notin Clicks
        BY <1>1, <1>2, CallersAssumption DEF WellFormed
    <2>2. /\ k2 \in VoiceCalls /\ k2.step = k.step /\ k2.tool = k.tool /\ k2.run = k.run
          /\ k2.leg = k.leg /\ k2.unraced = FALSE
        BY <2>1 DEF VoiceCalls
    <2>3. k.leg \in LegType /\ k \notin {Idle, Refreshing} /\ k2 \notin {Idle, Refreshing}
        <3>1. \A y \in VoiceCalls : y.tool \in Tool
            BY DEF VoiceCalls
        <3> HIDE DEF k2
        <3> QED BY <2>1, <2>2, <3>1, ToolLegs, Steps
    <2>4. Overtaken(x, k) = k2
        BY <1>2 DEF Overtaken
    <2> HIDE DEF k2
    <2>5. WellFormed(x, k2, known')
        BY <1>1, <2>1, <2>2, <2>3 DEF WellFormed
    <2>6. Kept(k2, live', leg', run_finalized')
        <3> SUFFICES ASSUME k2.run \in live'
                     PROVE  Promise(k2, leg'[k2.run], run_finalized'[k2.run])
            BY DEF Kept
        <3>1. k.run \in known /\ Grows(k.run) /\ k.run \in live' /\ k.run \in live
            BY <1>1, <2>2, <2>3 DEF WellFormed, Grows
        <3>2. Promise(k, leg[k.run], run_finalized[k.run])
            BY <1>1, <2>3, <3>1 DEF Kept
        <3>3. Promise(k, leg'[k.run], run_finalized'[k.run])
            BY <2>3, <3>1, <3>2, PromiseLasts
        <3> QED BY <2>2, <3>3 DEF Promise
    <2>7. Mine(k2, live', leg')
        BY <2>2 DEF Mine
    <2> QED BY <2>4, <2>5, <2>6, <2>7 DEF CallInv
<1>3. CASE ~(x \in Voices /\ k # Idle)
    <2>1. Overtaken(x, k) = k
        BY <1>3 DEF Overtaken
    <2>2. WellFormed(x, k, known')
        BY <1>1
    <2>3. Kept(k, live', leg', run_finalized')
        <3> SUFFICES ASSUME k \notin {Idle, Refreshing}, k.run \in live'
                     PROVE  Promise(k, leg'[k.run], run_finalized'[k.run])
            BY DEF Kept
        <3>1. x \in Clicks /\ k \in ClickCalls
            BY <1>1, <1>3 DEF WellFormed, Callers
        <3>2. k.run \in known /\ Grows(k.run) /\ k.run \in live
            BY <1>1 DEF WellFormed, Grows
        <3>3. Promise(k, leg[k.run], run_finalized[k.run])
            BY <1>1, <3>2 DEF Kept
        <3>4. k.step = "record" => k.leg \in LegType
            BY <1>1, <3>1 DEF WellFormed
        <3> QED BY <3>2, <3>3, <3>4, PromiseLasts
    <2>4. x \in Voices => Mine(k, live', leg')
        BY <1>3 DEF Mine
    <2> QED BY <2>1, <2>2, <2>3, <2>4 DEF CallInv
<1> QED BY <1>2, <1>3

(* Nothing happened to the run of a call.                                  *)
LEMMA UndisturbedStays ==
    ASSUME NEW x \in Callers, NEW k, known \subseteq known',
           \A r \in known : r \in live' =>
               r \in live /\ leg'[r] = leg[r] /\ run_finalized'[r] = run_finalized[r],
           CallInv(x, k, known, live, leg, run_finalized)
    PROVE  CallInv(x, k, known', live', leg', run_finalized')
<1>1. WellFormed(x, k, known) /\ Kept(k, live, leg, run_finalized)
    BY DEF CallInv
<1>2. WellFormed(x, k, known')
    BY <1>1 DEF WellFormed
<1>3. Kept(k, live', leg', run_finalized')
    BY <1>1 DEF WellFormed, Kept
<1>4. x \in Voices => Mine(k, live', leg')
    <2> SUFFICES ASSUME x \in Voices, k # Idle, k.unraced, k.run \in live'
                 PROVE  InHand(k, leg'[k.run][k.leg])
        BY DEF Mine
    <2>1. k \in VoiceCalls
        BY <1>1 DEF WellFormed
    <2>2. k.run \in known
        BY <1>1, <2>1, Steps DEF WellFormed
    <2> QED BY <2>2 DEF CallInv, Mine
<1> QED BY <1>2, <1>3, <1>4 DEF CallInv

LEMMA NothingInFlight ==
    ASSUME NEW c \in Callers, NEW ids, NEW there, NEW rows, NEW closed
    PROVE  /\ CallInv(c, Idle, ids, there, rows, closed)
           /\ c \notin Voices => CallInv(c, Refreshing, ids, there, rows, closed)
BY Steps DEF CallInv, WellFormed, Kept, Mine

-----------------------------------------------------------------------------
(* The tools.                                                              *)

(* A tool that goes on after an answer is about the row in the answer.     *)
LEMMA AnswerFits ==
    ASSUME IInv, NEW v \in Voices, call[v] # Idle, Request(call[v]), known' = known
    PROVE  LET k == AfterAnswer(call[v], leg'[call[v].run][call[v].leg])
           IN  CallInv(v, k, known', live', leg', run_finalized')
<1> DEFINE k == call[v]
           r == k.run
           l == k.leg
           row == leg[r][l]
           new == leg'[r][l]
           field == FirstOf(l, row)
           next == FirstOf(l, new)
           after == AfterAnswer(k, new)
<1>1. /\ v \in Callers /\ Outcome(k) /\ k \in VoiceCalls /\ l \in LegTypesOf(k.tool)
      /\ r \in live /\ Promise(k, leg[r], run_finalized[r]) /\ k # Idle
    BY CallOutcome DEF Callers
<1>2. CASE k.step # "catch_up"
    <2>1. after = Idle
        BY <1>2 DEF AfterAnswer
    <2> HIDE DEF after, k
    <2> QED BY <1>1, <2>1, NothingInFlight DEF after, k
<1>3. CASE k.step = "catch_up"
    <2>1. Advances(k)
        BY <1>1, <1>3 DEF Outcome, Records, Updates, Finalizes, WritesOff, Deletes
    <2>2. /\ r \in known /\ r \in Runs /\ Ledgered /\ known \subseteq Runs
          /\ InOrder(leg[r]) /\ k.tool \in Tool
          /\ leg[r] \in [LegType -> LegRow]
        BY <1>1 DEF IInv, Shape, Ledgered, OrderedRuns, VoiceCalls
    <2>3. Ledgered' /\ Grows(r)
        BY <1>1, <2>2, RequestGrows
    <2>4. l \in LegType /\ leg'[r] \in [LegType -> LegRow] /\ row \in LegRow /\ new \in LegRow
        <3>1. l \in LegType
            BY <2>1 DEF Advances, OneLeg
        <3> QED BY <2>2, <2>3, <3>1 DEF Ledgered
    <2>5. /\ field \in StepsByOne /\ live' = live /\ run_finalized' = run_finalized
          /\ new = Advanced(row, field) /\ field \in Milestone
        BY <2>1 DEF Advances, OneLeg, StepsByOne, Milestone
    <2>6. GainsOnly(new, row, {field}) /\ \A c \in Column : new[c] = row[c]
        <3> HIDE DEF row, new, field
        <3> QED BY <2>4, <2>5, RowAdvanced
    <2>7. next_unset_field(l, new) = next /\ next_unset_field(l, row) = field
        <3> HIDE DEF row, new
        <3> QED BY <2>4, NextField DEF row, new
    <2>8. Promise(k, leg'[r], run_finalized'[r])
        BY <1>1, <1>3, <2>3, <2>5, PromiseLasts
    <2>9. ASSUME k.unraced
          PROVE  /\ k.tool \in Recorders /\ field \in CatchesUpAt(k.tool)
                 /\ \A c \in Column \ k.stated : k.vals[c] = new[c]
        <3>1. Mine(k, live, leg)
            BY <1>1 DEF IInv, CallsInv, CallInv
        <3>2. InHand(k, row)
            BY <1>1, <2>9, <3>1 DEF Mine
        <3>3. FirstStep(k.tool, field) = "catch_up"
            BY <1>3, <2>7, <3>2 DEF InHand
        <3>4. field \in CatchesUpAt(k.tool)
            BY <3>3 DEF FirstStep
        <3>5. k.tool \in Recorders
            BY <3>4 DEF CatchesUpAt, Recorders
        <3> QED BY <2>6, <3>2, <3>4, <3>5 DEF InHand
    <2>10. CASE next = "transaction_completed_at"
        <3> DEFINE k2 == [k EXCEPT !.step = "record"]
        <3>1. after = k2
            BY <1>3, <2>7, <2>10 DEF AfterAnswer
        <3>2. /\ k2 \in VoiceCalls /\ k2.step = "record" /\ k2.tool = k.tool /\ k2.run = r
              /\ k2.leg = l /\ k2.unraced = k.unraced /\ k2.stated = k.stated /\ k2.vals = k.vals
            BY <1>1 DEF VoiceCalls
        <3> HIDE DEF k2
        <3>3. WellFormed(v, k2, known')
            BY <1>1, <2>2, <3>2, CallersAssumption DEF WellFormed
        <3>4. Has(leg'[r], l, "reached_at")
            BY <2>10 DEF FirstOf, Has
        <3>5. Kept(k2, live', leg', run_finalized')
            BY <1>3, <2>8, <3>2, <3>4 DEF Kept, Promise
        <3>6. Mine(k2, live', leg')
            <4> SUFFICES ASSUME k.unraced
                         PROVE  InHand(k2, new)
                BY <3>2 DEF Mine
            <4>1. FirstStep(k.tool, "transaction_completed_at") = "record"
                BY <2>9 DEF FirstStep, AdvancesAt, CatchesUpAt, Recorders
            <4> HIDE DEF new, k
            <4> QED BY <2>7, <2>9, <2>10, <3>2, <4>1 DEF InHand
        <3> QED BY <3>1, <3>3, <3>5, <3>6 DEF CallInv
    <2>11. CASE next \notin {"transaction_completed_at", NoMilestone}
        <3>1. after = k
            BY <1>3, <2>7, <2>11 DEF AfterAnswer
        <3>2. WellFormed(v, k, known')
            BY <1>1, <2>2, CallersAssumption DEF WellFormed
        <3>3. Kept(k, live', leg', run_finalized')
            BY <2>8 DEF Kept
        <3>4. Mine(k, live', leg')
            <4> SUFFICES ASSUME k.unraced
                         PROVE  InHand(k, new)
                BY DEF Mine
            <4>1. new.transaction_completed_at = Unset =>
                      k.tool = "mark_cargo_sold" /\ next \in {"reached_at", "transferred_at"}
                <5>1. CASE k.tool = "mark_cargo_acquired"
                    <6>1. l = "acquisition" /\ field = "reached_at"
                        BY <1>1, <2>9, <5>1, ToolLegs DEF CatchesUpAt
                    <6>2. new.reached_at # Unset
                        BY <2>6, <6>1 DEF GainsOnly, Milestone
                    <6> QED BY <2>11, <6>1, <6>2 DEF FirstOf
                <5>2. CASE k.tool = "mark_cargo_sold"
                    BY <2>11, <5>2 DEF FirstOf
                <5> QED BY <2>9, <5>1, <5>2 DEF Recorders
            <4>2. new.transaction_completed_at = Unset
                <5> SUFFICES ASSUME new.transaction_completed_at # Unset
                             PROVE  FALSE
                    OBVIOUS
                <5>1. row.transaction_completed_at # Unset
                    BY <2>5, <2>6 DEF GainsOnly, StepsByOne, Milestone
                <5>2. row.reached_at # Unset
                    BY <2>2, <2>4, <5>1 DEF InOrder, Has
                <5>3. field # "reached_at"
                    BY <5>2 DEF FirstOf, NoMilestone
                <5>4. k.tool = "mark_cargo_sold" /\ l = "sale" /\ field = "transferred_at"
                    BY <1>1, <2>9, <5>3, ToolLegs DEF CatchesUpAt, Recorders
                <5>5. row.transferred_at # Unset
                    BY <2>2, <5>1, <5>4 DEF InOrder, Has
                <5> QED BY <5>4, <5>5 DEF FirstOf, NoMilestone
            <4>3. FirstStep("mark_cargo_sold", next) = "catch_up"
                BY <4>1, <4>2 DEF FirstStep, AdvancesAt, CatchesUpAt
            <4> HIDE DEF new, k
            <4> QED BY <1>3, <2>7, <2>9, <4>1, <4>2, <4>3 DEF InHand, k
        <3> QED BY <3>1, <3>2, <3>3, <3>4 DEF CallInv
    <2>12. CASE next = NoMilestone
        <3>1. after = Idle
            BY <1>3, <2>7, <2>12 DEF AfterAnswer, NoMilestone
        <3> HIDE DEF after, k
        <3> QED BY <1>1, <3>1, NothingInFlight DEF after, k
    <2> QED BY <2>10, <2>11, <2>12
<1> QED BY <1>2, <1>3

(* The ledger after a request, the other callers and the list.             *)
LEMMA Moves ==
    ASSUME IInv, NEW c \in Callers, call[c] # Idle, Request(call[c]), known' = known,
           NEW k, Onward(c, k), CallInv(c, k, known', live', leg', run_finalized'),
           shown' = shown \/ shown' = NoRunShown
    PROVE  IInv'
<1>1. /\ Outcome(call[c]) /\ Ledgered /\ live \subseteq known /\ known \subseteq Runs
      /\ Promise(call[c], leg[call[c].run], run_finalized[call[c].run])
      /\ call[c].run \in live
    BY CallOutcome DEF IInv, Shape
<1>2. Ledgered' /\ live' \subseteq live /\ \A r \in Runs : Grows(r)
    BY <1>1, RequestGrows
<1>3. Shape'
    <2>1. call' = [x \in Callers |-> call'[x]]
        BY DEF Onward
    <2>2. DOMAIN shown' \subseteq known /\ \A r \in DOMAIN shown' : shown'[r] \in [LegType -> LegRow]
        BY DEF IInv, Shape, NoRunShown
    <2> QED BY <1>1, <1>2, <2>1, <2>2 DEF Shape
<1>4. OrderedRuns'
    <2> SUFFICES ASSUME NEW r \in live'
                 PROVE  InOrder(leg'[r])
        BY DEF OrderedRuns
    <2>1. r \in live /\ r \in Runs /\ InOrder(leg[r])
        BY <1>1, <1>2 DEF IInv, OrderedRuns, Ledgered
    <2>2. CASE r = call[c].run
        BY <1>1, <2>1, <2>2, RequestInOrder
    <2>3. CASE r # call[c].run
        BY <1>1, <2>1, <2>3 DEF Outcome, Touches
    <2> QED BY <2>2, <2>3
<1>5. ShownIsPast'
    <2> SUFFICES ASSUME NEW r \in DOMAIN shown', r \in live'
                 PROVE  IsPast(shown'[r], leg'[r], run_finalized'[r])
        BY DEF ShownIsPast
    <2>1. shown' = shown
        BY DEF NoRunShown
    <2>2. r \in live /\ Grows(r) /\ r \in DOMAIN shown
        BY <1>1, <1>2, <2>1 DEF Ledgered
    <2>3. IsPast(shown[r], leg[r], run_finalized[r])
        BY <2>2 DEF IInv, ShownIsPast
    <2> QED BY <2>1, <2>2, <2>3, LookLasts
<1>6. CallsInv'
    <2> SUFFICES ASSUME NEW x \in Callers
                 PROVE  CallInv(x, call'[x], known', live', leg', run_finalized')
        BY DEF CallsInv
    <2>1. CASE x = c
        BY <2>1 DEF Onward
    <2>2. CASE x # c
        <3>1. call'[x] = Overtaken(x, call[x])
            BY <2>2 DEF Onward, Overtaken
        <3>2. CallInv(x, call[x], known, live, leg, run_finalized)
            BY DEF IInv, CallsInv
        <3>3. \A r \in known : Grows(r)
            BY <1>1, <1>2
        <3>4. CallInv(x, Overtaken(x, call[x]), known', live', leg', run_finalized')
            BY <3>2, <3>3, OvertakenStays
        <3> QED BY <3>1, <3>4
    <2> QED BY <2>1, <2>2
<1> QED BY <1>3, <1>4, <1>5, <1>6 DEF IInv

-----------------------------------------------------------------------------
(* Steps that leave the ledger alone.                                      *)

LEMMA CallsMove ==
    ASSUME IInv, NEW c \in Callers, NEW k, call' = [call EXCEPT ![c] = k],
           UNCHANGED <<ledger, known>>, CallInv(c, k, known, live, leg, run_finalized),
           shown' = shown \/ shown' = NoRunShown \/ shown' = [r \in ListedRuns |-> leg[r]]
    PROVE  IInv'
<1>1. live' = live /\ leg' = leg /\ run_finalized' = run_finalized /\ known' = known
    BY DEF ledger
<1>2. DOMAIN shown' \subseteq known /\ \A r \in DOMAIN shown' : shown'[r] \in [LegType -> LegRow]
    BY DEF IInv, Shape, Ledgered, NoRunShown, ListedRuns, InProgress
<1>3. Shape'
    <2>1. call' = [x \in Callers |-> call'[x]]
        BY DEF IInv, Shape
    <2> QED BY <1>1, <1>2, <2>1 DEF IInv, Shape, Ledgered
<1>4. OrderedRuns'
    BY <1>1 DEF IInv, OrderedRuns
<1>5. ShownIsPast'
    <2> SUFFICES ASSUME NEW r \in DOMAIN shown', r \in live
                 PROVE  IsPast(shown'[r], leg[r], run_finalized[r])
        BY <1>1 DEF ShownIsPast
    <2>1. CASE shown' = shown
        BY <2>1 DEF IInv, ShownIsPast
    <2>2. CASE shown' = NoRunShown
        BY <2>2 DEF NoRunShown
    <2>3. CASE shown' = [q \in ListedRuns |-> leg[q]]
        <3>1. shown'[r] = leg[r] /\ run_finalized[r] = Unset
            BY <2>3 DEF ListedRuns, InProgress
        <3>2. InOrder(leg[r]) /\ Unset # "write_off"
            BY DEF IInv, OrderedRuns, Unset
        <3> QED BY <3>1, <3>2 DEF IsPast, InOrder, LegType
    <2> QED BY <2>1, <2>2, <2>3
<1>6. CallsInv'
    <2> SUFFICES ASSUME NEW x \in Callers
                 PROVE  CallInv(x, call'[x], known, live, leg, run_finalized)
        BY <1>1 DEF CallsInv
    <2>1. CallInv(x, call[x], known, live, leg, run_finalized)
        BY DEF IInv, CallsInv
    <2>2. call'[x] = IF x = c THEN k ELSE call[x]
        BY DEF IInv, Shape
    <2> QED BY <2>1, <2>2
<1> QED BY <1>3, <1>4, <1>5, <1>6 DEF IInv

LEMMA ResolveKeeps ==
    ASSUME IInv, NEW v \in Voices, NEW tool \in Tool, Resolve(v, tool)
    PROVE  IInv'
<1>1. PICK r \in InProgress, d \in Details, stated \in {{}, Column} :
          LET l    == ResolvedLeg(leg[r])
              row  == leg[r][l]
              step == FirstStep(tool, next_unset_field(l, row))
          IN  /\ l \in LegTypesOf(tool)
              /\ step # "refuse"
              /\ tool = "update_leg_details" => stated # {}
              /\ call' = [call EXCEPT ![v] = [step |-> step, tool |-> tool, run |-> r, leg |-> l,
                                              stated |-> stated, unraced |-> TRUE,
                                              vals |-> IF tool \in Recorders
                                                       THEN Merged(row, stated, d) ELSE d]]
    BY DEF Resolve
<1> DEFINE l == ResolvedLeg(leg[r])
           row == leg[r][l]
           field == next_unset_field(l, row)
           step == FirstStep(tool, field)
           vals == IF tool \in Recorders THEN Merged(row, stated, d) ELSE d
           k == [step |-> step, tool |-> tool, run |-> r, leg |-> l,
                 stated |-> stated, unraced |-> TRUE, vals |-> vals]
<1>2. /\ l \in LegTypesOf(tool) /\ l \in LegType /\ l = current_leg(leg[r])
      /\ r \in live /\ r \in known /\ r \in Runs /\ leg[r] \in [LegType -> LegRow] /\ row \in LegRow
    <2>1. l \in LegType
        BY <1>1, ToolLegs
    <2> QED BY <1>1, <2>1 DEF InProgress, IInv, Shape, Ledgered, ResolvedLeg
<1>3. step \in {"advance", "catch_up", "record", "update"}
    BY <1>1 DEF FirstStep
<1>4. vals \in Details \cup [Column -> Int \cup CargoTransferType]
    <2>1. CASE tool \in Recorders
        <3>1. \A c \in Column : d[c] \in Int \cup CargoTransferType /\ row[c] \in Int \cup CargoTransferType
            BY <1>2, DetailsTyped, Columns DEF Column
        <3> HIDE DEF row
        <3> QED BY <2>1, <3>1 DEF Merged
    <2>2. CASE tool \notin Recorders
        BY <2>2
    <2> QED BY <2>1, <2>2
<1>5. call' = [call EXCEPT ![v] = k]
    BY <1>1
<1>6. field = FirstOf(l, row)
    <2> HIDE DEF row, l
    <2> QED BY <1>2, NextField DEF row, l
<1>7. \A c \in Column \ stated : tool \in Recorders => vals[c] = row[c]
    BY DEF Merged
<1> HIDE DEF step, vals, row, field
<1>8. /\ k \in VoiceCalls /\ k.step = step /\ k.tool = tool /\ k.run = r /\ k.leg = l
      /\ k.stated = stated /\ k.vals = vals
    <2>1. stated \in SUBSET Column /\ TRUE \in BOOLEAN
        OBVIOUS
    <2> HIDE DEF l
    <2> QED BY <1>2, <1>3, <1>4, <2>1 DEF VoiceCalls
<1> HIDE DEF k, l
<1>9. WellFormed(v, k, known)
    BY <1>2, <1>8, CallersAssumption DEF WellFormed
<1>10. Kept(k, live, leg, run_finalized)
    <2>1. l = "sale" => Has(leg[r], "acquisition", "finalized_at")
        BY <1>2 DEF current_leg, Has
    <2>2. step = "record" => field = "transaction_completed_at"
        BY DEF step, FirstStep
    <2>3. step = "record" => Has(leg[r], l, "reached_at")
        BY <1>6, <2>2 DEF FirstOf, Has, NoMilestone, row
    <2>4. step # "finalize"
        BY <1>3
    <2> QED BY <1>8, <2>1, <2>3, <2>4 DEF Kept, Promise
<1>11. Mine(k, live, leg)
    BY <1>7, <1>8 DEF Mine, InHand, step, field, row
<1>12. UNCHANGED <<ledger, known>> /\ shown' = shown
    BY DEF Resolve
<1>13. v \in Callers
    BY DEF Callers
<1> QED BY <1>5, <1>9, <1>10, <1>11, <1>12, <1>13, CallsMove DEF CallInv

LEMMA EndsKeeps ==
    ASSUME IInv, NEW c \in Callers, call' = [call EXCEPT ![c] = Idle], UNCHANGED <<ledger, known>>,
           shown' = shown \/ shown' = NoRunShown \/ shown' = [r \in ListedRuns |-> leg[r]]
    PROVE  IInv'
BY CallsMove, NothingInFlight

-----------------------------------------------------------------------------
(* The clicks.                                                             *)

Pressed(step, r, l, d) == [step |-> step, run |-> r, leg |-> l, stated |-> Column, vals |-> d]

LEMMA PostKeeps ==
    ASSUME IInv, NEW p \in Clicks, NEW r \in DOMAIN shown,
           NEW step \in {"advance", "record", "update", "finalize", "write_off", "delete"},
           NEW l \in LegType \cup {"none"}, NEW d \in Details \cup {AnyDetail}, Post(p, step, r, l, d),
           step \in {"advance", "record", "update"} => l \in LegType,
           r \in live => Promise(Pressed(step, r, l, d), leg[r], run_finalized[r])
    PROVE  IInv'
<1> DEFINE k == Pressed(step, r, l, d)
<1>1. /\ p \in Callers /\ p \notin Voices /\ r \in known /\ r \in Runs
    BY CallersAssumption DEF Callers, IInv, Shape
<1>2. k \in ClickCalls /\ k.step = step /\ k.run = r /\ k.leg = l
    BY <1>1 DEF ClickCalls, Pressed
<1>3. call' = [call EXCEPT ![p] = k] /\ UNCHANGED <<ledger, known>> /\ shown' = shown
    BY DEF Post, Pressed
<1>4. r \in live => Promise(k, leg[r], run_finalized[r])
    OBVIOUS
<1> HIDE DEF k
<1>5. CallInv(p, k, known, live, leg, run_finalized)
    BY <1>1, <1>2, <1>4 DEF CallInv, WellFormed, Kept
<1> QED BY <1>1, <1>3, <1>5, CallsMove

(* What the panel offers of a run, by the list it shows.                   *)
LEMMA Offered ==
    ASSUME IInv, NEW r \in DOMAIN shown
    PROVE  /\ shown[r] \in [LegType -> LegRow]
           /\ r \in live => IsPast(shown[r], leg[r], run_finalized[r])
BY DEF IInv, Shape, ShownIsPast

LEMMA ClickKeeps ==
    ASSUME IInv, NEW p \in Clicks, Click(p)
    PROVE  IInv'
<1>1. PICK r \in DOMAIN shown : \/ ClickAdvance(p, r) \/ ClickRecord(p, r) \/ ClickUpdate(p, r)
                                \/ ClickFinalize(p, r) \/ ClickAbandon(p, r) \/ ClickWriteOff(p, r)
    BY DEF Click
<1> DEFINE l == current_leg(shown[r])
<1>2. /\ shown[r] \in [LegType -> LegRow]
      /\ r \in live => IsPast(shown[r], leg[r], run_finalized[r])
      /\ "none" \in LegType \cup {"none"} /\ AnyDetail \in Details \cup {AnyDetail}
    BY Offered
<1>3. l # "none" => l \in LegType
    BY DEF current_leg, LegType
<1>4. l = "sale" /\ r \in live => Has(leg[r], "acquisition", "finalized_at")
    BY <1>2 DEF current_leg, IsPast, Has, LegType, Milestone
<1>5. CASE ClickAdvance(p, r)
    <2>1. l # "none" /\ Post(p, "advance", r, l, AnyDetail)
        BY <1>5 DEF ClickAdvance
    <2>2. r \in live => Promise(Pressed("advance", r, l, AnyDetail), leg[r], run_finalized[r])
        BY <1>4 DEF Promise, Pressed
    <2> HIDE DEF l
    <2> QED BY <1>2, <1>3, <2>1, <2>2, PostKeeps
<1>6. CASE ClickRecord(p, r)
    <2>1. PICK d \in Details : Post(p, "record", r, l, d)
        BY <1>6 DEF ClickRecord
    <2>2. l # "none" /\ next_unset_field(l, shown[r][l]) = "transaction_completed_at"
        BY <1>6 DEF ClickRecord
    <2> HIDE DEF l
    <2>3. FirstOf(l, shown[r][l]) = "transaction_completed_at" /\ l \in LegType
        BY <1>2, <1>3, <2>2, NextField
    <2>4. Has(shown[r], l, "reached_at")
        BY <2>3 DEF FirstOf, Has
    <2>5. r \in live => Has(leg[r], l, "reached_at")
        BY <1>2, <2>3, <2>4 DEF IsPast, Milestone
    <2>6. r \in live => Promise(Pressed("record", r, l, d), leg[r], run_finalized[r])
        BY <1>4, <2>5 DEF Promise, Pressed
    <2> QED BY <2>1, <2>3, <2>6, PostKeeps
<1>7. CASE ClickUpdate(p, r)
    <2>1. PICK k \in LegType, d \in Details : Post(p, "update", r, k, d)
        BY <1>7 DEF ClickUpdate
    <2>2. r \in live => Promise(Pressed("update", r, k, d), leg[r], run_finalized[r])
        BY DEF Promise, Pressed
    <2> QED BY <2>1, <2>2, PostKeeps
<1>8. CASE ClickFinalize(p, r)
    <2>1. Post(p, "finalize", r, "none", AnyDetail) /\ Has(shown[r], "sale", "finalized_at")
        BY <1>8 DEF ClickFinalize, _is_ready_to_finalize, Has, LegType
    <2>2. r \in live => Promise(Pressed("finalize", r, "none", AnyDetail), leg[r], run_finalized[r])
        BY <1>2, <2>1 DEF Promise, Pressed, IsPast
    <2> QED BY <1>2, <2>1, <2>2, PostKeeps
<1>9. CASE ClickAbandon(p, r)
    <2>1. Post(p, "delete", r, "none", AnyDetail)
        BY <1>9 DEF ClickAbandon
    <2>2. r \in live => Promise(Pressed("delete", r, "none", AnyDetail), leg[r], run_finalized[r])
        BY DEF Promise, Pressed
    <2> QED BY <1>2, <2>1, <2>2, PostKeeps
<1>10. CASE ClickWriteOff(p, r)
    <2>1. CASE UNCHANGED <<ledger, known, call, shown>>
        BY <2>1 DEF ledger, IInv, Shape, Ledgered, OrderedRuns, ShownIsPast, CallsInv
    <2>2. CASE Post(p, "write_off", r, "none", AnyDetail)
        <3>1. r \in live => Promise(Pressed("write_off", r, "none", AnyDetail), leg[r], run_finalized[r])
            BY DEF Promise, Pressed
        <3> QED BY <1>2, <2>2, <3>1, PostKeeps
    <2> QED BY <1>10, <2>1, <2>2 DEF ClickWriteOff
<1> QED BY <1>1, <1>5, <1>6, <1>7, <1>8, <1>9, <1>10

-----------------------------------------------------------------------------
(* A new run.                                                              *)

LEMMA StartKeeps ==
    ASSUME IInv, NEW r \in Runs, start_trade_run(r)
    PROVE  IInv'
<1>1. /\ r \notin known /\ known' = known \cup {r} /\ UNCHANGED <<call, shown, armed>>
      /\ Ledgered /\ live \subseteq known /\ known \subseteq Runs
    BY DEF start_trade_run, IInv, Shape
<1>2. /\ Touches(r) /\ live' = live \cup {r} /\ run_finalized' = run_finalized
      /\ \A l \in LegType, m \in Milestone : ~Has(leg'[r], l, m)
    BY <1>1, CreateDoes DEF start_trade_run
<1>3. \A q \in known : q \in live' => q \in live /\ leg'[q] = leg[q] /\ run_finalized'[q] = run_finalized[q]
    BY <1>1, <1>2 DEF Touches
<1>4. Shape'
    <2>1. Ledgered'
        BY <1>1, <1>2 DEF Touches, Ledgered
    <2> QED BY <1>1, <1>2, <2>1 DEF IInv, Shape
<1>5. OrderedRuns'
    <2> SUFFICES ASSUME NEW q \in live'
                 PROVE  InOrder(leg'[q])
        BY DEF OrderedRuns
    <2>1. CASE q = r
        BY <1>2, <2>1 DEF InOrder, LegType, Milestone
    <2>2. CASE q # r
        BY <1>1, <1>2, <1>3, <2>2 DEF IInv, OrderedRuns
    <2> QED BY <2>1, <2>2
<1>6. ShownIsPast'
    BY <1>1, <1>3 DEF IInv, Shape, ShownIsPast
<1>7. CallsInv'
    <2> SUFFICES ASSUME NEW x \in Callers
                 PROVE  CallInv(x, call[x], known', live', leg', run_finalized')
        BY <1>1 DEF CallsInv
    <2>1. CallInv(x, call[x], known, live, leg, run_finalized)
        BY DEF IInv, CallsInv
    <2> QED BY <1>1, <1>3, <2>1, UndisturbedStays
<1> QED BY <1>4, <1>5, <1>6, <1>7 DEF IInv

-----------------------------------------------------------------------------
(* The invariant.                                                          *)

LEMMA InitIInv == Init => IInv
<1> SUFFICES ASSUME Init
             PROVE  IInv
    OBVIOUS
<1>1. /\ live = {} /\ known = {} /\ call = [c \in Callers |-> Idle] /\ shown = NoRunShown
      /\ run_finalized = [r \in Runs |-> Unset]
      /\ leg = [r \in Runs |-> [l \in LegType |-> NoRow]]
    BY SameRows DEF Init, Server!Init
<1>2. Unset \in StampColumn /\ NoRow \in LegRow
    BY NoRowIsRow DEF StampColumn
<1>3. Ledgered
    BY <1>1, <1>2 DEF Ledgered
<1>4. Shape
    BY <1>1, <1>3 DEF Shape, NoRunShown
<1>5. OrderedRuns /\ ShownIsPast
    BY <1>1 DEF OrderedRuns, ShownIsPast
<1>6. CallsInv
    BY <1>1, NothingInFlight DEF CallsInv
<1> QED BY <1>4, <1>5, <1>6 DEF IInv

LEMMA NextIInv == IInv /\ [Next]_vars => IInv'
<1> SUFFICES ASSUME IInv, [Next]_vars
             PROVE  IInv'
    OBVIOUS
<1>1. ASSUME NEW v \in Voices, Answered(v)
      PROVE  IInv'
    <2> DEFINE k == AfterAnswer(call[v], leg'[call[v].run][call[v].leg])
    <2>1. /\ call[v] # Idle /\ Request(call[v]) /\ Onward(v, k) /\ known' = known /\ shown' = shown
          /\ v \in Callers
        BY <1>1 DEF Answered, Callers
    <2>2. CallInv(v, k, known', live', leg', run_finalized')
        BY <2>1, AnswerFits
    <2> HIDE DEF k
    <2> QED BY <2>1, <2>2, Moves
<1>2. ASSUME NEW v \in Voices, AnswerLost(v)
      PROVE  IInv'
    <2>1. /\ call[v] # Idle /\ Request(call[v]) /\ Onward(v, Idle) /\ known' = known /\ shown' = shown
          /\ v \in Callers
        BY <1>2 DEF AnswerLost, Callers
    <2> QED BY <2>1, NothingInFlight, Moves
<1>3. ASSUME NEW v \in Voices, Fails(v)
      PROVE  IInv'
    <2>1. v \in Callers
        BY DEF Callers
    <2> QED BY <1>3, <2>1, EndsKeeps DEF Fails
<1>4. ASSUME NEW p \in Clicks, ClickDone(p)
      PROVE  IInv'
    <2>1. /\ call[p] # Idle /\ Request(call[p]) /\ Onward(p, Refreshing) /\ known' = known /\ shown' = shown
          /\ p \in Callers /\ p \notin Voices
        BY <1>4, CallersAssumption DEF ClickDone, Callers, Refreshing
    <2> QED BY <2>1, NothingInFlight, Moves
<1>5. ASSUME NEW p \in Clicks, ClickAnswerLost(p)
      PROVE  IInv'
    <2>1. /\ call[p] # Idle /\ Request(call[p]) /\ Onward(p, Idle) /\ known' = known
          /\ shown' = NoRunShown /\ p \in Callers
        BY <1>5 DEF ClickAnswerLost, Callers
    <2> QED BY <2>1, NothingInFlight, Moves
<1>6. ASSUME NEW p \in Clicks, ClickFails(p) \/ refresh(p)
      PROVE  IInv'
    <2>1. p \in Callers
        BY DEF Callers
    <2> QED BY <1>6, <2>1, EndsKeeps DEF ClickFails, refresh
<1>7. CASE Next
    BY <1>1, <1>2, <1>3, <1>4, <1>5, <1>6, <1>7, ResolveKeeps, StartKeeps, ClickKeeps DEF Next
<1>8. CASE UNCHANGED vars
    BY <1>8 DEF vars, IInv, Shape, Ledgered, OrderedRuns, ShownIsPast, CallsInv
<1> QED BY <1>7, <1>8

LEMMA Inductive == Spec => []IInv
BY InitIInv, NextIInv, PTL DEF Spec

-----------------------------------------------------------------------------
(* The properties.                                                         *)

(* The milestones of a run are stamped in the order of the trip, although  *)
(* the server takes a purchase or a sale of a leg that nobody has reached: *)
(* every look that the tools and the panel decide on, however old, saw     *)
(* milestones that are still set when the request comes.                   *)
THEOREM TripIsInOrder == Spec => []StepsInOrder
<1>1. IInv => StepsInOrder
    <2> SUFFICES ASSUME IInv, NEW r \in live
                 PROVE  /\ \A l \in LegType : LET row == leg[r][l] IN
                              /\ row.transaction_completed_at # Unset => row.reached_at # Unset
                              /\ row.transferred_at # Unset =>
                                    row[IF l = "acquisition" THEN "transaction_completed_at" ELSE "reached_at"] # Unset
                              /\ row.finalized_at # Unset =>
                                    row.transaction_completed_at # Unset /\ row.transferred_at # Unset
                        /\ (\E m \in Milestone : leg[r]["sale"][m] # Unset)
                              => leg[r]["acquisition"].finalized_at # Unset
        BY DEF StepsInOrder, NoStepSkipped, SaleWaitsForPickup
    <2>1. InOrder(leg[r])
        BY DEF IInv, OrderedRuns
    <2> QED BY <2>1 DEF InOrder, Has
<1> QED BY <1>1, Inductive, PTL

(* A step of the ledger is a request of one caller, or a new run.          *)
LEMMA WhoStamps ==
    ASSUME IInv, Next
    PROVE  \/ run_finalized' = run_finalized
           \/ \E c \in Callers : call[c] # Idle /\ Request(call[c])
BY DEF Next, Answered, AnswerLost, Fails, Resolve, start_trade_run, Click, ClickAdvance, ClickRecord,
       ClickUpdate, ClickFinalize, ClickAbandon, ClickWriteOff, Post, ClickDone, ClickAnswerLost,
       ClickFails, refresh, ledger, Callers, Server!Create

(* A run that was written off is never finalized: its milestones are all   *)
(* filled, and the server would take the request, but none is ever made,   *)
(* not even from a list that was rendered before the write-off.            *)
THEOREM LossStands == Spec => WriteOffStands
<1>1. IInv /\ [Next]_vars
        => [\A r \in Runs : run_finalized[r] = "write_off" => run_finalized'[r] # "finalize"]_vars
    <2> SUFFICES ASSUME IInv, Next, NEW r \in Runs, run_finalized[r] = "write_off"
                 PROVE  run_finalized'[r] # "finalize"
        BY DEF vars
    <2>1. CASE run_finalized' = run_finalized
        BY <2>1
    <2>2. ASSUME NEW c \in Callers, call[c] # Idle, Request(call[c])
          PROVE  run_finalized'[r] # "finalize"
        <3> DEFINE k == call[c]
        <3>1. Outcome(k) /\ Promise(k, leg[k.run], run_finalized[k.run])
            BY <2>2, CallOutcome
        <3>2. CASE r # k.run
            BY <3>1, <3>2 DEF Outcome, Touches
        <3>3. CASE r = k.run
            BY <3>1, <3>3 DEF Outcome, Promise, Advances, Records, Updates, OneLeg, Finalizes,
                              WritesOff, Deletes, Unset
        <3> QED BY <3>2, <3>3
    <2> QED BY <2>1, <2>2, WhoStamps
<1> QED BY <1>1, Inductive, PTL DEF Spec, WriteOffStands

(* A tool that nobody overtook stamps the milestones it is for, and writes *)
(* nothing into the columns that the pilot did not state.                  *)
THEOREM OwnWork == Spec => UnracedToolDoesItsOwn
<1> DEFINE Own == \A v \in Voices : VoiceRequest(v) /\ call[v].unraced =>
                     Stamped(call[v].run, call[v].leg) \subseteq Names(call[v].tool)
           Rest == \A v \in Voices : VoiceRequest(v) /\ call[v].unraced =>
                     \A c \in Column \ call[v].stated :
                        leg'[call[v].run][call[v].leg][c] = leg[call[v].run][call[v].leg][c]
<1>1. ASSUME IInv, NEW v \in Voices, VoiceRequest(v), call[v].unraced
      PROVE  /\ Stamped(call[v].run, call[v].leg) \subseteq Names(call[v].tool)
             /\ \A c \in Column \ call[v].stated :
                   leg'[call[v].run][call[v].leg][c] = leg[call[v].run][call[v].leg][c]
    <2> DEFINE k == call[v]
               r == k.run
               l == k.leg
               row == leg[r][l]
               field == FirstOf(l, row)
    <2>1. v \in Callers /\ k # Idle /\ Request(k)
        BY <1>1 DEF VoiceRequest, Answered, AnswerLost, Callers
    <2>2. Outcome(k) /\ k \in VoiceCalls /\ l \in LegTypesOf(k.tool) /\ r \in live
        BY <1>1, <2>1, CallOutcome
    <2>3. k.tool \in Tool /\ k.step \in OnALeg
        BY <2>2, Steps DEF VoiceCalls
    <2>4. l \in LegType /\ row \in LegRow /\ r \in Runs
        <3>1. l \in LegType
            BY <2>2, <2>3, ToolLegs
        <3> QED BY <1>1, <2>2, <3>1 DEF IInv, Shape, Ledgered
    <2>5. InHand(k, row)
        BY <1>1, <2>1, <2>2 DEF IInv, CallsInv, CallInv, Mine
    <2>6. next_unset_field(l, row) = field
        <3> HIDE DEF row, l
        <3> QED BY <2>4, NextField DEF row, l
    <2>7. FirstStep(k.tool, field) = k.step
        BY <2>5, <2>6 DEF InHand
    <2>8. ASSUME NEW gained, OneLeg(k, gained)
          PROVE  Stamped(r, l) \subseteq gained
        BY <2>4, <2>8 DEF OneLeg, Gains, Stamped, Has
    <2>9. CASE Advances(k)
        <3>1. field \in Names(k.tool)
            <4>1. field \in AdvancesAt(k.tool) \/ field \in CatchesUpAt(k.tool)
                BY <2>7, <2>9 DEF Advances, FirstStep
            <4> QED BY <2>3, <4>1 DEF Names, AdvancesAt, CatchesUpAt, Tool
        <3>2. Stamped(r, l) \subseteq {field}
            BY <2>8, <2>9 DEF Advances
        <3>3. leg'[r][l] = Advanced(row, field) /\ field \in Milestone
            BY <2>9 DEF Advances, StepsByOne, Milestone
        <3>4. \A c \in Column : leg'[r][l][c] = row[c]
            <4>1. row \in LegRow /\ field \in Milestone
                BY <2>4, <3>3
            <4>2. \A c \in Column : Advanced(row, field)[c] = row[c]
                <5> HIDE DEF row, field
                <5> QED BY <4>1, RowAdvanced
            <4> QED BY <3>3, <4>2
        <3> QED BY <3>1, <3>2, <3>4
    <2>10. CASE Records(k)
        <3>1. k.tool \in Recorders
            BY <2>7, <2>10 DEF Records, FirstStep
        <3>2. Recording(l) \subseteq Names(k.tool)
            <4>1. CASE k.tool = "mark_cargo_acquired"
                BY <2>2, <4>1, ToolLegs DEF Recording, Names
            <4>2. CASE k.tool = "mark_cargo_sold"
                BY <2>2, <4>2, ToolLegs DEF Recording, Names
            <4> QED BY <3>1, <4>1, <4>2 DEF Recorders
        <3>3. Stamped(r, l) \subseteq Recording(l)
            BY <2>8, <2>10 DEF Records
        <3>4. \A c \in Column \ k.stated : leg'[r][l][c] = row[c]
            BY <2>5, <2>10, <3>1 DEF Records, Holds, InHand
        <3> QED BY <3>2, <3>3, <3>4
    <2>11. CASE Updates(k)
        <3>1. Stamped(r, l) \subseteq {}
            BY <2>8, <2>11 DEF Updates
        <3>2. \A c \in Column \ k.stated : leg'[r][l][c] = row[c]
            BY <2>11 DEF Updates, Holds
        <3> QED BY <3>1, <3>2
    <2> QED BY <2>2, <2>3, <2>9, <2>10, <2>11 DEF Outcome, OnALeg, Finalizes, WritesOff, Deletes
<1>2. IInv /\ [Next]_vars => [Own]_vars /\ [Rest]_vars
    BY <1>1
<1> HIDE DEF Own, Rest
<1>3. Spec => [][Own]_vars /\ [][Rest]_vars
    BY <1>2, Inductive, PTL DEF Spec
<1> QED BY <1>3 DEF Own, Rest, UnracedToolDoesItsOwn, UnracedToolStampsItsOwn, UnracedToolKeepsTheRest
=============================================================================
