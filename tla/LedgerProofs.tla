---------------------------- MODULE LedgerProofs ----------------------------
(***************************************************************************)
(* The ledger keeps its invariants for every set of pilots, runs and       *)
(* values and every number of concurrent requests; and with one request of *)
(* each pilot in flight it implements the atomic ledger.                   *)
(***************************************************************************)
EXTENDS Ledger, FiniteSetTheorems, TLAPS

-----------------------------------------------------------------------------
(* Lemmas about the rows and the milestone sequences.                      *)

(* When nothing is left to do on a leg, every milestone of its sequence is *)
(* set, and when the leg may be finalized, every earlier one is.           *)
LEMMA NextUnsetField ==
    ASSUME NEW l \in LegType, NEW row \in LegRow
    PROVE  /\ next_unset_field(l, row) = NoMilestone
                => /\ row.reached_at # Unset
                   /\ row.transaction_completed_at # Unset
                   /\ row.finalized_at # Unset
                   /\ l = "acquisition" => row.transferred_at # Unset
           /\ next_unset_field(l, row) = "finalized_at"
                => /\ row.reached_at # Unset
                   /\ row.transaction_completed_at # Unset
                   /\ l = "acquisition" => row.transferred_at # Unset
           /\ next_unset_field(l, row) \in Milestone \cup {NoMilestone}
           /\ (\A m \in Milestone : row[m] # Unset) => next_unset_field(l, row) = NoMilestone
<1> DEFINE seq == MilestoneSequence(l, row)
           pending == {i \in DOMAIN seq : row[seq[i]] = Unset}
           first == CHOOSE i \in pending : \A j \in pending : i <= j
<1>1. /\ row["reached_at"] = row.reached_at
      /\ row["transaction_completed_at"] = row.transaction_completed_at
      /\ row["transferred_at"] = row.transferred_at
      /\ row["finalized_at"] = row.finalized_at
  BY DEF LegRow
<1>2. next_unset_field(l, row) = IF pending = {} THEN NoMilestone ELSE seq[first]
  BY DEF next_unset_field
<1>3. ASSUME DOMAIN seq \subseteq 1..4, pending # {}
      PROVE  /\ first \in DOMAIN seq
             /\ row[seq[first]] = Unset
             /\ \A j \in DOMAIN seq : j < first => row[seq[j]] # Unset
  <2>1. \A S \in SUBSET (1..4) : S # {} => \E i \in S : \A j \in S : i <= j
    <3> TAKE S \in SUBSET (1..4)
    <3> HAVE S # {}
    <3>1. \A i \in S : i = 1 \/ i = 2 \/ i = 3 \/ i = 4
      OBVIOUS
    <3>2. CASE 1 \in S  BY <3>1, <3>2
    <3>3. CASE 1 \notin S /\ 2 \in S  BY <3>1, <3>3
    <3>4. CASE 1 \notin S /\ 2 \notin S /\ 3 \in S  BY <3>1, <3>4
    <3>5. CASE 1 \notin S /\ 2 \notin S /\ 3 \notin S
      <4>1. 4 \in S /\ \A j \in S : j = 4  BY <3>1, <3>5
      <4>. QED  BY <4>1
    <3>. QED  BY <3>2, <3>3, <3>4, <3>5
  <2>2. pending \in SUBSET (1..4) /\ pending # {}
    BY <1>3
  <2>3. \E i \in pending : \A j \in pending : i <= j
    BY <2>1, <2>2
  <2>4. first \in pending /\ \A j \in pending : first <= j
    BY <2>3
  <2>. QED  BY <2>4, <2>2
<1>4. CASE l = "acquisition"
  <2> DEFINE ms == <<"reached_at", "transaction_completed_at", "transferred_at", "finalized_at">>
  <2>1. seq = ms
    BY <1>4 DEF MilestoneSequence
  <2>2. /\ DOMAIN ms = 1..4
        /\ ms[1] = "reached_at" /\ ms[2] = "transaction_completed_at"
        /\ ms[3] = "transferred_at" /\ ms[4] = "finalized_at"
    OBVIOUS
  <2> HIDE DEF seq, first, ms
  <2>3. CASE pending = {}
    BY <1>1, <1>2, <1>4, <2>1, <2>2, <2>3 DEF NoMilestone, Milestone
  <2>4. CASE pending # {}
    BY <1>1, <1>2, <1>3, <1>4, <2>1, <2>2, <2>4 DEF NoMilestone, Milestone
  <2>. QED  BY <2>3, <2>4
<1>5. CASE l = "sale" /\ row.cargo_transfer_type = "manual"
  <2> DEFINE ms == <<"reached_at", "transferred_at", "transaction_completed_at", "finalized_at">>
  <2>1. seq = ms
    BY <1>5 DEF MilestoneSequence
  <2>2. /\ DOMAIN ms = 1..4
        /\ ms[1] = "reached_at" /\ ms[2] = "transferred_at"
        /\ ms[3] = "transaction_completed_at" /\ ms[4] = "finalized_at"
    OBVIOUS
  <2> HIDE DEF seq, first, ms
  <2>3. CASE pending = {}
    BY <1>1, <1>2, <1>5, <2>1, <2>2, <2>3 DEF NoMilestone, Milestone
  <2>4. CASE pending # {}
    BY <1>1, <1>2, <1>3, <1>5, <2>1, <2>2, <2>4 DEF NoMilestone, Milestone
  <2>. QED  BY <2>3, <2>4
<1>6. CASE l = "sale" /\ row.cargo_transfer_type # "manual"
  <2> DEFINE ms == <<"reached_at", "transaction_completed_at", "finalized_at">>
  <2>1. seq = ms
    BY <1>6 DEF MilestoneSequence
  <2>2. /\ DOMAIN ms = 1..3
        /\ ms[1] = "reached_at" /\ ms[2] = "transaction_completed_at" /\ ms[3] = "finalized_at"
    OBVIOUS
  <2> HIDE DEF seq, first, ms
  <2>3. CASE pending = {}
    BY <1>1, <1>2, <1>6, <2>1, <2>2, <2>3 DEF NoMilestone, Milestone
  <2>4. CASE pending # {}
    BY <1>1, <1>2, <1>3, <1>6, <2>1, <2>2, <2>4 DEF NoMilestone, Milestone
  <2>. QED  BY <2>3, <2>4
<1>. QED  BY <1>4, <1>5, <1>6 DEF LegType
-----------------------------------------------------------------------------
(* Lemmas about units of work.                                             *)

Column == Milestone \cup {"started_at"}

(* A unit of work keeps the type of a row; it sets the columns it carries  *)
(* and no others, and it unsets none.                                      *)
LEMMA ApplyRow ==
    ASSUME NEW u \in Update, NEW row \in LegRow
    PROVE  /\ Apply(u, row) \in LegRow
           /\ \A c \in Column :
                /\ Apply(u, row)[c] = IF u[c] = Keep THEN row[c] ELSE u[c]
                /\ Apply(u, row)[c] = Unset <=> u[c] = Keep /\ row[c] = Unset
<1>1. /\ Unset \notin Stamp /\ Unset \in StampColumn /\ Stamp \subseteq StampColumn
      /\ Keep \notin StampColumn /\ Keep # Unset
  BY KeepAssumption DEF Stamp, StampColumn, Unset
<1>2. Apply(u, row) \in LegRow
  BY <1>1 DEF Apply, Written, Update, LegRow
<1>3. ASSUME NEW c \in Column
      PROVE  /\ Apply(u, row)[c] = IF u[c] = Keep THEN row[c] ELSE u[c]
             /\ u[c] \in Stamp \cup {Keep}
  BY DEF Column, Milestone, Apply, Written, Update, LegRow
<1>. QED  BY <1>1, <1>2, <1>3

LEMMA Siblings ==
    ASSUME NEW l \in LegType
    PROVE  /\ Sibling(l) \in LegType
           /\ Sibling(l) # l
           /\ Sibling(Sibling(l)) = l
           /\ LegType = {l, Sibling(l)}
BY DEF Sibling, LegType

LEMMA NoUpdateType ==
    /\ NoUpdate \in Update
    /\ \A c \in Column : NoUpdate[c] = Keep
BY DEF NoUpdate, Update, Column, Milestone

-----------------------------------------------------------------------------
(* Steps that begin a request.                                             *)

(* A request that begins with a unit of work that keeps the invariant      *)
(* keeps it: its read changes no row.                                      *)
LEMMA BeginKeeps ==
    ASSUME IInv, NEW s \in Slots, NEW t \in Txn, TxnInv(t, leg[t.run]), Begin(s, t)
    PROVE  IInv'
<1>1. /\ UNCHANGED <<live, run_finalized, leg>>
      /\ txn' = [txn EXCEPT ![s] = t]
      /\ TypeOK /\ InFlightInv
  BY DEF Begin, IInv
<1>2. TypeOK'
  BY <1>1 DEF TypeOK
<1>3. InFlightInv'
  <2> SUFFICES ASSUME NEW w \in Slots, txn'[w] # Idle, txn'[w].run \in live'
               PROVE  TxnInv(txn'[w], leg'[txn'[w].run])
    BY DEF InFlightInv
  <2>2. txn'[w] = IF w = s THEN t ELSE txn[w]
    BY <1>1 DEF TypeOK
  <2>3. CASE w = s
    BY <1>1, <2>2, <2>3
  <2>4. CASE w # s
    BY <1>1, <2>2, <2>4 DEF InFlightInv
  <2>. QED  BY <2>3, <2>4
<1>4. /\ GoneRunIsOpen' /\ SaleStampsTransfer' /\ DoneLegIsComplete'
      /\ FinalizedRunIsComplete' /\ NextStopStarted' /\ ClosedRunWasBought'
  BY <1>1 DEF IInv, GoneRunIsOpen, SaleStampsTransfer, DoneLegIsComplete,
              FinalizedRunIsComplete, NextStopStarted, ClosedRunWasBought
<1>. QED  BY <1>2, <1>3, <1>4 DEF IInv

-----------------------------------------------------------------------------
(* Steps that change rows.                                                 *)

(* What a request in flight found out stays true while the others commit:  *)
(* no commit unsets a column.                                              *)
LEMMA TxnInvStable ==
    ASSUME NEW t \in Txn, NEW rows \in [LegType -> LegRow], NEW newer \in [LegType -> LegRow],
           TxnInv(t, rows),
           \A l \in LegType : \A c \in Column : rows[l][c] # Unset => newer[l][c] # Unset
    PROVE  TxnInv(t, newer)
<1>1. \A l \in LegType, c \in Column : WillBeSet(t, rows, l, c) => WillBeSet(t, newer, l, c)
  BY DEF WillBeSet
<1>2. /\ Milestone \subseteq Column /\ "started_at" \in Column /\ "transferred_at" \in Column
      /\ "sale" \in LegType /\ \A l \in LegType : Sibling(l) \in LegType
  BY DEF Column, Milestone, LegType, Sibling
<1>. QED  BY <1>1, <1>2 DEF TxnInv

(* The commit of a request writes its columns; with the columns that were  *)
(* set before, they leave the invariant true.                              *)
LEMMA CommitKeeps ==
    ASSUME IInv, NEW s \in Slots, Commit(s)
    PROVE  IInv'
<1> DEFINE t == txn[s]
           r == t.run
           new == [l \in LegType |-> Apply(t.writes[l], leg[r][l])]
<1>1. /\ t # Idle /\ t.phase # "sibling" /\ r \in live
      /\ leg' = [leg EXCEPT ![r] = new]
      /\ run_finalized' = [run_finalized EXCEPT ![r] = Written(t.run_finalized, @)]
      /\ txn' = [txn EXCEPT ![s] = Idle]
      /\ live' = live
  BY DEF Commit, Ready, Finish
<1>2. /\ t \in Txn /\ r \in Runs /\ leg[r] \in [LegType -> LegRow]
      /\ t.writes \in [LegType -> Update] /\ t.run_finalized \in Stamp \cup {Keep}
  BY <1>1 DEF IInv, TypeOK, Txn
<1>3. TxnInv(t, leg[r])
  BY <1>1 DEF IInv, InFlightInv
<1>4. /\ new \in [LegType -> LegRow]
      /\ \A l \in LegType, c \in Column :
            /\ new[l][c] = IF t.writes[l][c] = Keep THEN leg[r][l][c] ELSE t.writes[l][c]
            /\ new[l][c] # Unset <=> WillBeSet(t, leg[r], l, c)
  BY <1>2, ApplyRow DEF WillBeSet
<1> HIDE DEF new, r, t
<1>5. /\ leg' \in [Runs -> [LegType -> LegRow]]
      /\ \A q \in Runs : leg'[q] = IF q = r THEN new ELSE leg[q]
  BY <1>1, <1>2, <1>4 DEF IInv, TypeOK
<1>6. /\ run_finalized' \in [Runs -> StampColumn]
      /\ \A q \in Runs : run_finalized'[q] =
            IF q = r /\ t.run_finalized # Keep THEN t.run_finalized ELSE run_finalized[q]
  BY <1>1, <1>2 DEF IInv, TypeOK, Written, StampColumn
<1>7. TypeOK'
  <2>1. txn' \in [Slots -> Txn \cup {Idle}]
    BY <1>1 DEF IInv, TypeOK
  <2>. QED  BY <1>1, <1>5, <1>6, <2>1 DEF IInv, TypeOK
<1>8. \A q \in Runs, l \in LegType, c \in Column : leg[q][l][c] # Unset => leg'[q][l][c] # Unset
  BY <1>4, <1>5 DEF WillBeSet
<1>9. InFlightInv'
  <2> SUFFICES ASSUME NEW w \in Slots, txn'[w] # Idle, txn'[w].run \in live'
               PROVE  TxnInv(txn'[w], leg'[txn'[w].run])
    BY DEF InFlightInv
  <2>1. w # s /\ txn'[w] = txn[w] /\ txn[w] \in Txn /\ txn[w].run \in Runs
    BY <1>1 DEF IInv, TypeOK, Txn
  <2>2. TxnInv(txn[w], leg[txn[w].run])
    BY <1>1, <2>1 DEF IInv, InFlightInv
  <2>3. /\ leg[txn[w].run] \in [LegType -> LegRow]
        /\ leg'[txn[w].run] \in [LegType -> LegRow]
    BY <1>7, <2>1 DEF IInv, TypeOK
  <2>. QED  BY <1>8, <2>1, <2>2, <2>3, TxnInvStable
<1> USE DEF Column, Milestone, LegType
<1>10. /\ \A c \in Column, l \in LegType : t.writes[l][c] # Keep => WillBeSet(t, leg[r], l, c)
       /\ \A c \in Column, l \in LegType : leg[r][l][c] # Unset => WillBeSet(t, leg[r], l, c)
  BY DEF WillBeSet
<1>11. SaleStampsTransfer'
  <2> SUFFICES ASSUME NEW q \in Runs, leg'[q]["sale"]["transaction_completed_at"] # Unset
               PROVE  leg'[q]["sale"]["transferred_at"] # Unset
    BY DEF SaleStampsTransfer
  <2>1. CASE q # r
    BY <1>5, <2>1 DEF IInv, SaleStampsTransfer
  <2>2. CASE q = r
    BY <1>3, <1>4, <1>5, <1>10, <2>2 DEF IInv, SaleStampsTransfer, TxnInv, WillBeSet
  <2>. QED  BY <2>1, <2>2
<1>12. DoneLegIsComplete'
  <2> SUFFICES ASSUME NEW q \in Runs, NEW l \in LegType, leg'[q][l]["finalized_at"] # Unset
               PROVE  \A m \in Milestone : leg'[q][l][m] # Unset
    BY DEF DoneLegIsComplete
  <2>1. CASE q # r
    BY <1>5, <2>1 DEF IInv, DoneLegIsComplete
  <2>2. CASE q = r
    BY <1>3, <1>4, <1>5, <1>10, <2>2 DEF IInv, DoneLegIsComplete, TxnInv, WillBeSet
  <2>. QED  BY <2>1, <2>2
<1>13. FinalizedRunIsComplete'
  <2> SUFFICES ASSUME NEW q \in Runs, run_finalized'[q] # Unset, NEW l \in LegType
               PROVE  /\ leg'[q][l]["finalized_at"] # Unset
                      /\ next_unset_field(l, leg'[q][l]) = NoMilestone
    BY DEF FinalizedRunIsComplete
  <2>1. CASE q # r
    BY <1>5, <1>6, <2>1 DEF IInv, FinalizedRunIsComplete
  <2>2. CASE q = r
    <3>1. leg'[q][l]["finalized_at"] # Unset
      <4>1. CASE t.run_finalized # Keep
        BY <1>3, <1>4, <1>5, <2>2, <4>1 DEF TxnInv
      <4>2. CASE t.run_finalized = Keep
        BY <1>4, <1>5, <1>6, <1>10, <2>2, <4>2 DEF IInv, FinalizedRunIsComplete
      <4>. QED  BY <4>1, <4>2
    <3>2. \A m \in Milestone : leg'[q][l][m] # Unset
      BY <1>12, <3>1 DEF DoneLegIsComplete
    <3>3. leg'[q][l] \in LegRow
      BY <1>5
    <3>. QED  BY <3>1, <3>2, <3>3, NextUnsetField
  <2>. QED  BY <2>1, <2>2
<1>14. NextStopStarted'
  <2> SUFFICES ASSUME NEW q \in Runs, NEW l \in LegType, leg'[q][l]["finalized_at"] # Unset
               PROVE  leg'[q][Sibling(l)]["started_at"] # Unset
    BY DEF NextStopStarted
  <2>1. CASE q # r
    BY <1>5, <2>1 DEF IInv, NextStopStarted
  <2>2. CASE q = r
    BY <1>1, <1>3, <1>4, <1>5, <1>10, <2>2, Siblings DEF IInv, NextStopStarted, TxnInv, WillBeSet
  <2>. QED  BY <2>1, <2>2
<1>15. ClosedRunWasBought'
  <2> SUFFICES ASSUME NEW q \in Runs
               PROVE  /\ leg'[q]["acquisition"]["transaction_completed_at"] \in {Unset, "purchase"}
                      /\ leg'[q]["sale"]["transaction_completed_at"] = "write_off" => run_finalized'[q] # Unset
    BY DEF ClosedRunWasBought
  <2>1. CASE q # r
    BY <1>5, <1>6, <2>1 DEF IInv, ClosedRunWasBought
  <2>2. CASE q = r
    <3>1. t.run_finalized # Keep => run_finalized'[q] # Unset
      BY <1>2, <1>6, <2>2 DEF Stamp, Unset
    <3>2. run_finalized[q] # Unset => run_finalized'[q] # Unset
      BY <1>2, <1>6, <2>2 DEF Stamp, Unset
    <3>. QED  BY <1>3, <1>4, <1>5, <2>2, <3>1, <3>2 DEF IInv, ClosedRunWasBought, TxnInv
  <2>. QED  BY <2>1, <2>2
<1>16. GoneRunIsOpen'
  BY <1>1, <1>6 DEF IInv, GoneRunIsOpen
<1>. QED  BY <1>7, <1>9, <1>11, <1>12, <1>13, <1>14, <1>15, <1>16 DEF IInv

(* The row that stands for no row, and the rows of a run that is created,  *)
(* have no milestone set.                                                  *)
LEMMA NewRowType ==
    ASSUME NEW started \in StampColumn, NEW type \in CargoTransferType, NEW q \in Int, NEW p \in Int
    PROVE  /\ NewRow(started, type, q, p) \in LegRow
           /\ NewRow(started, type, q, p).started_at = started
           /\ \A m \in Milestone : NewRow(started, type, q, p)[m] = Unset
BY DEF NewRow, LegRow, StampColumn, Milestone

(* A run whose two rows have no milestone and that is open keeps the       *)
(* invariants about rows, whatever it was before.                          *)
LEMMA BlankRunKeeps ==
    ASSUME IInv, NEW r \in Runs, NEW rows \in [LegType -> LegRow],
           \A l \in LegType, m \in Milestone : rows[l][m] = Unset,
           leg' = [leg EXCEPT ![r] = rows],
           run_finalized' = [run_finalized EXCEPT ![r] = Unset]
    PROVE  /\ leg' \in [Runs -> [LegType -> LegRow]]
           /\ run_finalized' \in [Runs -> StampColumn]
           /\ SaleStampsTransfer' /\ DoneLegIsComplete' /\ FinalizedRunIsComplete'
           /\ NextStopStarted' /\ ClosedRunWasBought'
<1>1. /\ leg' \in [Runs -> [LegType -> LegRow]]
      /\ run_finalized' \in [Runs -> StampColumn]
      /\ \A q \in Runs : leg'[q] = IF q = r THEN rows ELSE leg[q]
      /\ \A q \in Runs : run_finalized'[q] = IF q = r THEN Unset ELSE run_finalized[q]
  BY DEF IInv, TypeOK, StampColumn
<1>2. /\ "acquisition" \in LegType /\ "sale" \in LegType
      /\ "transaction_completed_at" \in Milestone /\ "finalized_at" \in Milestone
  BY DEF LegType, Milestone
<1>3. SaleStampsTransfer'
  BY <1>1, <1>2 DEF IInv, SaleStampsTransfer
<1>4. DoneLegIsComplete'
  BY <1>1, <1>2 DEF IInv, DoneLegIsComplete
<1>5. FinalizedRunIsComplete'
  BY <1>1, <1>2 DEF IInv, FinalizedRunIsComplete
<1>6. NextStopStarted'
  BY <1>1, <1>2 DEF IInv, NextStopStarted
<1>7. ClosedRunWasBought'
  BY <1>1, <1>2 DEF IInv, ClosedRunWasBought, Unset
<1>. QED  BY <1>1, <1>3, <1>4, <1>5, <1>6, <1>7

LEMMA CreateRunKeeps ==
    ASSUME IInv, NEW u \in Pilots, NEW r \in Runs, CreateRun(u, r)
    PROVE  IInv'
<1>1. PICK q \in Quantities, p \in Prices, p2 \in Prices, type \in CargoTransferType, type2 \in CargoTransferType :
          leg' = [leg EXCEPT ![r] = [l \in LegType |->
                    IF l = "acquisition" THEN NewRow("create", type, q, p)
                                         ELSE NewRow(Unset, type2, q, p2)]]
  BY DEF CreateRun
<1> DEFINE rows == [l \in LegType |-> IF l = "acquisition" THEN NewRow("create", type, q, p)
                                                           ELSE NewRow(Unset, type2, q, p2)]
<1>2. /\ rows \in [LegType -> LegRow]
      /\ \A l \in LegType, m \in Milestone : rows[l][m] = Unset
  <2>1. "create" \in StampColumn /\ Unset \in StampColumn /\ q \in Int /\ p \in Int /\ p2 \in Int
    BY ValuesAssumption DEF StampColumn, Stamp
  <2>. QED  BY <2>1, NewRowType
<1> HIDE DEF rows
<1>3. /\ leg' = [leg EXCEPT ![r] = rows]
      /\ run_finalized' = [run_finalized EXCEPT ![r] = Unset]
  <2>1. r \notin live /\ run_finalized' = run_finalized
    BY DEF CreateRun
  <2>2. run_finalized[r] = Unset /\ run_finalized \in [Runs -> StampColumn]
    BY <2>1 DEF IInv, GoneRunIsOpen, TypeOK
  <2>. QED  BY <1>1, <2>1, <2>2 DEF rows
<1>4. /\ live' = live \cup {r} /\ txn' = txn
      /\ \A s \in Slots : txn[s] # Idle => txn[s].run # r
  BY DEF CreateRun
<1>5. InFlightInv'
  <2> SUFFICES ASSUME NEW w \in Slots, txn'[w] # Idle, txn'[w].run \in live'
               PROVE  TxnInv(txn'[w], leg'[txn'[w].run])
    BY DEF InFlightInv
  <2>1. txn[w].run # r /\ txn[w].run \in Runs /\ txn[w].run \in live
    BY <1>4 DEF IInv, TypeOK, Txn
  <2>2. leg'[txn[w].run] = leg[txn[w].run]
    BY <1>3, <2>1 DEF IInv, TypeOK
  <2>. QED  BY <1>4, <2>1, <2>2 DEF IInv, InFlightInv
<1>6. TypeOK' /\ GoneRunIsOpen'
  BY <1>2, <1>3, <1>4, BlankRunKeeps DEF IInv, TypeOK, GoneRunIsOpen
<1>. QED  BY <1>2, <1>3, <1>5, <1>6, BlankRunKeeps DEF IInv

LEMMA CommitDeleteKeeps ==
    ASSUME IInv, NEW s \in Slots, CommitDelete(s)
    PROVE  IInv'
<1> DEFINE r == txn[s].run
           rows == [l \in LegType |-> NoRow]
<1>1. /\ txn[s] # Idle /\ r \in live
      /\ live' = live \ {r}
      /\ leg' = [leg EXCEPT ![r] = rows]
      /\ run_finalized' = [run_finalized EXCEPT ![r] = Unset]
      /\ txn' = [txn EXCEPT ![s] = Idle]
  BY DEF CommitDelete, Ready, Finish
<1>2. r \in Runs
  BY <1>1 DEF IInv, TypeOK
<1>3. /\ rows \in [LegType -> LegRow]
      /\ \A l \in LegType, m \in Milestone : rows[l][m] = Unset
  <2>1. Unset \in StampColumn /\ "manual" \in CargoTransferType
    BY DEF StampColumn, CargoTransferType
  <2>. QED  BY <2>1, NewRowType DEF NoRow
<1> HIDE DEF r, rows
<1>4. InFlightInv'
  <2> SUFFICES ASSUME NEW w \in Slots, txn'[w] # Idle, txn'[w].run \in live'
               PROVE  TxnInv(txn'[w], leg'[txn'[w].run])
    BY DEF InFlightInv
  <2>1. /\ txn'[w] = txn[w] /\ txn[w].run # r
        /\ txn[w].run \in Runs /\ txn[w].run \in live
    BY <1>1 DEF IInv, TypeOK, Txn
  <2>2. leg'[txn[w].run] = leg[txn[w].run]
    BY <1>1, <2>1 DEF IInv, TypeOK
  <2>. QED  BY <1>1, <2>1, <2>2 DEF IInv, InFlightInv
<1>5. TypeOK' /\ GoneRunIsOpen'
  <2>1. txn' \in [Slots -> Txn \cup {Idle}]
    BY <1>1 DEF IInv, TypeOK
  <2>2. \A q \in Runs : run_finalized'[q] = IF q = r THEN Unset ELSE run_finalized[q]
    BY <1>1, <1>2 DEF IInv, TypeOK
  <2>. QED  BY <1>1, <1>2, <1>3, <2>1, <2>2, BlankRunKeeps DEF IInv, TypeOK, GoneRunIsOpen
<1>. QED  BY <1>1, <1>2, <1>3, <1>4, <1>5, BlankRunKeeps DEF IInv

LEMMA AbortKeeps ==
    ASSUME IInv, NEW s \in Slots, Abort(s)
    PROVE  IInv'
<1>1. txn' = [txn EXCEPT ![s] = Idle] /\ UNCHANGED <<live, run_finalized, leg>>
  BY DEF Abort, Finish
<1>2. TypeOK'
  BY <1>1 DEF IInv, TypeOK
<1>3. InFlightInv'
  BY <1>1 DEF IInv, TypeOK, InFlightInv
<1>. QED
  BY <1>1, <1>2, <1>3 DEF IInv, GoneRunIsOpen, SaleStampsTransfer, DoneLegIsComplete,
                          FinalizedRunIsComplete, NextStopStarted, ClosedRunWasBought

-----------------------------------------------------------------------------
(* The reads of the operations.                                            *)

LEMMA LegTxnFields ==
    ASSUME NEW op \in Operation, NEW phase \in {"sibling", "flushed", "commit"},
           NEW u \in Pilots, NEW r \in Runs, NEW l \in LegType,
           NEW update \in Update, NEW sibling \in Update,
           NEW t, t = LegTxn(op, phase, u, r, l, update, sibling)
    PROVE  /\ t \in Txn
           /\ t.op = op /\ t.phase = phase /\ t.user = u /\ t.run = r /\ t.leg = l
           /\ t.run_finalized = Keep
           /\ t.writes[l] = update
           /\ t.writes[Sibling(l)] = sibling
BY Siblings DEF LegTxn, Txn

LEMMA RunTxnFields ==
    ASSUME NEW op \in Operation, NEW u \in Pilots, NEW r \in Runs,
           NEW writes \in [LegType -> Update], NEW stamp \in Stamp \cup {Keep},
           NEW t, t = RunTxn(op, u, r, writes, stamp)
    PROVE  /\ t \in Txn
           /\ t.op = op /\ t.phase = "commit" /\ t.user = u /\ t.run = r
           /\ t.run_finalized = stamp
           /\ t.writes = writes
BY DEF RunTxn, Txn

LEMMA AdvanceLegKeeps ==
    ASSUME IInv, NEW s \in Slots, NEW u \in Pilots, NEW r \in Runs, NEW l \in LegType,
           advance_leg(s, u, r, l)
    PROVE  IInv'
<1> DEFINE field  == next_unset_field(l, leg[r][l])
           update == [NoUpdate EXCEPT ![field] = "advance"]
           start  == [NoUpdate EXCEPT !.started_at = "advance"]
           done   == field = "finalized_at"
           t == IF done THEN LegTxn("advance_leg", "sibling", u, r, l, update, start)
                        ELSE LegTxn("advance_leg", "commit", u, r, l, update, NoUpdate)
<1>1. Owner[r] = u /\ Begin(s, t) /\ field \notin {NoMilestone, "transaction_completed_at"}
  BY DEF advance_leg, Fetched
<1>2. leg[r][l] \in LegRow
  BY DEF IInv, TypeOK
<1>3. field \in {"reached_at", "transferred_at", "finalized_at"}
  BY <1>1, <1>2, NextUnsetField DEF Milestone
<1>4. done => \A m \in Milestone \ {"finalized_at"} : leg[r][l][m] # Unset
  <2> SUFFICES ASSUME done PROVE \A m \in Milestone \ {"finalized_at"} : leg[r][l][m] # Unset
    OBVIOUS
  <2>1. /\ leg[r][l].reached_at # Unset /\ leg[r][l].transaction_completed_at # Unset
        /\ l = "acquisition" => leg[r][l].transferred_at # Unset
    BY <1>2, NextUnsetField
  <2>2. leg[r][l].transferred_at # Unset
    BY <2>1 DEF IInv, SaleStampsTransfer, LegType
  <2>. QED  BY <2>1, <2>2 DEF Milestone
<1>5. /\ update \in Update /\ start \in Update
      /\ update.transaction_completed_at = Keep
      /\ update.finalized_at # Keep <=> done
      /\ done => update["finalized_at"] # Keep
      /\ start.started_at # Keep
      /\ \A m \in Milestone : start[m] = Keep /\ NoUpdate[m] = Keep
  <2>1. "advance" \in Stamp /\ "advance" # Keep
    BY KeepAssumption DEF Stamp, StampColumn
  <2>. QED  BY <1>3, <2>1 DEF Update, NoUpdate, Milestone
<1> HIDE DEF field, update, start
<1>6. /\ t \in Txn
      /\ t.op = "advance_leg" /\ t.user = u /\ t.run = r /\ t.leg = l
      /\ t.phase = IF done THEN "sibling" ELSE "commit"
      /\ t.run_finalized = Keep
      /\ t.writes[l] = update
      /\ t.writes[Sibling(l)] = IF done THEN start ELSE NoUpdate
  BY <1>5, LegTxnFields, NoUpdateType DEF Operation
<1> HIDE DEF t, done
<1>7. TxnInv(t, leg[t.run])
  <2>1. \A k \in LegType : t.writes[k].transaction_completed_at = Keep
    BY <1>5, <1>6, Siblings DEF Milestone
  <2>2. \A k \in LegType : t.writes[k].finalized_at # Keep => k = l /\ done
    BY <1>5, <1>6, Siblings DEF Milestone
  <2>3. done => \A m \in Milestone : WillBeSet(t, leg[r], l, m)
    BY <1>4, <1>5, <1>6 DEF WillBeSet
  <2>4. \A k \in LegType : t.writes[k].finalized_at # Keep =>
            /\ \A m \in Milestone : WillBeSet(t, leg[r], k, m)
            /\ t.phase # "sibling" => WillBeSet(t, leg[r], Sibling(k), "started_at")
    BY <1>6, <2>2, <2>3
  <2>5. t.phase = "sibling" =>
            /\ t.writes[Sibling(t.leg)].started_at # Keep
            /\ \A m \in Milestone : t.writes[Sibling(t.leg)][m] = Keep
    BY <1>5, <1>6
  <2>6. "acquisition" \in LegType /\ "sale" \in LegType /\ Keep # "write_off"
    BY KeepAssumption DEF LegType, StampColumn, Stamp
  <2>. QED  BY <1>1, <1>6, <2>1, <2>4, <2>5, <2>6 DEF TxnInv
<1>. QED  BY <1>1, <1>6, <1>7, BeginKeeps

(* A request on one leg that finishes no leg: the invariant asks only about *)
(* the sale it records.                                                    *)
LEMMA UnfinishingTxn ==
    ASSUME NEW t, NEW rows,
           t.user = Owner[t.run], t.run_finalized = Keep,
           \A l \in LegType : t.writes[l].finalized_at = Keep,
           t.writes["acquisition"].transaction_completed_at \in {Keep, "purchase"},
           t.writes["sale"].transaction_completed_at \in {Keep, "sale"},
           t.writes["sale"].transaction_completed_at = "sale" => WillBeSet(t, rows, "sale", "transferred_at"),
           t.leg \in LegType,
           t.phase = "sibling" => \A m \in Milestone : t.writes[Sibling(t.leg)][m] = Keep
    PROVE  TxnInv(t, rows)
<1>1. Keep # "write_off"
  BY KeepAssumption DEF StampColumn, Stamp
<1>. QED  BY <1>1 DEF TxnInv

LEMMA RecordPurchaseKeeps ==
    ASSUME IInv, NEW s \in Slots, NEW u \in Pilots, NEW r \in Runs, NEW l \in LegType,
           record_purchase(s, u, r, l)
    PROVE  IInv'
<1>1. PICK q \in Quantities, p \in Prices, fee \in Fees, type \in CargoTransferType :
         Begin(s, LegTxn("record_purchase", "sibling", u, r, l,
                         _apply_transaction(leg[r][l], q, p, fee, type, "purchase", FALSE),
                         [NoUpdate EXCEPT !.quantity_scu = q]))
  BY DEF record_purchase
<1> DEFINE update == _apply_transaction(leg[r][l], q, p, fee, type, "purchase", FALSE)
           carry  == [NoUpdate EXCEPT !.quantity_scu = q]
           t == LegTxn("record_purchase", "sibling", u, r, l, update, carry)
<1>2. Owner[r] = u /\ l = "acquisition"
  BY DEF record_purchase, Fetched
<1>3. q \in Int /\ p \in Int /\ fee \in Int /\ leg[r][l] \in LegRow /\ "purchase" \in Stamp
  BY ValuesAssumption DEF IInv, TypeOK, Stamp
<1>4. update \in Update /\ update.transaction_completed_at = "purchase" /\ update.finalized_at = Keep
  BY <1>3 DEF _apply_transaction, AlsoStamp, Changed, Update, NoUpdate
<1>5. /\ carry \in Update
      /\ carry.transaction_completed_at = Keep /\ carry.finalized_at = Keep
      /\ \A m \in Milestone : carry[m] = Keep
  BY <1>3 DEF Update, NoUpdate, Milestone
<1> HIDE DEF update, carry
<1>6. /\ t \in Txn /\ t.user = u /\ t.run = r /\ t.leg = l /\ t.run_finalized = Keep
      /\ t.writes[l] = update /\ t.writes[Sibling(l)] = carry
  BY <1>4, <1>5, LegTxnFields DEF Operation
<1> HIDE DEF t
<1>7. Sibling(l) = "sale" /\ LegType = {l, Sibling(l)}
  BY <1>2 DEF Sibling, LegType
<1>8. Keep # "sale"
  BY KeepAssumption DEF StampColumn, Stamp
<1>9. TxnInv(t, leg[t.run])
  BY <1>2, <1>4, <1>5, <1>6, <1>7, <1>8, UnfinishingTxn
<1>. QED  BY <1>1, <1>6, <1>9, BeginKeeps DEF t, update, carry

LEMMA RecordSaleKeeps ==
    ASSUME IInv, NEW s \in Slots, NEW u \in Pilots, NEW r \in Runs, NEW l \in LegType,
           record_sale(s, u, r, l)
    PROVE  IInv'
<1> DEFINE also == leg[r][l].transferred_at = Unset
<1>1. PICK q \in Quantities, p \in Prices, fee \in Fees, type \in CargoTransferType :
         Begin(s, LegTxn("record_sale", "commit", u, r, l,
                         _apply_transaction(leg[r][l], q, p, fee, type, "sale", also), NoUpdate))
  BY DEF record_sale
<1> DEFINE update == _apply_transaction(leg[r][l], q, p, fee, type, "sale", also)
           t == LegTxn("record_sale", "commit", u, r, l, update, NoUpdate)
<1>2. Owner[r] = u /\ l = "sale"
  BY DEF record_sale, Fetched
<1>3. q \in Int /\ p \in Int /\ fee \in Int /\ leg[r][l] \in LegRow /\ "sale" \in Stamp
  BY ValuesAssumption DEF IInv, TypeOK, Stamp
<1>4. /\ update \in Update /\ update.transaction_completed_at = "sale" /\ update.finalized_at = Keep
      /\ update["transferred_at"] = IF also THEN "sale" ELSE Keep
  BY <1>3 DEF _apply_transaction, AlsoStamp, Changed, Update, NoUpdate
<1> HIDE DEF update
<1>5. /\ t \in Txn /\ t.user = u /\ t.run = r /\ t.leg = l /\ t.run_finalized = Keep
      /\ t.phase = "commit"
      /\ t.writes[l] = update /\ t.writes[Sibling(l)] = NoUpdate
  BY <1>4, LegTxnFields, NoUpdateType DEF Operation
<1> HIDE DEF t
<1>6. /\ Sibling(l) = "acquisition" /\ LegType = {l, Sibling(l)}
      /\ NoUpdate.transaction_completed_at = Keep /\ NoUpdate.finalized_at = Keep
  BY <1>2 DEF Sibling, LegType, NoUpdate
<1>7. Keep # "sale"
  BY KeepAssumption DEF StampColumn, Stamp
<1>8. WillBeSet(t, leg[r], "sale", "transferred_at")
  BY <1>2, <1>4, <1>5, <1>7 DEF WillBeSet
<1>9. TxnInv(t, leg[t.run])
  BY <1>2, <1>4, <1>5, <1>6, <1>7, <1>8, UnfinishingTxn
<1>. QED  BY <1>1, <1>5, <1>9, BeginKeeps DEF t, update

LEMMA UpdateTransactionKeeps ==
    ASSUME IInv, NEW s \in Slots, NEW u \in Pilots, NEW r \in Runs, NEW l \in LegType,
           update_transaction(s, u, r, l)
    PROVE  IInv'
<1> DEFINE Edit(q, p, fee, type) ==
        [NoUpdate EXCEPT !.quantity_scu = Changed(leg[r][l].quantity_scu, q),
                         !.price_per_unit = Changed(leg[r][l].price_per_unit, p),
                         !.cargo_transfer_fee = Changed(leg[r][l].cargo_transfer_fee, fee),
                         !.cargo_transfer_type = Changed(leg[r][l].cargo_transfer_type, type)]
<1>1. PICK q \in Optional(Quantities), p \in Optional(Prices), fee \in Optional(Fees),
          type \in CargoTransferType \cup {Keep} :
          Begin(s, LegTxn("update_transaction", "commit", u, r, l, Edit(q, p, fee, type), NoUpdate))
  BY DEF update_transaction
<1> DEFINE update == Edit(q, p, fee, type)
           t == LegTxn("update_transaction", "commit", u, r, l, update, NoUpdate)
<1>2. Owner[r] = u
  BY DEF update_transaction, Fetched
<1>3. q \in Int \cup {Keep} /\ p \in Int \cup {Keep} /\ fee \in Int \cup {Keep}
  BY ValuesAssumption DEF Optional
<1>4. update \in Update /\ update.transaction_completed_at = Keep /\ update.finalized_at = Keep
  BY <1>3 DEF Update, NoUpdate, Changed
<1> HIDE DEF update
<1>5. /\ t \in Txn /\ t.user = u /\ t.run = r /\ t.leg = l /\ t.run_finalized = Keep
      /\ t.phase = "commit"
      /\ t.writes[l] = update /\ t.writes[Sibling(l)] = NoUpdate
  BY <1>4, LegTxnFields, NoUpdateType DEF Operation
<1> HIDE DEF t
<1>6. /\ "acquisition" \in LegType /\ "sale" \in LegType /\ LegType = {l, Sibling(l)}
      /\ NoUpdate.transaction_completed_at = Keep /\ NoUpdate.finalized_at = Keep
  BY Siblings DEF NoUpdate, LegType
<1>7. \A k \in LegType : t.writes[k].transaction_completed_at = Keep /\ t.writes[k].finalized_at = Keep
  BY <1>4, <1>5, <1>6
<1>8. Keep # "sale"
  BY KeepAssumption DEF StampColumn, Stamp
<1>9. TxnInv(t, leg[t.run])
  BY <1>2, <1>5, <1>6, <1>7, <1>8, UnfinishingTxn
<1>. QED  BY <1>1, <1>5, <1>9, BeginKeeps DEF t, update

LEMMA FinalizeRunKeeps ==
    ASSUME IInv, NEW s \in Slots, NEW u \in Pilots, NEW r \in Runs, finalize_run(s, u, r)
    PROVE  IInv'
<1> DEFINE t == RunTxn("finalize_run", u, r, NoWrites, "finalize")
<1>1. Owner[r] = u /\ Begin(s, t) /\ \A l \in LegType : next_unset_field(l, leg[r][l]) = NoMilestone
  BY DEF finalize_run, Fetched, LegsDone
<1>2. /\ NoWrites \in [LegType -> Update]
      /\ \A l \in LegType, m \in Milestone : NoWrites[l][m] = Keep
      /\ "finalized_at" \in Milestone /\ "transaction_completed_at" \in Milestone
      /\ "acquisition" \in LegType /\ "sale" \in LegType
  BY NoUpdateType DEF NoWrites, Column, Milestone, LegType
<1>3. /\ t \in Txn /\ t.phase = "commit" /\ t.user = u /\ t.run = r
      /\ t.run_finalized = "finalize" /\ t.writes = NoWrites
  BY <1>2, RunTxnFields DEF Operation, Stamp
<1> HIDE DEF t
<1>4. \A l \in LegType, m \in Milestone : leg[r][l][m] # Unset
  <2> TAKE l \in LegType
  <2>1. leg[r][l] \in LegRow
    BY DEF IInv, TypeOK
  <2>2. /\ leg[r][l].reached_at # Unset /\ leg[r][l].transaction_completed_at # Unset
        /\ leg[r][l].finalized_at # Unset
        /\ l = "acquisition" => leg[r][l].transferred_at # Unset
    BY <1>1, <2>1, NextUnsetField
  <2>3. leg[r][l].transferred_at # Unset
    BY <2>2 DEF IInv, SaleStampsTransfer, LegType
  <2>. QED  BY <2>2, <2>3 DEF Milestone
<1>5. TxnInv(t, leg[t.run])
  <2>1. \A l \in LegType : t.writes[l].transaction_completed_at = Keep /\ t.writes[l].finalized_at = Keep
    BY <1>2, <1>3
  <2>2. \A l \in LegType, m \in Milestone : WillBeSet(t, leg[r], l, m)
    BY <1>4 DEF WillBeSet
  <2>3. Keep # "write_off" /\ Keep # "finalize"
    BY KeepAssumption DEF StampColumn, Stamp
  <2>. QED  BY <1>1, <1>2, <1>3, <2>1, <2>2, <2>3 DEF TxnInv
<1>. QED  BY <1>1, <1>3, <1>5, BeginKeeps

LEMMA WriteOffRunKeeps ==
    ASSUME IInv, NEW s \in Slots, NEW u \in Pilots, NEW r \in Runs, write_off_run(s, u, r)
    PROVE  IInv'
<1> DEFINE writes == [l \in LegType |-> IF l = "acquisition" THEN Closed(leg[r][l])
                                                            ELSE ClosedForNothing(leg[r][l])]
           t == RunTxn("write_off_run", u, r, writes, "write_off")
<1>1. Owner[r] = u /\ Begin(s, t) /\ leg[r]["acquisition"].transaction_completed_at # Unset
  BY DEF write_off_run, Fetched, CanWriteOff, Unrecorded
<1>2. leg[r] \in [LegType -> LegRow] /\ "acquisition" \in LegType /\ "sale" \in LegType
  BY DEF IInv, TypeOK, LegType
<1>3. "write_off" \in Stamp /\ Keep # "write_off"
  BY KeepAssumption DEF StampColumn, Stamp
<1>4. ASSUME NEW row \in LegRow
      PROVE  /\ Closed(row) \in Update /\ ClosedForNothing(row) \in Update
             /\ \A c \in Column : /\ Closed(row)[c] = StampUnset(row[c])
                                  /\ ClosedForNothing(row)[c] = StampUnset(row[c])
  <2>1. /\ \A x : StampUnset(x) \in Stamp \cup {Keep}
        /\ \A x : Changed(x, 0) \in Int \cup {Keep}
    BY <1>3 DEF StampUnset, Changed
  <2>2. Closed(row) \in Update /\ \A c \in Column : Closed(row)[c] = StampUnset(row[c])
    BY <2>1 DEF Closed, NoUpdate, Update, LegRow, Column, Milestone
  <2>3. /\ ClosedForNothing(row) \in Update
        /\ \A c \in Column : ClosedForNothing(row)[c] = Closed(row)[c]
    BY <2>1, <2>2 DEF ClosedForNothing, Update, Column, Milestone
  <2>. QED  BY <2>2, <2>3
<1>5. /\ writes \in [LegType -> Update]
      /\ \A l \in LegType, c \in Column : writes[l][c] = StampUnset(leg[r][l][c])
  BY <1>2, <1>4
<1> HIDE DEF writes
<1>6. /\ t \in Txn /\ t.phase = "commit" /\ t.user = u /\ t.run = r
      /\ t.run_finalized = "write_off" /\ t.writes = writes
  BY <1>3, <1>5, RunTxnFields DEF Operation
<1> HIDE DEF t
<1>7. \A l \in LegType, c \in Column : WillBeSet(t, leg[r], l, c)
  BY <1>3, <1>5, <1>6 DEF WillBeSet, StampUnset
<1>8. t.writes["acquisition"].transaction_completed_at = Keep
  BY <1>1, <1>2, <1>5, <1>6 DEF StampUnset, Column, Milestone
<1>9. /\ Milestone \subseteq Column /\ "started_at" \in Column /\ "transferred_at" \in Column
      /\ \A l \in LegType : Sibling(l) \in LegType
  BY Siblings DEF Column, Milestone
<1>10. TxnInv(t, leg[t.run])
  BY <1>1, <1>2, <1>3, <1>6, <1>7, <1>8, <1>9 DEF TxnInv
<1>. QED  BY <1>1, <1>6, <1>10, BeginKeeps

LEMMA DeleteRunKeeps ==
    ASSUME IInv, NEW s \in Slots, NEW u \in Pilots, NEW r \in Runs, delete_run(s, u, r)
    PROVE  IInv'
<1> DEFINE t == RunTxn("delete_run", u, r, NoWrites, Keep)
<1>1. Owner[r] = u /\ Begin(s, t)
  BY DEF delete_run, Fetched
<1>2. /\ NoWrites \in [LegType -> Update]
      /\ \A l \in LegType, m \in Milestone : NoWrites[l][m] = Keep
      /\ "finalized_at" \in Milestone /\ "transaction_completed_at" \in Milestone
      /\ "acquisition" \in LegType /\ "sale" \in LegType
  BY NoUpdateType DEF NoWrites, Column, Milestone, LegType
<1>3. /\ t \in Txn /\ t.phase = "commit" /\ t.user = u /\ t.run = r
      /\ t.run_finalized = Keep /\ t.writes = NoWrites
  BY <1>2, RunTxnFields DEF Operation
<1> HIDE DEF t
<1>4. TxnInv(t, leg[t.run])
  <2>1. \A l \in LegType : t.writes[l].transaction_completed_at = Keep /\ t.writes[l].finalized_at = Keep
    BY <1>2, <1>3
  <2>2. Keep # "write_off"
    BY KeepAssumption DEF StampColumn, Stamp
  <2>. QED  BY <1>1, <1>2, <1>3, <2>1, <2>2 DEF TxnInv
<1>. QED  BY <1>1, <1>3, <1>4, BeginKeeps

-----------------------------------------------------------------------------
(* The second read, of the sibling leg.                                    *)

LEMMA ReadSiblingKeeps ==
    ASSUME IInv, NEW s \in Slots, ReadSibling(s)
    PROVE  IInv'
<1> DEFINE t == txn[s]
           other == Sibling(t.leg)
           row == leg[t.run][other]
           t2 == [t EXCEPT !.phase = "flushed", !.writes[other] = SiblingUpdate(t)]
<1>1. /\ t # Idle /\ t.phase = "sibling" /\ t.run \in live
      /\ txn' = [txn EXCEPT ![s].phase = "flushed", ![s].writes[Sibling(t.leg)] = SiblingUpdate(t)]
      /\ UNCHANGED <<live, run_finalized, leg>>
  BY DEF ReadSibling
<1>2. /\ t \in Txn /\ t.run \in Runs /\ t.leg \in LegType
      /\ t.writes \in [LegType -> Update]
  BY <1>1 DEF IInv, TypeOK, Txn
<1>3. /\ other \in LegType /\ other # t.leg /\ LegType = {t.leg, other}
      /\ row \in LegRow
  BY <1>2, Siblings DEF IInv, TypeOK
<1>4. TxnInv(t, leg[t.run])
  BY <1>1 DEF IInv, InFlightInv
<1>5. /\ SiblingUpdate(t) \in Update
      /\ \A m \in Milestone : SiblingUpdate(t)[m] = Keep
      /\ t.op = "advance_leg" /\ t.writes[other].started_at # Keep =>
            SiblingUpdate(t).started_at # Keep \/ row.started_at # Unset
  <2> DEFINE intended == t.writes[other]
             carried == [intended EXCEPT !.quantity_scu = Changed(row.quantity_scu, @)]
  <2>1. intended \in Update /\ \A m \in Milestone : intended[m] = Keep
    BY <1>1, <1>2, <1>3, <1>4 DEF TxnInv
  <2>2. carried \in Update /\ \A m \in Milestone : carried[m] = intended[m]
    BY <2>1 DEF Update, Changed, Milestone
  <2>3. NoUpdate \in Update /\ \A m \in Milestone : NoUpdate[m] = Keep
    BY NoUpdateType DEF Column
  <2>4. SiblingUpdate(t) = CASE t.op = "advance_leg" /\ row.started_at = Unset -> intended
                              [] t.op = "record_purchase" /\ row.transaction_completed_at = Unset -> carried
                              [] OTHER -> NoUpdate
    BY DEF SiblingUpdate
  <2> HIDE DEF intended, carried, t, row, other
  <2>5. CASE t.op = "advance_leg" /\ row.started_at = Unset
    BY <2>1, <2>4, <2>5 DEF intended
  <2>6. CASE t.op = "record_purchase" /\ row.transaction_completed_at = Unset
    BY <2>1, <2>2, <2>4, <2>6
  <2>7. CASE /\ ~(t.op = "advance_leg" /\ row.started_at = Unset)
             /\ ~(t.op = "record_purchase" /\ row.transaction_completed_at = Unset)
    BY <2>3, <2>4, <2>7
  <2>. QED  BY <2>5, <2>6, <2>7
<1>6. /\ t2 \in Txn
      /\ t2.op = t.op /\ t2.phase = "flushed" /\ t2.user = t.user /\ t2.run = t.run
      /\ t2.leg = t.leg /\ t2.run_finalized = t.run_finalized
      /\ t2.writes[t.leg] = t.writes[t.leg]
      /\ t2.writes[other] = SiblingUpdate(t)
  BY <1>2, <1>3, <1>5 DEF Txn
<1>7. txn' = [txn EXCEPT ![s] = t2]
  BY <1>1, <1>2 DEF IInv, TypeOK, Txn
<1> HIDE DEF t2, t, other, row
<1>8. Begin(s, t2)
  BY <1>1, <1>7 DEF Begin
<1>9. TxnInv(t2, leg[t.run])
  <2>1. \A l \in LegType, m \in Milestone : t2.writes[l][m] = t.writes[l][m]
    BY <1>1, <1>3, <1>4, <1>5, <1>6 DEF TxnInv, other
  <2>2. \A l \in LegType, m \in Milestone :
            WillBeSet(t2, leg[t.run], l, m) <=> WillBeSet(t, leg[t.run], l, m)
    BY <1>6, <2>1 DEF WillBeSet
  <2>3. ASSUME NEW l \in LegType, t2.writes[l]["finalized_at"] # Keep
        PROVE  WillBeSet(t2, leg[t.run], Sibling(l), "started_at")
    <3>1. l = t.leg
      BY <1>3, <1>5, <1>6, <2>3 DEF Milestone
    <3>2. t.op = "advance_leg" /\ t.writes[other].started_at # Keep
      BY <1>1, <1>4, <1>6, <2>3, <3>1 DEF TxnInv, other
    <3>. QED  BY <1>5, <1>6, <3>1, <3>2 DEF WillBeSet, other, row
  <2>4. /\ "finalized_at" \in Milestone /\ "transaction_completed_at" \in Milestone
        /\ "transferred_at" \in Milestone
        /\ "acquisition" \in LegType /\ "sale" \in LegType
    BY DEF LegType, Milestone
  <2>. QED  BY <1>4, <1>6, <2>1, <2>2, <2>3, <2>4 DEF TxnInv
<1>. QED  BY <1>6, <1>8, <1>9, BeginKeeps

-----------------------------------------------------------------------------
(* The inductive invariant.                                                *)

LEMMA InitIInv == Init => IInv
<1> SUFFICES ASSUME Init PROVE IInv
  OBVIOUS
<1>1. /\ NoRow \in LegRow
      /\ \A m \in Milestone : NoRow[m] = Unset
  <2>1. Unset \in StampColumn /\ "manual" \in CargoTransferType
    BY DEF StampColumn, CargoTransferType
  <2>. QED  BY <2>1, NewRowType DEF NoRow
<1>2. /\ "acquisition" \in LegType /\ "sale" \in LegType
      /\ "finalized_at" \in Milestone /\ "transaction_completed_at" \in Milestone
  BY DEF LegType, Milestone
<1>3. TypeOK
  BY <1>1 DEF Init, TypeOK, StampColumn
<1>4. InFlightInv /\ GoneRunIsOpen
  BY DEF Init, InFlightInv, GoneRunIsOpen
<1>5. SaleStampsTransfer /\ DoneLegIsComplete /\ FinalizedRunIsComplete /\ NextStopStarted
  BY <1>1, <1>2 DEF Init, SaleStampsTransfer, DoneLegIsComplete, FinalizedRunIsComplete, NextStopStarted
<1>6. ClosedRunWasBought
  BY <1>1, <1>2 DEF Init, ClosedRunWasBought, Unset
<1>. QED  BY <1>3, <1>4, <1>5, <1>6 DEF IInv

LEMMA NextIInv == IInv /\ [Next]_vars => IInv'
<1> SUFFICES ASSUME IInv, [Next]_vars PROVE IInv'
  OBVIOUS
<1>1. ASSUME NEW u \in Pilots, NEW r \in Runs, CreateRun(u, r) PROVE IInv'
  BY <1>1, CreateRunKeeps
<1>2. ASSUME NEW s \in Slots, NEW u \in Pilots, NEW r \in Runs, NEW l \in LegType,
             LegRequest(s, u, r, l)
      PROVE  IInv'
  <2>1. CASE advance_leg(s, u, r, l)         BY <2>1, AdvanceLegKeeps
  <2>2. CASE record_purchase(s, u, r, l)     BY <2>2, RecordPurchaseKeeps
  <2>3. CASE record_sale(s, u, r, l)         BY <2>3, RecordSaleKeeps
  <2>4. CASE update_transaction(s, u, r, l)  BY <2>4, UpdateTransactionKeeps
  <2>. QED  BY <1>2, <2>1, <2>2, <2>3, <2>4 DEF LegRequest
<1>3. ASSUME NEW s \in Slots, NEW u \in Pilots, NEW r \in Runs, RunRequest(s, u, r) PROVE IInv'
  <2>1. CASE finalize_run(s, u, r)   BY <2>1, FinalizeRunKeeps
  <2>2. CASE write_off_run(s, u, r)  BY <2>2, WriteOffRunKeeps
  <2>3. CASE delete_run(s, u, r)     BY <2>3, DeleteRunKeeps
  <2>. QED  BY <1>3, <2>1, <2>2, <2>3 DEF RunRequest
<1>4. ASSUME NEW s \in Slots, ReadSibling(s) PROVE IInv'
  BY <1>4, ReadSiblingKeeps
<1>5. ASSUME NEW s \in Slots, Commit(s) PROVE IInv'
  BY <1>5, CommitKeeps
<1>6. ASSUME NEW s \in Slots, CommitDelete(s) PROVE IInv'
  BY <1>6, CommitDeleteKeeps
<1>7. ASSUME NEW s \in Slots, Abort(s) PROVE IInv'
  BY <1>7, AbortKeeps
<1>8. CASE UNCHANGED vars
  BY <1>8 DEF vars, IInv, TypeOK, GoneRunIsOpen, InFlightInv, SaleStampsTransfer, DoneLegIsComplete,
              FinalizedRunIsComplete, NextStopStarted, ClosedRunWasBought
<1>. QED  BY <1>1, <1>2, <1>3, <1>4, <1>5, <1>6, <1>7, <1>8 DEF Next

(* Every state the ledger reaches, whoever it serves at one time, is in    *)
(* the inductive invariant.                                                *)
THEOREM Invariance == Spec => []IInv
BY InitIInv, NextIInv, PTL DEF Spec

(* Rows and units of work keep their types.                                *)
THEOREM TypeCorrect == Spec => []TypeOK
<1>1. IInv => TypeOK
  BY DEF IInv
<1>. QED  BY <1>1, Invariance, PTL

(* A recorded sale has its unloading stamped, so that the transfer type of *)
(* a sale can be edited without opening a step.                            *)
THEOREM SalesAreUnloaded == Spec => []SaleStampsTransfer
<1>1. IInv => SaleStampsTransfer
  BY DEF IInv
<1>. QED  BY <1>1, Invariance, PTL

(* No race and no edit leaves a done leg with a milestone to reach.        *)
THEOREM DoneLegsStayDone == Spec => []DoneLegIsComplete
<1>1. IInv => DoneLegIsComplete
  BY DEF IInv
<1>. QED  BY <1>1, Invariance, PTL

(* A run is closed only with both its legs done, although finalize_run and *)
(* write_off_run decide on rows that others may change before they commit. *)
THEOREM ClosedRunsAreDone == Spec => []FinalizedRunIsComplete
<1>1. IInv => FinalizedRunIsComplete
  BY DEF IInv
<1>. QED  BY <1>1, Invariance, PTL

(* A pilot is never left between a leg that is done and one not started.   *)
THEOREM NextStopIsStarted == Spec => []NextStopStarted
<1>1. IInv => NextStopStarted
  BY DEF IInv
<1>. QED  BY <1>1, Invariance, PTL

(* A write-off closes only runs with a purchase, and closes all three rows. *)
THEOREM WriteOffsAreWhole == Spec => []ClosedRunWasBought
<1>1. IInv => ClosedRunWasBought
  BY DEF IInv
<1>. QED  BY <1>1, Invariance, PTL

-----------------------------------------------------------------------------
(* Who writes.                                                             *)

OwnersWrite ==
    \A r \in live :
        \/ r \in live' /\ UNCHANGED <<run_finalized[r], leg[r]>>
        \/ \E s \in Slots : /\ txn[s] # Idle /\ txn'[s] = Idle
                            /\ txn[s].user = Owner[r] /\ txn[s].run = r

LEMMA NextOwnersWrite == IInv /\ [Next]_vars => OwnersWrite
<1> SUFFICES ASSUME IInv, [Next]_vars PROVE OwnersWrite
  OBVIOUS
<1>1. ASSUME UNCHANGED <<live, run_finalized, leg>> PROVE OwnersWrite
  BY <1>1 DEF OwnersWrite
<1>2. ASSUME NEW u \in Pilots, NEW r \in Runs, CreateRun(u, r) PROVE OwnersWrite
  <2>1. r \notin live /\ live' = live \cup {r} /\ run_finalized' = run_finalized
        /\ \E rows : leg' = [leg EXCEPT ![r] = rows]
    BY <1>2 DEF CreateRun
  <2>. QED  BY <2>1 DEF OwnersWrite, IInv, TypeOK
<1>3. ASSUME NEW s \in Slots, Commit(s) \/ CommitDelete(s) PROVE OwnersWrite
  <2> DEFINE r == txn[s].run
  <2>1. /\ txn[s] # Idle /\ r \in live /\ txn' = [txn EXCEPT ![s] = Idle]
        /\ live \ {r} \subseteq live'
        /\ \E rows : leg' = [leg EXCEPT ![r] = rows]
        /\ \E stamp : run_finalized' = [run_finalized EXCEPT ![r] = stamp]
    BY <1>3 DEF Commit, CommitDelete, Ready, Finish
  <2>2. txn[s].user = Owner[r] /\ txn'[s] = Idle
    BY <2>1 DEF IInv, InFlightInv, TxnInv, TypeOK
  <2>3. \A q \in live \ {r} : q \in live' /\ UNCHANGED <<run_finalized[q], leg[q]>>
    BY <2>1 DEF IInv, TypeOK
  <2>. QED  BY <2>1, <2>2, <2>3 DEF OwnersWrite
<1>4. ASSUME NEW s \in Slots, NEW u \in Pilots, NEW r \in Runs, NEW l \in LegType,
             LegRequest(s, u, r, l)
      PROVE  OwnersWrite
  BY <1>1, <1>4 DEF LegRequest, advance_leg, record_purchase, record_sale, update_transaction, Begin
<1>5. ASSUME NEW s \in Slots, NEW u \in Pilots, NEW r \in Runs, RunRequest(s, u, r) PROVE OwnersWrite
  BY <1>1, <1>5 DEF RunRequest, finalize_run, write_off_run, delete_run, Begin
<1>6. ASSUME NEW s \in Slots, ReadSibling(s) \/ Abort(s) PROVE OwnersWrite
  BY <1>1, <1>6 DEF ReadSibling, Abort
<1>7. CASE UNCHANGED vars
  BY <1>1, <1>7 DEF vars
<1>. QED  BY <1>2, <1>3, <1>4, <1>5, <1>6, <1>7 DEF Next

(* A step that changes a run is the commit of a request of its owner.      *)
THEOREM OwnersOnly == Spec => OnlyOwnersWrite
<1>1. IInv /\ [Next]_vars => [OwnersWrite]_vars
  BY NextOwnersWrite
<1>2. OnlyOwnersWrite <=> [][OwnersWrite]_vars
  BY DEF OnlyOwnersWrite, OwnersWrite
<1>. QED  BY <1>1, <1>2, Invariance, PTL DEF Spec

-----------------------------------------------------------------------------
(* Atomicity.  With one request of each pilot in flight the requests still *)
(* interleave with one another, but no two are about the same run, so that *)
(* what a request read is what it commits on.                              *)

(* The inductive invariant: a request in flight holds the unit of work     *)
(* that its operation computes from the rows as they are now.              *)

Advances(t, rows) ==
    LET field == next_unset_field(t.leg, rows[t.leg]) IN
    /\ t.op = "advance_leg" /\ t.leg \in LegType /\ t.run_finalized = Keep
    /\ field \notin {NoMilestone, "transaction_completed_at"}
    /\ t.phase = "commit" <=> field # "finalized_at"
    /\ t.writes[t.leg] = [NoUpdate EXCEPT ![field] = "advance"]
    /\ t.writes[Sibling(t.leg)] =
          IF t.phase = "sibling" \/ (t.phase = "flushed" /\ rows[Sibling(t.leg)].started_at = Unset)
          THEN [NoUpdate EXCEPT !.started_at = "advance"] ELSE NoUpdate

(* The carried quantity is a wish until the sale has been read.            *)
PurchaseOf(t, rows, q, p, fee, type) ==
    /\ t.writes["acquisition"] = _apply_transaction(rows["acquisition"], q, p, fee, type, "purchase", FALSE)
    /\ t.writes["sale"] =
          IF t.phase = "sibling" THEN [NoUpdate EXCEPT !.quantity_scu = q]
          ELSE IF Unrecorded(rows["sale"])
               THEN [NoUpdate EXCEPT !.quantity_scu = Changed(rows["sale"].quantity_scu, q)]
               ELSE NoUpdate

Purchases(t, rows) ==
    /\ t.op = "record_purchase" /\ t.leg = "acquisition" /\ t.run_finalized = Keep
    /\ t.phase # "commit"
    /\ Unrecorded(rows["acquisition"])
    /\ \E q \in Quantities, p \in Prices, fee \in Fees, type \in CargoTransferType :
          PurchaseOf(t, rows, q, p, fee, type)

Sells(t, rows) ==
    /\ t.op = "record_sale" /\ t.leg = "sale" /\ t.phase = "commit" /\ t.run_finalized = Keep
    /\ Unrecorded(rows["sale"])
    /\ t.writes["acquisition"] = NoUpdate
    /\ \E q \in Quantities, p \in Prices, fee \in Fees, type \in CargoTransferType :
          t.writes["sale"] =
             _apply_transaction(rows["sale"], q, p, fee, type, "sale", rows["sale"].transferred_at = Unset)

EditUpdate(row, q, p, fee, type) ==
    [NoUpdate EXCEPT !.quantity_scu = Changed(row.quantity_scu, q),
                     !.price_per_unit = Changed(row.price_per_unit, p),
                     !.cargo_transfer_fee = Changed(row.cargo_transfer_fee, fee),
                     !.cargo_transfer_type = Changed(row.cargo_transfer_type, type)]
EditOf(t, row, q, p, fee, type) == t.writes[t.leg] = EditUpdate(row, q, p, fee, type)

Edits(t, rows, finalized) ==
    /\ t.op = "update_transaction" /\ t.phase = "commit" /\ t.run_finalized = Keep
    /\ t.leg \in LegType /\ finalized = Unset
    /\ t.writes[Sibling(t.leg)] = NoUpdate
    /\ \E q \in Optional(Quantities), p \in Optional(Prices), fee \in Optional(Fees),
          type \in CargoTransferType \cup {Keep} :
          EditOf(t, rows[t.leg], q, p, fee, type)

Finalizes(t, rows) ==
    /\ t.op = "finalize_run" /\ t.phase = "commit" /\ t.run_finalized = "finalize"
    /\ \A l \in LegType : next_unset_field(l, rows[l]) = NoMilestone
    /\ t.writes = NoWrites

WritesOff(t, rows, finalized) ==
    /\ t.op = "write_off_run" /\ t.phase = "commit" /\ t.run_finalized = "write_off"
    /\ finalized = Unset
    /\ ~Unrecorded(rows["acquisition"]) /\ Unrecorded(rows["sale"])
    /\ t.writes["acquisition"] = Closed(rows["acquisition"])
    /\ t.writes["sale"] = ClosedForNothing(rows["sale"])

Deletes(t) == t.op = "delete_run" /\ t.phase = "commit"

Decided(t, rows, finalized) ==
    \/ Advances(t, rows) \/ Purchases(t, rows) \/ Sells(t, rows) \/ Edits(t, rows, finalized)
    \/ Finalizes(t, rows) \/ WritesOff(t, rows, finalized) \/ Deletes(t)

RowsAreAsRead ==
    \A s \in Slots : txn[s] # Idle =>
        /\ txn[s].run \in live
        /\ Decided(txn[s], leg[txn[s].run], run_finalized[txn[s].run])
        /\ \A w \in Slots : txn[w] # Idle /\ txn[w].run = txn[s].run => w = s

-----------------------------------------------------------------------------
(* Lemmas about rows and units of work.                                    *)

(* Both ledgers are about the same rows.                                   *)
LEMMA SameRows ==
    /\ Atomic!LegType = LegType /\ Atomic!CargoTransferType = CargoTransferType
    /\ Atomic!Milestone = Milestone /\ Atomic!NoMilestone = NoMilestone
    /\ Atomic!Unset = Unset /\ Atomic!NoRow = NoRow
    /\ \A started, type, q, p : Atomic!NewRow(started, type, q, p) = NewRow(started, type, q, p)
    /\ \A l : Atomic!Sibling(l) = Sibling(l)
    /\ \A l, row : Atomic!next_unset_field(l, row) = next_unset_field(l, row)
BY DEF Atomic!LegType, LegType, Atomic!CargoTransferType, CargoTransferType,
       Atomic!Milestone, Milestone, Atomic!NoMilestone, NoMilestone, Atomic!Unset, Unset,
       Atomic!NoRow, NoRow, Atomic!NewRow, NewRow, Atomic!Sibling, Sibling,
       Atomic!next_unset_field, next_unset_field, Atomic!MilestoneSequence, MilestoneSequence

(* A unit of work that carries nothing leaves the row as it is.            *)
LEMMA ApplyNothing ==
    ASSUME NEW row \in LegRow
    PROVE  Apply(NoUpdate, row) = row
BY DEF Apply, NoUpdate, Written, LegRow

(* What a changed column is written as: the new value, or what it was when *)
(* nothing was said.                                                       *)
LEMMA WrittenChanged ==
    ASSUME NEW old, old # Keep, NEW new
    PROVE  Written(Changed(old, new), old) = IF new = Keep THEN old ELSE new
BY DEF Written, Changed

LEMMA KeepIsNoValue ==
    /\ \A v \in StampColumn \cup CargoTransferType \cup Int : v # Keep
    /\ Stamp \subseteq StampColumn /\ Unset \in StampColumn /\ Unset \notin Stamp
BY KeepAssumption DEF StampColumn, Stamp, Unset

-----------------------------------------------------------------------------
(* Steps that begin a request.                                             *)

(* Nobody has a request about a run whose owner has none.                  *)
LEMMA OneRequestOfARun ==
    ASSUME MaxPerPilot = 1, IInv, RowsAreAsRead,
           NEW s \in Slots, NEW u \in Pilots, NEW r \in Runs, Fetched(s, u, r)
    PROVE  r \in live /\ \A w \in Slots : txn[w] # Idle => txn[w].run # r
<1>1. r \in live /\ Owner[r] = u /\ Cardinality(InFlight(u)) < 1
  BY DEF Fetched
<1>2. InFlight(u) = {}
  <2>1. IsFiniteSet(InFlight(u))
    BY SlotsAssumption, FS_Subset DEF InFlight
  <2>2. Cardinality(InFlight(u)) = 0
    BY <1>1, <2>1, FS_CardinalityType
  <2>. QED  BY <2>1, <2>2, FS_EmptySet
<1>3. SUFFICES ASSUME NEW w \in Slots, txn[w] # Idle, txn[w].run = r
               PROVE  FALSE
  BY <1>1
<1>4. txn[w].user = Owner[r]
  BY <1>1, <1>3 DEF IInv, InFlightInv, TxnInv
<1>. QED  BY <1>1, <1>2, <1>3, <1>4 DEF InFlight

LEMMA BeginIsAsRead ==
    ASSUME MaxPerPilot = 1, IInv, RowsAreAsRead,
           NEW s \in Slots, NEW u \in Pilots, NEW r \in Runs, Fetched(s, u, r),
           NEW t, t.run = r, Decided(t, leg[r], run_finalized[r]), Begin(s, t)
    PROVE  RowsAreAsRead' /\ UNCHANGED <<live, run_finalized, leg>>
<1>1. /\ UNCHANGED <<live, run_finalized, leg>>
      /\ txn' = [txn EXCEPT ![s] = t] /\ txn \in [Slots -> Txn \cup {Idle}]
  BY DEF Begin, IInv, TypeOK
<1>2. r \in live /\ \A w \in Slots : txn[w] # Idle => txn[w].run # r
  BY OneRequestOfARun
<1>3. \A w \in Slots : txn'[w] = IF w = s THEN t ELSE txn[w]
  BY <1>1
<1>4. SUFFICES ASSUME NEW w \in Slots, txn'[w] # Idle
               PROVE  /\ txn'[w].run \in live
                      /\ Decided(txn'[w], leg[txn'[w].run], run_finalized[txn'[w].run])
                      /\ \A v \in Slots : txn'[v] # Idle /\ txn'[v].run = txn'[w].run => v = w
  BY <1>1 DEF RowsAreAsRead
<1>5. CASE w = s
  BY <1>2, <1>3, <1>5
<1>6. CASE w # s
  BY <1>2, <1>3, <1>4, <1>6 DEF RowsAreAsRead
<1>. QED  BY <1>5, <1>6

LEMMA AdvanceLegReads ==
    ASSUME MaxPerPilot = 1, IInv, RowsAreAsRead,
           NEW s \in Slots, NEW u \in Pilots, NEW r \in Runs, NEW l \in LegType,
           advance_leg(s, u, r, l)
    PROVE  RowsAreAsRead' /\ UNCHANGED <<live, run_finalized, leg>>
<1> DEFINE field  == next_unset_field(l, leg[r][l])
           update == [NoUpdate EXCEPT ![field] = "advance"]
           start  == [NoUpdate EXCEPT !.started_at = "advance"]
           t == IF field = "finalized_at"
                THEN LegTxn("advance_leg", "sibling", u, r, l, update, start)
                ELSE LegTxn("advance_leg", "commit", u, r, l, update, NoUpdate)
<1>1. /\ Fetched(s, u, r) /\ Begin(s, t) /\ field \notin {NoMilestone, "transaction_completed_at"}
  BY DEF advance_leg
<1>2. /\ t.run = r /\ t.op = "advance_leg" /\ t.leg = l /\ t.run_finalized = Keep
      /\ t.phase = IF field = "finalized_at" THEN "sibling" ELSE "commit"
      /\ t.writes[l] = update
      /\ t.writes[Sibling(l)] = IF field = "finalized_at" THEN start ELSE NoUpdate
  BY Siblings DEF LegTxn
<1>3. Advances(t, leg[r])
  BY <1>1, <1>2 DEF Advances
<1>. QED  BY <1>1, <1>2, <1>3, BeginIsAsRead DEF Decided

LEMMA RecordPurchaseReads ==
    ASSUME MaxPerPilot = 1, IInv, RowsAreAsRead,
           NEW s \in Slots, NEW u \in Pilots, NEW r \in Runs, NEW l \in LegType,
           record_purchase(s, u, r, l)
    PROVE  RowsAreAsRead' /\ UNCHANGED <<live, run_finalized, leg>>
<1>1. Fetched(s, u, r) /\ l = "acquisition" /\ Unrecorded(leg[r][l])
  BY DEF record_purchase
<1>2. PICK q \in Quantities, p \in Prices, fee \in Fees, type \in CargoTransferType :
         Begin(s, LegTxn("record_purchase", "sibling", u, r, l,
                         _apply_transaction(leg[r][l], q, p, fee, type, "purchase", FALSE),
                         [NoUpdate EXCEPT !.quantity_scu = q]))
  BY DEF record_purchase
<1> DEFINE update == _apply_transaction(leg[r][l], q, p, fee, type, "purchase", FALSE)
           carry  == [NoUpdate EXCEPT !.quantity_scu = q]
           t == LegTxn("record_purchase", "sibling", u, r, l, update, carry)
<1>3. /\ t.run = r /\ t.op = "record_purchase" /\ t.leg = l /\ t.run_finalized = Keep
      /\ t.phase = "sibling" /\ t.writes["acquisition"] = update /\ t.writes["sale"] = carry
  BY <1>1 DEF LegTxn, LegType
<1>4. Purchases(t, leg[r])
  <2> HIDE DEF t
  <2>1. PurchaseOf(t, leg[r], q, p, fee, type)
    BY <1>1, <1>3 DEF PurchaseOf
  <2>. QED  BY <1>1, <1>3, <2>1 DEF Purchases
<1>. QED  BY <1>1, <1>2, <1>3, <1>4, BeginIsAsRead DEF Decided

LEMMA RecordSaleReads ==
    ASSUME MaxPerPilot = 1, IInv, RowsAreAsRead,
           NEW s \in Slots, NEW u \in Pilots, NEW r \in Runs, NEW l \in LegType,
           record_sale(s, u, r, l)
    PROVE  RowsAreAsRead' /\ UNCHANGED <<live, run_finalized, leg>>
<1>1. Fetched(s, u, r) /\ l = "sale" /\ Unrecorded(leg[r][l])
  BY DEF record_sale
<1>2. PICK q \in Quantities, p \in Prices, fee \in Fees, type \in CargoTransferType :
         Begin(s, LegTxn("record_sale", "commit", u, r, l,
                         _apply_transaction(leg[r][l], q, p, fee, type, "sale",
                                            leg[r][l].transferred_at = Unset),
                         NoUpdate))
  BY DEF record_sale
<1> DEFINE update == _apply_transaction(leg[r][l], q, p, fee, type, "sale", leg[r][l].transferred_at = Unset)
           t == LegTxn("record_sale", "commit", u, r, l, update, NoUpdate)
<1>3. /\ t.run = r /\ t.op = "record_sale" /\ t.leg = "sale" /\ t.run_finalized = Keep
      /\ t.phase = "commit" /\ t.writes["sale"] = update /\ t.writes["acquisition"] = NoUpdate
  BY <1>1 DEF LegTxn, LegType
<1>4. Sells(t, leg[r])
  BY <1>1, <1>3 DEF Sells
<1>. QED  BY <1>1, <1>2, <1>3, <1>4, BeginIsAsRead DEF Decided

LEMMA UpdateTransactionReads ==
    ASSUME MaxPerPilot = 1, IInv, RowsAreAsRead,
           NEW s \in Slots, NEW u \in Pilots, NEW r \in Runs, NEW l \in LegType,
           update_transaction(s, u, r, l)
    PROVE  RowsAreAsRead' /\ UNCHANGED <<live, run_finalized, leg>>
<1> DEFINE row == leg[r][l]
           update(q, p, fee, type) ==
              [NoUpdate EXCEPT !.quantity_scu = Changed(row.quantity_scu, q),
                               !.price_per_unit = Changed(row.price_per_unit, p),
                               !.cargo_transfer_fee = Changed(row.cargo_transfer_fee, fee),
                               !.cargo_transfer_type = Changed(row.cargo_transfer_type, type)]
           t(q, p, fee, type) ==
              LegTxn("update_transaction", "commit", u, r, l, update(q, p, fee, type), NoUpdate)
<1>1. Fetched(s, u, r) /\ run_finalized[r] = Unset
  BY DEF update_transaction, Editable
<1>2. PICK q \in Optional(Quantities), p \in Optional(Prices), fee \in Optional(Fees),
          type \in CargoTransferType \cup {Keep} : Begin(s, t(q, p, fee, type))
  BY DEF update_transaction
<1> DEFINE w == t(q, p, fee, type)
<1>3. /\ w.run = r /\ w.op = "update_transaction" /\ w.leg = l /\ w.run_finalized = Keep
      /\ w.phase = "commit" /\ w.writes[l] = update(q, p, fee, type) /\ w.writes[Sibling(l)] = NoUpdate
  BY Siblings DEF LegTxn
<1>4. Edits(w, leg[r], run_finalized[r])
  <2> HIDE DEF w
  <2>1. EditOf(w, row, q, p, fee, type)
    BY <1>3 DEF EditOf, EditUpdate
  <2>. QED  BY <1>1, <1>3, <2>1 DEF Edits
<1>. QED  BY <1>1, <1>2, <1>3, <1>4, BeginIsAsRead DEF Decided

(* The requests on a whole run.                                            *)
LEMMA RunRequestReads ==
    ASSUME MaxPerPilot = 1, IInv, RowsAreAsRead,
           NEW s \in Slots, NEW u \in Pilots, NEW r \in Runs, RunRequest(s, u, r)
    PROVE  RowsAreAsRead' /\ UNCHANGED <<live, run_finalized, leg>>
<1>1. CASE finalize_run(s, u, r)
  <2> DEFINE t == RunTxn("finalize_run", u, r, NoWrites, "finalize")
  <2>1. Fetched(s, u, r) /\ Begin(s, t) /\ t.run = r /\ Finalizes(t, leg[r])
    BY <1>1 DEF finalize_run, LegsDone, RunTxn, Finalizes
  <2>. QED  BY <2>1, BeginIsAsRead DEF Decided
<1>2. CASE write_off_run(s, u, r)
  <2> DEFINE writes == [l \in LegType |-> IF l = "acquisition" THEN Closed(leg[r][l])
                                                             ELSE ClosedForNothing(leg[r][l])]
             t == RunTxn("write_off_run", u, r, writes, "write_off")
  <2>1. Fetched(s, u, r) /\ CanWriteOff(r) /\ Begin(s, t)
    BY <1>2 DEF write_off_run
  <2>2. t.run = r /\ WritesOff(t, leg[r], run_finalized[r])
    BY <2>1 DEF RunTxn, CanWriteOff, WritesOff, LegType
  <2>. QED  BY <2>1, <2>2, BeginIsAsRead DEF Decided
<1>3. CASE delete_run(s, u, r)
  <2> DEFINE t == RunTxn("delete_run", u, r, NoWrites, Keep)
  <2>1. Fetched(s, u, r) /\ Begin(s, t) /\ t.run = r /\ Deletes(t)
    BY <1>3 DEF delete_run, RunTxn, Deletes
  <2>. QED  BY <2>1, BeginIsAsRead DEF Decided
<1>. QED  BY <1>1, <1>2, <1>3 DEF RunRequest

(* The read of the sibling leg.                                            *)
LEMMA SiblingIsAsRead ==
    ASSUME IInv, RowsAreAsRead, NEW s \in Slots, ReadSibling(s)
    PROVE  RowsAreAsRead' /\ UNCHANGED <<live, run_finalized, leg>>
<1> DEFINE t == txn[s]
           rows == leg[t.run]
           new == [t EXCEPT !.phase = "flushed", !.writes[Sibling(t.leg)] = SiblingUpdate(t)]
<1>1. /\ t # Idle /\ t.phase = "sibling" /\ t \in Txn /\ t.leg \in LegType
      /\ txn' = [txn EXCEPT ![s] = new] /\ txn \in [Slots -> Txn \cup {Idle}]
      /\ UNCHANGED <<live, run_finalized, leg>>
  BY DEF ReadSibling, IInv, TypeOK, Txn
<1>2. Advances(t, rows) \/ Purchases(t, rows)
  BY <1>1 DEF RowsAreAsRead, Decided, Sells, Edits, Finalizes, WritesOff, Deletes
<1>3. /\ new.op = t.op /\ new.leg = t.leg /\ new.run = t.run /\ new.run_finalized = t.run_finalized
      /\ new.phase = "flushed"
      /\ new.writes[t.leg] = t.writes[t.leg]
      /\ new.writes[Sibling(t.leg)] = SiblingUpdate(t)
  BY <1>1, Siblings DEF Txn
<1>4. Decided(new, rows, run_finalized[t.run])
  <2>1. CASE Advances(t, rows)
    <3>1. SiblingUpdate(t) = IF rows[Sibling(t.leg)].started_at = Unset
                             THEN [NoUpdate EXCEPT !.started_at = "advance"] ELSE NoUpdate
      BY <1>1, <2>1 DEF SiblingUpdate, Advances
    <3>. QED  BY <1>1, <1>3, <2>1, <3>1 DEF Decided, Advances
  <2>2. CASE Purchases(t, rows)
    <3>1. PICK q \in Quantities, p \in Prices, fee \in Fees, type \in CargoTransferType :
             PurchaseOf(t, rows, q, p, fee, type)
      BY <2>2 DEF Purchases
    <3>2. t.op = "record_purchase" /\ t.leg = "acquisition" /\ Sibling(t.leg) = "sale"
      BY <2>2 DEF Purchases, Sibling
    <3>3. SiblingUpdate(t) = IF Unrecorded(rows["sale"])
                             THEN [NoUpdate EXCEPT !.quantity_scu = Changed(rows["sale"].quantity_scu, q)]
                             ELSE NoUpdate
      BY <1>1, <3>1, <3>2 DEF SiblingUpdate, Unrecorded, NoUpdate, PurchaseOf
    <3> HIDE DEF new
    <3>4. PurchaseOf(new, rows, q, p, fee, type)
      BY <1>1, <1>3, <3>1, <3>2, <3>3 DEF PurchaseOf
    <3>. QED  BY <1>1, <1>3, <2>2, <3>2, <3>4 DEF Decided, Purchases
  <2>. QED  BY <1>2, <2>1, <2>2
<1> HIDE DEF new
<1>5. \A w \in Slots : txn'[w] = IF w = s THEN new ELSE txn[w]
  BY <1>1
<1>. QED  BY <1>1, <1>3, <1>4, <1>5 DEF RowsAreAsRead

-----------------------------------------------------------------------------
(* Steps that end a request, and the creation of a run, which has none.    *)

LEMMA OthersAreAsRead ==
    ASSUME IInv, RowsAreAsRead, NEW s \in Slots, txn[s] # Idle, txn' = [txn EXCEPT ![s] = Idle],
           \A r \in Runs \ {txn[s].run} :
              (r \in live => r \in live') /\ leg'[r] = leg[r] /\ run_finalized'[r] = run_finalized[r]
    PROVE  RowsAreAsRead'
<1>1. txn \in [Slots -> Txn \cup {Idle}] /\ live \subseteq Runs
  BY DEF IInv, TypeOK
<1>. QED  BY <1>1 DEF RowsAreAsRead

LEMMA CommitAsRead ==
    ASSUME IInv, RowsAreAsRead, NEW s \in Slots, Commit(s) \/ CommitDelete(s) \/ Abort(s)
    PROVE  RowsAreAsRead'
<1>1. /\ txn[s] # Idle /\ txn' = [txn EXCEPT ![s] = Idle]
      /\ \A r \in Runs \ {txn[s].run} :
            (r \in live => r \in live') /\ leg'[r] = leg[r] /\ run_finalized'[r] = run_finalized[r]
  BY DEF Commit, CommitDelete, Abort, Ready, Finish, IInv, TypeOK
<1>. QED  BY <1>1, OthersAreAsRead

LEMMA CreateRunAsRead ==
    ASSUME IInv, RowsAreAsRead, NEW u \in Pilots, NEW r \in Runs, CreateRun(u, r)
    PROVE  RowsAreAsRead'
<1>1. /\ \A s \in Slots : txn[s] # Idle => txn[s].run \in live /\ txn[s].run # r
      /\ live' = live \cup {r} /\ UNCHANGED <<run_finalized, txn>>
      /\ \A q \in Runs : q # r => leg'[q] = leg[q]
      /\ live \subseteq Runs
  BY DEF CreateRun, RowsAreAsRead, IInv, TypeOK
<1>. QED  BY <1>1 DEF RowsAreAsRead

-----------------------------------------------------------------------------
(* What a unit of work makes of a row.                                     *)

LEMMA SameColumns ==
    ASSUME NEW a \in LegRow, NEW b \in LegRow,
           a.started_at = b.started_at, a.reached_at = b.reached_at,
           a.transaction_completed_at = b.transaction_completed_at,
           a.transferred_at = b.transferred_at, a.finalized_at = b.finalized_at,
           a.cargo_transfer_type = b.cargo_transfer_type, a.quantity_scu = b.quantity_scu,
           a.price_per_unit = b.price_per_unit, a.cargo_transfer_fee = b.cargo_transfer_fee
    PROVE  a = b
BY DEF LegRow

LEMMA ApplyStamp ==
    ASSUME NEW row \in LegRow, NEW c \in Column, NEW v \in Stamp
    PROVE  Apply([NoUpdate EXCEPT ![c] = v], row) = [row EXCEPT ![c] = v]
<1> DEFINE applied == Apply([NoUpdate EXCEPT ![c] = v], row)
           stamped == [row EXCEPT ![c] = v]
<1>1. v # Keep /\ v \in StampColumn
  BY KeepIsNoValue
<1>2. /\ applied \in LegRow
      /\ applied.started_at = IF c = "started_at" THEN v ELSE row.started_at
      /\ applied.reached_at = IF c = "reached_at" THEN v ELSE row.reached_at
      /\ applied.transaction_completed_at =
            IF c = "transaction_completed_at" THEN v ELSE row.transaction_completed_at
      /\ applied.transferred_at = IF c = "transferred_at" THEN v ELSE row.transferred_at
      /\ applied.finalized_at = IF c = "finalized_at" THEN v ELSE row.finalized_at
      /\ applied.cargo_transfer_type = row.cargo_transfer_type
      /\ applied.quantity_scu = row.quantity_scu
      /\ applied.price_per_unit = row.price_per_unit
      /\ applied.cargo_transfer_fee = row.cargo_transfer_fee
  BY <1>1 DEF Apply, Written, NoUpdate, LegRow, Column, Milestone
<1>3. /\ stamped \in LegRow
      /\ stamped.started_at = IF c = "started_at" THEN v ELSE row.started_at
      /\ stamped.reached_at = IF c = "reached_at" THEN v ELSE row.reached_at
      /\ stamped.transaction_completed_at =
            IF c = "transaction_completed_at" THEN v ELSE row.transaction_completed_at
      /\ stamped.transferred_at = IF c = "transferred_at" THEN v ELSE row.transferred_at
      /\ stamped.finalized_at = IF c = "finalized_at" THEN v ELSE row.finalized_at
      /\ stamped.cargo_transfer_type = row.cargo_transfer_type
      /\ stamped.quantity_scu = row.quantity_scu
      /\ stamped.price_per_unit = row.price_per_unit
      /\ stamped.cargo_transfer_fee = row.cargo_transfer_fee
  BY <1>1 DEF LegRow, Column, Milestone
<1> HIDE DEF applied, stamped
<1>. QED  BY <1>2, <1>3, SameColumns DEF applied, stamped

(* What is stated replaces what was planned, and is stamped; a sale stamps *)
(* the unloading, unless it is stamped already.                            *)
SaleRow(row, q, p, fee, type) == Atomic!Unloaded(Atomic!Recorded(row, q, p, fee, type, "sale"))

IsRecorded(row, new, q, p, fee, type, stamp, transferred) ==
    /\ new \in LegRow
    /\ new.started_at = row.started_at /\ new.reached_at = row.reached_at
    /\ new.transaction_completed_at = stamp /\ new.transferred_at = transferred
    /\ new.finalized_at = row.finalized_at
    /\ new.cargo_transfer_type = type /\ new.quantity_scu = q
    /\ new.price_per_unit = p /\ new.cargo_transfer_fee = fee

LEMMA ApplyTransaction ==
    ASSUME NEW row \in LegRow, NEW q \in Int, NEW p \in Int, NEW fee \in Int,
           NEW type \in CargoTransferType
    PROVE  /\ Apply(_apply_transaction(row, q, p, fee, type, "purchase", FALSE), row) =
                 Atomic!Recorded(row, q, p, fee, type, "purchase")
           /\ Apply(_apply_transaction(row, q, p, fee, type, "sale", row.transferred_at = Unset), row) =
                 SaleRow(row, q, p, fee, type)
<1> DEFINE purchase == Apply(_apply_transaction(row, q, p, fee, type, "purchase", FALSE), row)
           sale == Apply(_apply_transaction(row, q, p, fee, type, "sale", row.transferred_at = Unset), row)
           bought == Atomic!Recorded(row, q, p, fee, type, "purchase")
           sold == SaleRow(row, q, p, fee, type)
           unloaded == IF row.transferred_at = Unset THEN "sale" ELSE row.transferred_at
<1>1. /\ q # Keep /\ p # Keep /\ fee # Keep /\ type # Keep /\ "purchase" # Keep /\ "sale" # Keep
      /\ row.quantity_scu # Keep /\ row.price_per_unit # Keep
      /\ row.cargo_transfer_fee # Keep /\ row.cargo_transfer_type # Keep
      /\ "purchase" \in StampColumn /\ "sale" \in StampColumn
  BY KeepIsNoValue DEF LegRow, Stamp
<1>2. IsRecorded(row, purchase, q, p, fee, type, "purchase", row.transferred_at)
  BY <1>1 DEF IsRecorded, _apply_transaction, AlsoStamp, Apply, Changed, Written, NoUpdate, LegRow
<1>3. IsRecorded(row, bought, q, p, fee, type, "purchase", row.transferred_at)
  BY <1>1 DEF IsRecorded, Atomic!Recorded, LegRow
<1>4. IsRecorded(row, sale, q, p, fee, type, "sale", unloaded)
  BY <1>1 DEF IsRecorded, _apply_transaction, AlsoStamp, Apply, Changed, Written, NoUpdate, LegRow
<1>5. IsRecorded(row, sold, q, p, fee, type, "sale", unloaded)
  BY <1>1 DEF IsRecorded, SaleRow, Atomic!Unloaded, Atomic!Unset, Unset, Atomic!Recorded, LegRow
<1>6. purchase = bought /\ sale = sold
  <2> HIDE DEF purchase, bought, sale, sold
  <2>. QED  BY <1>2, <1>3, <1>4, <1>5, SameColumns DEF IsRecorded
<1>. QED  BY <1>6

LEMMA ApplyQuantity ==
    ASSUME NEW row \in LegRow, NEW q \in Int
    PROVE  Apply([NoUpdate EXCEPT !.quantity_scu = Changed(row.quantity_scu, q)], row) =
             [row EXCEPT !.quantity_scu = q]
<1>1. q # Keep /\ row.quantity_scu # Keep
  BY KeepIsNoValue DEF LegRow
<1>. QED  BY <1>1 DEF Apply, Changed, Written, NoUpdate, LegRow

LEMMA WorthNothing ==
    ASSUME NEW row \in LegRow, NEW zero \in Int
    PROVE  LET nothing == [row EXCEPT !.quantity_scu = zero, !.price_per_unit = zero,
                                      !.cargo_transfer_fee = zero]
           IN  /\ nothing \in LegRow
               /\ nothing.started_at = row.started_at /\ nothing.reached_at = row.reached_at
               /\ nothing.transaction_completed_at = row.transaction_completed_at
               /\ nothing.transferred_at = row.transferred_at
               /\ nothing.finalized_at = row.finalized_at
               /\ nothing.cargo_transfer_type = row.cargo_transfer_type
               /\ nothing.quantity_scu = zero /\ nothing.price_per_unit = zero
               /\ nothing.cargo_transfer_fee = zero
BY DEF LegRow

(* A write-off sets what is unset, and makes the sale one of nothing.      *)
LEMMA ApplyClosed ==
    ASSUME NEW row \in LegRow
    PROVE  /\ Apply(Closed(row), row) = Atomic!Filled(row)
           /\ Apply(ClosedForNothing(row), row) =
                 [Atomic!Filled(row) EXCEPT !.quantity_scu = 0, !.price_per_unit = 0,
                                            !.cargo_transfer_fee = 0]
<1>1. /\ 0 # Keep /\ "write_off" # Keep /\ "write_off" \in StampColumn
      /\ row.quantity_scu # Keep /\ row.price_per_unit # Keep /\ row.cargo_transfer_fee # Keep
  BY KeepIsNoValue DEF LegRow, Stamp
<1> DEFINE closed(c) == IF c = Unset THEN "write_off" ELSE c
           filled == Atomic!Filled(row)
           nothing == [filled EXCEPT !.quantity_scu = 0, !.price_per_unit = 0, !.cargo_transfer_fee = 0]
           applied == Apply(Closed(row), row)
           sold == Apply(ClosedForNothing(row), row)
<1>2. /\ filled \in LegRow
      /\ filled.started_at = closed(row.started_at)
      /\ filled.reached_at = closed(row.reached_at)
      /\ filled.transaction_completed_at = closed(row.transaction_completed_at)
      /\ filled.transferred_at = closed(row.transferred_at)
      /\ filled.finalized_at = closed(row.finalized_at)
      /\ filled.cargo_transfer_type = row.cargo_transfer_type
      /\ filled.quantity_scu = row.quantity_scu /\ filled.price_per_unit = row.price_per_unit
      /\ filled.cargo_transfer_fee = row.cargo_transfer_fee
  BY <1>1 DEF Atomic!Filled, Atomic!Milestone, Atomic!Unset, Unset, LegRow
<1>3. applied = filled
  <2>1. /\ applied \in LegRow
        /\ applied.started_at = closed(row.started_at)
        /\ applied.reached_at = closed(row.reached_at)
        /\ applied.transaction_completed_at = closed(row.transaction_completed_at)
        /\ applied.transferred_at = closed(row.transferred_at)
        /\ applied.finalized_at = closed(row.finalized_at)
        /\ applied.cargo_transfer_type = row.cargo_transfer_type
        /\ applied.quantity_scu = row.quantity_scu /\ applied.price_per_unit = row.price_per_unit
        /\ applied.cargo_transfer_fee = row.cargo_transfer_fee
    BY <1>1 DEF Apply, Closed, StampUnset, Written, NoUpdate, LegRow
  <2> HIDE DEF applied, filled, closed
  <2>. QED  BY <1>2, <2>1, SameColumns
<1>4. sold = nothing
  <2>1. /\ sold \in LegRow
        /\ sold.started_at = closed(row.started_at)
        /\ sold.reached_at = closed(row.reached_at)
        /\ sold.transaction_completed_at = closed(row.transaction_completed_at)
        /\ sold.transferred_at = closed(row.transferred_at)
        /\ sold.finalized_at = closed(row.finalized_at)
        /\ sold.cargo_transfer_type = row.cargo_transfer_type
        /\ sold.quantity_scu = 0 /\ sold.price_per_unit = 0 /\ sold.cargo_transfer_fee = 0
    BY <1>1 DEF Apply, ClosedForNothing, Closed, StampUnset, Changed, Written, NoUpdate, LegRow
  <2> HIDE DEF filled, closed
  <2>2. /\ nothing \in LegRow
        /\ nothing.started_at = filled.started_at
        /\ nothing.reached_at = filled.reached_at
        /\ nothing.transaction_completed_at = filled.transaction_completed_at
        /\ nothing.transferred_at = filled.transferred_at
        /\ nothing.finalized_at = filled.finalized_at
        /\ nothing.cargo_transfer_type = filled.cargo_transfer_type
        /\ nothing.quantity_scu = 0 /\ nothing.price_per_unit = 0 /\ nothing.cargo_transfer_fee = 0
    <3>1. filled \in LegRow /\ 0 \in Int
      BY <1>2
    <3>. QED  BY <3>1, WorthNothing, Zenon
  <2> HIDE DEF sold, nothing
  <2>. QED  BY <1>2, <2>1, <2>2, SameColumns
<1>. QED  BY <1>3, <1>4

-----------------------------------------------------------------------------
(* Commits are steps of the atomic ledger.                                 *)

(* What a commit does to the rows of the run.                              *)
LEMMA Committed ==
    ASSUME IInv, RowsAreAsRead, NEW s \in Slots, Commit(s),
           NEW t, t = txn[s], NEW r, r = t.run
    PROVE  /\ t \in Txn /\ t.phase # "sibling" /\ r \in Runs /\ r \in live
           /\ Decided(t, leg[r], run_finalized[r]) /\ t.op # "delete_run"
           /\ leg \in [Runs -> [LegType -> LegRow]] /\ run_finalized \in [Runs -> StampColumn]
           /\ leg' = [leg EXCEPT ![r] = [l \in LegType |-> Apply(t.writes[l], leg[r][l])]]
           /\ run_finalized' = IF t.run_finalized = Keep THEN run_finalized
                               ELSE [run_finalized EXCEPT ![r] = t.run_finalized]
           /\ live' = live
<1>1. t # Idle /\ t \in Txn /\ r \in live /\ live \subseteq Runs
  BY DEF Commit, Ready, IInv, TypeOK
<1>. QED  BY <1>1 DEF Commit, Ready, IInv, TypeOK, RowsAreAsRead, Written

(* Two ways to say that both rows of a run change.                         *)
Stamped(legs, r, l, c, v, w) == [legs EXCEPT ![r][l][c] = v, ![r][Sibling(l)].started_at = w]
StampedRows(legs, r, l, c, v, w) ==
    [legs EXCEPT ![r] = [k \in LegType |-> IF k = l THEN [legs[r][l] EXCEPT ![c] = v]
                                           ELSE [legs[r][Sibling(l)] EXCEPT !.started_at = w]]]

LEMMA BothRows ==
    ASSUME NEW legs \in [Runs -> [LegType -> LegRow]], NEW r \in Runs, NEW l \in LegType,
           NEW c, NEW v, NEW w
    PROVE  Stamped(legs, r, l, c, v, w) = StampedRows(legs, r, l, c, v, w)
<1> DEFINE own == [legs[r][l] EXCEPT ![c] = v]
           other == [legs[r][Sibling(l)] EXCEPT !.started_at = w]
           first == [legs EXCEPT ![r] = [legs[r] EXCEPT ![l] = own]]
           both == [k \in LegType |-> IF k = l THEN own ELSE other]
<1>1. Stamped(legs, r, l, c, v, w) = [first EXCEPT ![r][Sibling(l)].started_at = w]
  BY DEF Stamped
<1>2. first[r] = [legs[r] EXCEPT ![l] = own] /\ first[r][Sibling(l)] = legs[r][Sibling(l)]
  BY Siblings
<1>3. [first EXCEPT ![r][Sibling(l)].started_at = w] = [first EXCEPT ![r] = [first[r] EXCEPT ![Sibling(l)] = other]]
  <2> HIDE DEF first
  <2>. QED  BY <1>2
<1>4. [first[r] EXCEPT ![Sibling(l)] = other] = both
  <2> HIDE DEF own, other
  <2>. QED  BY <1>2, Siblings
<1>5. \A f : [first EXCEPT ![r] = f] = [legs EXCEPT ![r] = f]
  OBVIOUS
<1> HIDE DEF first, both
<1>. QED  BY <1>1, <1>3, <1>4, <1>5 DEF both, StampedRows

LEMMA AdvanceIsAtomic ==
    ASSUME IInv, RowsAreAsRead, NEW s \in Slots, Commit(s),
           NEW t, t = txn[s], Advances(t, leg[t.run])
    PROVE  Atomic!Advance(t.run, t.leg)
<1> DEFINE r == t.run
           l == t.leg
           field == next_unset_field(l, leg[r][l])
           start == field = "finalized_at" /\ leg[r][Sibling(l)].started_at = Unset
           own == [leg[r][l] EXCEPT ![field] = "advance"]
           other == IF start THEN [leg[r][Sibling(l)] EXCEPT !.started_at = "advance"]
                             ELSE leg[r][Sibling(l)]
<1>1. /\ l \in LegType /\ r \in Runs /\ leg[r] \in [LegType -> LegRow]
      /\ leg \in [Runs -> [LegType -> LegRow]]
      /\ field \in {"reached_at", "transferred_at", "finalized_at"}
  <2>1. /\ l \in LegType /\ r \in Runs /\ leg \in [Runs -> [LegType -> LegRow]]
        /\ field \notin {NoMilestone, "transaction_completed_at"}
    BY Committed DEF Advances
  <2>2. leg[r][l] \in LegRow
    BY <2>1
  <2>. QED  BY <2>1, <2>2, NextUnsetField DEF Milestone
<1>2. Apply(t.writes[l], leg[r][l]) = own
  <2>1. t.writes[l] = [NoUpdate EXCEPT ![field] = "advance"]
    BY DEF Advances
  <2>2. leg[r][l] \in LegRow /\ field \in Column /\ "advance" \in Stamp
    BY <1>1 DEF Column, Milestone, Stamp
  <2> HIDE DEF field, r, l
  <2>. QED  BY <2>1, <2>2, ApplyStamp DEF own
<1>3. Apply(t.writes[Sibling(l)], leg[r][Sibling(l)]) = other
  <2>1. t.writes[Sibling(l)] = IF start THEN [NoUpdate EXCEPT !.started_at = "advance"] ELSE NoUpdate
    <3>1. t.phase \in {"flushed", "commit"}
      BY Committed DEF Txn
    <3>. QED  BY <3>1 DEF Advances
  <2>2. leg[r][Sibling(l)] \in LegRow /\ "started_at" \in Column /\ "advance" \in Stamp
    BY <1>1, Siblings DEF Column, Stamp
  <2> HIDE DEF field, r, l, start
  <2>. QED  BY <2>1, <2>2, ApplyStamp, ApplyNothing DEF other
<1>4. leg' = [leg EXCEPT ![r] = [k \in LegType |-> IF k = l THEN own ELSE other]]
  <2>1. leg' = [leg EXCEPT ![r] = [k \in LegType |-> Apply(t.writes[k], leg[r][k])]]
    BY Committed
  <2>2. \A k \in LegType : Apply(t.writes[k], leg[r][k]) = IF k = l THEN own ELSE other
    <3> HIDE DEF own, other, r, l
    <3>. QED  BY <1>1, <1>2, <1>3, Siblings
  <2>. QED  BY <2>1, <2>2
<1>5. [leg EXCEPT ![r] = [k \in LegType |-> IF k = l THEN own ELSE other]]
        = [leg EXCEPT ![r][l][field] = "advance",
                      ![r][Sibling(l)].started_at =
                          IF field = "finalized_at" /\ @ = Unset THEN "advance" ELSE @]
  <2> DEFINE row == leg[r][Sibling(l)]
             stamp == IF start THEN "advance" ELSE row.started_at
  <2>1. [row EXCEPT !.started_at = stamp] = other
    <3>1. [row EXCEPT !.started_at = row.started_at] = row
      BY <1>1, Siblings DEF LegRow
    <3>. QED  BY <3>1
  <2>2. Stamped(leg, r, l, field, "advance", stamp) = StampedRows(leg, r, l, field, "advance", stamp)
    <3> HIDE DEF field, stamp, r, l
    <3>. QED  BY <1>1, BothRows
  <2>. QED  BY <2>1, <2>2 DEF Stamped, StampedRows
<1>6. UNCHANGED <<live, run_finalized>>
  BY Committed DEF Advances
<1>7. field \notin {NoMilestone, "transaction_completed_at"}
  BY DEF Advances
<1> HIDE DEF field, r, l, own, other
<1>. QED  BY <1>4, <1>5, <1>6, <1>7, SameRows DEF Atomic!Advance, field, r, l

LEMMA PurchaseIsAtomic ==
    ASSUME IInv, RowsAreAsRead, NEW s \in Slots, Commit(s),
           NEW t, t = txn[s], Purchases(t, leg[t.run])
    PROVE  Atomic!Purchase(t.run)
<1> DEFINE r == t.run
           bought == leg[r]["acquisition"]
           sold == leg[r]["sale"]
<1>1. PICK q \in Quantities, p \in Prices, fee \in Fees, type \in CargoTransferType :
         PurchaseOf(t, leg[r], q, p, fee, type)
  BY DEF Purchases
<1> DEFINE carried == IF sold.transaction_completed_at = Unset THEN q ELSE sold.quantity_scu
           recorded == Atomic!Recorded(bought, q, p, fee, type, "purchase")
           planned == [sold EXCEPT !.quantity_scu = carried]
<1>2. /\ r \in Runs /\ leg \in [Runs -> [LegType -> LegRow]]
      /\ bought \in LegRow /\ sold \in LegRow
      /\ q \in Int /\ p \in Int /\ fee \in Int /\ "purchase" \in Stamp
      /\ t.phase # "sibling"
  BY Committed, ValuesAssumption DEF LegType, Stamp
<1>3. Apply(t.writes["acquisition"], bought) = recorded
  <2>1. t.writes["acquisition"] = _apply_transaction(bought, q, p, fee, type, "purchase", FALSE)
    BY <1>1 DEF PurchaseOf
  <2>2. bought \in LegRow /\ q \in Int /\ p \in Int /\ fee \in Int /\ type \in CargoTransferType
    BY <1>2
  <2> HIDE DEF bought
  <2>3. Apply(_apply_transaction(bought, q, p, fee, type, "purchase", FALSE), bought) =
          Atomic!Recorded(bought, q, p, fee, type, "purchase")
    BY <2>2, ApplyTransaction
  <2>. QED  BY <2>1, <2>3
<1>4. Apply(t.writes["sale"], sold) = planned
  <2>1. CASE sold.transaction_completed_at = Unset
    <3>1. t.writes["sale"] = [NoUpdate EXCEPT !.quantity_scu = Changed(sold.quantity_scu, q)]
      BY <1>1, <1>2, <2>1 DEF PurchaseOf, Unrecorded
    <3>2. Apply([NoUpdate EXCEPT !.quantity_scu = Changed(sold.quantity_scu, q)], sold) =
            [sold EXCEPT !.quantity_scu = q]
      BY <1>2, ApplyQuantity
    <3>. QED  BY <2>1, <3>1, <3>2
  <2>2. CASE sold.transaction_completed_at # Unset
    <3>1. t.writes["sale"] = NoUpdate
      BY <1>1, <1>2, <2>2 DEF PurchaseOf, Unrecorded
    <3>2. [sold EXCEPT !.quantity_scu = sold.quantity_scu] = sold
      BY <1>2 DEF LegRow
    <3>. QED  BY <1>2, <2>2, <3>1, <3>2, ApplyNothing
  <2>. QED  BY <2>1, <2>2
<1>5. leg' = [leg EXCEPT ![r] = [k \in LegType |-> IF k = "acquisition" THEN recorded ELSE planned]]
  <2>1. leg' = [leg EXCEPT ![r] = [k \in LegType |-> Apply(t.writes[k], leg[r][k])]]
    BY Committed
  <2>2. \A k \in LegType : Apply(t.writes[k], leg[r][k]) = IF k = "acquisition" THEN recorded ELSE planned
    <3> HIDE DEF recorded, planned, r
    <3>. QED  BY <1>3, <1>4 DEF LegType
  <2>. QED  BY <2>1, <2>2
<1>6. leg' = [leg EXCEPT ![r]["acquisition"] = recorded, ![r]["sale"].quantity_scu = carried]
  <2> HIDE DEF recorded, carried, r
  <2>. QED  BY <1>2, <1>5 DEF LegType
<1>7. bought.transaction_completed_at = Unset /\ UNCHANGED <<live, run_finalized>>
  BY Committed DEF Purchases, Unrecorded
<1>8. /\ carried = IF sold.transaction_completed_at = Unset THEN q ELSE sold.quantity_scu
      /\ recorded = Atomic!Recorded(bought, q, p, fee, type, "purchase")
  OBVIOUS
<1> HIDE DEF recorded, carried
<1>. QED  BY <1>6, <1>7, <1>8, SameRows DEF Atomic!Purchase

LEMMA SaleIsAtomic ==
    ASSUME IInv, RowsAreAsRead, NEW s \in Slots, Commit(s),
           NEW t, t = txn[s], Sells(t, leg[t.run])
    PROVE  Atomic!Sale(t.run)
<1> DEFINE r == t.run
           sold == leg[r]["sale"]
<1>1. PICK q \in Quantities, p \in Prices, fee \in Fees, type \in CargoTransferType :
         t.writes["sale"] = _apply_transaction(sold, q, p, fee, type, "sale", sold.transferred_at = Unset)
  BY DEF Sells
<1> DEFINE recorded == SaleRow(sold, q, p, fee, type)
<1>2. /\ r \in Runs /\ leg \in [Runs -> [LegType -> LegRow]]
      /\ sold \in LegRow /\ leg[r]["acquisition"] \in LegRow
      /\ q \in Int /\ p \in Int /\ fee \in Int /\ "sale" \in Stamp
  BY Committed, ValuesAssumption DEF LegType, Stamp
<1>3. Apply(t.writes["sale"], sold) = recorded
  <2>1. sold \in LegRow /\ q \in Int /\ p \in Int /\ fee \in Int /\ type \in CargoTransferType
    BY <1>2
  <2> HIDE DEF sold
  <2>2. Apply(_apply_transaction(sold, q, p, fee, type, "sale", sold.transferred_at = Unset), sold) =
          SaleRow(sold, q, p, fee, type)
    BY <2>1, ApplyTransaction
  <2>. QED  BY <1>1, <2>2
<1>4. Apply(t.writes["acquisition"], leg[r]["acquisition"]) = leg[r]["acquisition"]
  BY <1>2, ApplyNothing DEF Sells
<1>5. leg' = [leg EXCEPT ![r]["sale"] = recorded]
  <2>1. leg' = [leg EXCEPT ![r] = [k \in LegType |-> Apply(t.writes[k], leg[r][k])]]
    BY Committed
  <2> HIDE DEF recorded, r
  <2>2. [k \in LegType |-> Apply(t.writes[k], leg[r][k])] = [leg[r] EXCEPT !["sale"] = recorded]
    BY <1>2, <1>3, <1>4 DEF LegType
  <2>. QED  BY <1>2, <2>1, <2>2
<1>6. sold.transaction_completed_at = Unset /\ UNCHANGED <<live, run_finalized>>
  BY Committed DEF Sells, Unrecorded
<1>. QED  BY <1>5, <1>6, SameRows DEF Atomic!Sale, SaleRow

(* An edit writes what was given, and what is left out stays.              *)
EditedRow(row, q, p, fee, type) ==
    [row EXCEPT !.quantity_scu = q, !.price_per_unit = p,
                !.cargo_transfer_fee = fee, !.cargo_transfer_type = type]

Chosen(v, old) == IF v = Keep THEN old ELSE v

LEMMA ApplyEdit ==
    ASSUME NEW row \in LegRow, NEW q \in Int \cup {Keep}, NEW p \in Int \cup {Keep},
           NEW fee \in Int \cup {Keep}, NEW type \in CargoTransferType \cup {Keep}
    PROVE  Apply(EditUpdate(row, q, p, fee, type), row) =
             EditedRow(row, Chosen(q, row.quantity_scu), Chosen(p, row.price_per_unit),
                            Chosen(fee, row.cargo_transfer_fee), Chosen(type, row.cargo_transfer_type))
<1> DEFINE q2 == Chosen(q, row.quantity_scu)
           p2 == Chosen(p, row.price_per_unit)
           fee2 == Chosen(fee, row.cargo_transfer_fee)
           type2 == Chosen(type, row.cargo_transfer_type)
           applied == Apply(EditUpdate(row, q, p, fee, type), row)
           edited == EditedRow(row, q2, p2, fee2, type2)
<1>1. /\ row.quantity_scu # Keep /\ row.price_per_unit # Keep
      /\ row.cargo_transfer_fee # Keep /\ row.cargo_transfer_type # Keep
      /\ q2 \in Int /\ p2 \in Int /\ fee2 \in Int /\ type2 \in CargoTransferType
  BY KeepIsNoValue DEF LegRow, Chosen
<1>2. /\ Written(Changed(row.quantity_scu, q), row.quantity_scu) = q2
      /\ Written(Changed(row.price_per_unit, p), row.price_per_unit) = p2
      /\ Written(Changed(row.cargo_transfer_fee, fee), row.cargo_transfer_fee) = fee2
      /\ Written(Changed(row.cargo_transfer_type, type), row.cargo_transfer_type) = type2
  BY <1>1, WrittenChanged DEF Chosen
<1> HIDE DEF q2, p2, fee2, type2
<1>3. /\ applied.started_at = row.started_at /\ applied.reached_at = row.reached_at
      /\ applied.transaction_completed_at = row.transaction_completed_at
      /\ applied.transferred_at = row.transferred_at /\ applied.finalized_at = row.finalized_at
      /\ applied.quantity_scu = Written(Changed(row.quantity_scu, q), row.quantity_scu)
      /\ applied.price_per_unit = Written(Changed(row.price_per_unit, p), row.price_per_unit)
      /\ applied.cargo_transfer_fee = Written(Changed(row.cargo_transfer_fee, fee), row.cargo_transfer_fee)
      /\ applied.cargo_transfer_type = Written(Changed(row.cargo_transfer_type, type), row.cargo_transfer_type)
      /\ applied = [started_at |-> applied.started_at, reached_at |-> applied.reached_at,
                    transaction_completed_at |-> applied.transaction_completed_at,
                    transferred_at |-> applied.transferred_at, finalized_at |-> applied.finalized_at,
                    cargo_transfer_type |-> applied.cargo_transfer_type,
                    quantity_scu |-> applied.quantity_scu, price_per_unit |-> applied.price_per_unit,
                    cargo_transfer_fee |-> applied.cargo_transfer_fee]
  BY DEF Apply, EditUpdate, NoUpdate, Written
<1>4. /\ edited \in LegRow
      /\ edited.started_at = row.started_at /\ edited.reached_at = row.reached_at
      /\ edited.transaction_completed_at = row.transaction_completed_at
      /\ edited.transferred_at = row.transferred_at /\ edited.finalized_at = row.finalized_at
      /\ edited.quantity_scu = q2 /\ edited.price_per_unit = p2
      /\ edited.cargo_transfer_fee = fee2 /\ edited.cargo_transfer_type = type2
  BY <1>1 DEF EditedRow, LegRow
<1> HIDE DEF applied, edited
<1>5. applied \in LegRow
  <2>1. /\ row.started_at \in StampColumn /\ row.reached_at \in StampColumn
        /\ row.transaction_completed_at \in StampColumn
        /\ row.transferred_at \in StampColumn /\ row.finalized_at \in StampColumn
    BY DEF LegRow
  <2>. QED  BY <1>1, <1>2, <1>3, <2>1 DEF LegRow
<1>6. applied = edited
  BY <1>2, <1>3, <1>4, <1>5, SameColumns
<1>. QED  BY <1>6 DEF applied, edited, q2, p2, fee2, type2

LEMMA EditIsAtomic ==
    ASSUME IInv, RowsAreAsRead, NEW s \in Slots, Commit(s),
           NEW t, t = txn[s], Edits(t, leg[t.run], run_finalized[t.run])
    PROVE  Atomic!Edit(t.run, t.leg)
<1> DEFINE r == t.run
           l == t.leg
           row == leg[r][l]
<1>1. PICK q \in Optional(Quantities), p \in Optional(Prices), fee \in Optional(Fees),
          type \in CargoTransferType \cup {Keep} : EditOf(t, row, q, p, fee, type)
  BY DEF Edits
<1> DEFINE q2 == Chosen(q, row.quantity_scu)
           p2 == Chosen(p, row.price_per_unit)
           fee2 == Chosen(fee, row.cargo_transfer_fee)
           type2 == Chosen(type, row.cargo_transfer_type)
<1>2. /\ r \in Runs /\ l \in LegType /\ leg \in [Runs -> [LegType -> LegRow]]
      /\ row \in LegRow /\ leg[r][Sibling(l)] \in LegRow
  BY Committed, Siblings DEF Edits
<1>3. /\ q \in Int \cup {Keep} /\ p \in Int \cup {Keep} /\ fee \in Int \cup {Keep}
      /\ q2 \in Quantities \cup {row.quantity_scu} /\ p2 \in Prices \cup {row.price_per_unit}
      /\ fee2 \in Fees \cup {row.cargo_transfer_fee} /\ type2 \in CargoTransferType
  BY <1>2, ValuesAssumption DEF Optional, LegRow, Chosen
<1>4. Apply(t.writes[l], row) = EditedRow(row, q2, p2, fee2, type2)
  <2>1. t.writes[l] = EditUpdate(row, q, p, fee, type)
    BY <1>1 DEF EditOf
  <2>2. /\ row \in LegRow /\ q \in Int \cup {Keep} /\ p \in Int \cup {Keep}
        /\ fee \in Int \cup {Keep} /\ type \in CargoTransferType \cup {Keep}
    BY <1>2, <1>3
  <2> HIDE DEF row, l
  <2>3. Apply(EditUpdate(row, q, p, fee, type), row) =
          EditedRow(row, Chosen(q, row.quantity_scu), Chosen(p, row.price_per_unit),
                         Chosen(fee, row.cargo_transfer_fee), Chosen(type, row.cargo_transfer_type))
    BY <2>2, ApplyEdit
  <2>. QED  BY <2>1, <2>3
<1>5. Apply(t.writes[Sibling(l)], leg[r][Sibling(l)]) = leg[r][Sibling(l)]
  BY <1>2, ApplyNothing DEF Edits
<1> HIDE DEF q2, p2, fee2, type2
<1>6. leg' = [leg EXCEPT ![r] = [leg[r] EXCEPT ![l] = EditedRow(row, q2, p2, fee2, type2)]]
  <2>1. leg' = [leg EXCEPT ![r] = [k \in LegType |-> Apply(t.writes[k], leg[r][k])]]
    BY Committed
  <2> HIDE DEF r, l
  <2>2. [k \in LegType |-> Apply(t.writes[k], leg[r][k])] = [leg[r] EXCEPT ![l] = EditedRow(row, q2, p2, fee2, type2)]
    BY <1>2, <1>4, <1>5, Siblings
  <2>. QED  BY <2>1, <2>2
<1>7. leg' = [leg EXCEPT ![r][l].quantity_scu = q2, ![r][l].price_per_unit = p2,
                         ![r][l].cargo_transfer_fee = fee2, ![r][l].cargo_transfer_type = type2]
  <2> HIDE DEF r, l
  <2>. QED  BY <1>2, <1>6 DEF EditedRow
<1>8. run_finalized[r] = Unset /\ UNCHANGED <<live, run_finalized>>
  BY Committed DEF Edits
<1>. QED  BY <1>3, <1>7, <1>8, SameRows DEF Atomic!Edit

LEMMA WriteOffIsAtomic ==
    ASSUME IInv, RowsAreAsRead, NEW s \in Slots, Commit(s),
           NEW t, t = txn[s], WritesOff(t, leg[t.run], run_finalized[t.run])
    PROVE  Atomic!WriteOff(t.run)
<1> DEFINE r == t.run
           bought == leg[r]["acquisition"]
           sold == leg[r]["sale"]
           closed == Atomic!Filled(bought)
           lost == [Atomic!Filled(sold) EXCEPT !.quantity_scu = 0, !.price_per_unit = 0,
                                               !.cargo_transfer_fee = 0]
<1>1. /\ r \in Runs /\ leg \in [Runs -> [LegType -> LegRow]]
      /\ bought \in LegRow /\ sold \in LegRow
  BY Committed DEF LegType
<1>2. Apply(t.writes["acquisition"], bought) = closed /\ Apply(t.writes["sale"], sold) = lost
  <2>1. t.writes["acquisition"] = Closed(bought) /\ t.writes["sale"] = ClosedForNothing(sold)
    BY DEF WritesOff
  <2> HIDE DEF bought, sold
  <2>. QED  BY <1>1, <2>1, ApplyClosed
<1> HIDE DEF closed, lost
<1>3. leg' = [leg EXCEPT ![r]["acquisition"] = closed, ![r]["sale"] = lost]
  <2>1. leg' = [leg EXCEPT ![r] = [k \in LegType |-> Apply(t.writes[k], leg[r][k])]]
    BY Committed
  <2> HIDE DEF r
  <2>2. [k \in LegType |-> Apply(t.writes[k], leg[r][k])]
          = [leg[r] EXCEPT !["acquisition"] = closed, !["sale"] = lost]
    BY <1>1, <1>2 DEF LegType
  <2>. QED  BY <1>1, <2>1, <2>2
<1>4. /\ run_finalized[r] = Unset /\ bought.transaction_completed_at # Unset
      /\ sold.transaction_completed_at = Unset
  BY DEF WritesOff, Unrecorded
<1>5. run_finalized' = [run_finalized EXCEPT ![r] = "write_off"] /\ UNCHANGED live
  <2>1. "write_off" # Keep
    BY KeepIsNoValue DEF Stamp
  <2>. QED  BY <2>1, Committed DEF WritesOff
<1>. QED  BY <1>3, <1>4, <1>5, SameRows DEF Atomic!WriteOff, closed, lost

LEMMA FinalizeIsAtomic ==
    ASSUME IInv, RowsAreAsRead, NEW s \in Slots, Commit(s),
           NEW t, t = txn[s], Finalizes(t, leg[t.run])
    PROVE  Atomic!Finalize(t.run)
<1> DEFINE r == t.run
<1>1. /\ r \in Runs /\ leg \in [Runs -> [LegType -> LegRow]]
      /\ \A l \in LegType : Apply(t.writes[l], leg[r][l]) = leg[r][l]
  <2>1. \A l \in LegType : leg[r][l] \in LegRow /\ t.writes[l] = NoUpdate
    BY Committed DEF Finalizes, NoWrites
  <2>. QED  BY <2>1, Committed, ApplyNothing
<1>2. leg' = leg
  <2>1. leg' = [leg EXCEPT ![r] = [k \in LegType |-> Apply(t.writes[k], leg[r][k])]]
    BY Committed
  <2> HIDE DEF r
  <2>2. [k \in LegType |-> Apply(t.writes[k], leg[r][k])] = leg[r]
    BY <1>1
  <2>. QED  BY <1>1, <2>1, <2>2
<1>3. run_finalized' = [run_finalized EXCEPT ![r] = "finalize"] /\ UNCHANGED live
  <2>1. "finalize" # Keep
    BY KeepIsNoValue DEF Stamp
  <2>. QED  BY <2>1, Committed DEF Finalizes
<1>4. \A l \in LegType : next_unset_field(l, leg[r][l]) = NoMilestone
  BY DEF Finalizes
<1>. QED  BY <1>2, <1>3, <1>4, SameRows DEF Atomic!Finalize

LEMMA DeleteIsAtomic ==
    ASSUME IInv, NEW s \in Slots, CommitDelete(s)
    PROVE  txn[s].run \in live /\ Atomic!Delete(txn[s].run)
BY SameRows DEF CommitDelete, Ready, Atomic!Delete

LEMMA CreateIsAtomic ==
    ASSUME NEW u \in Pilots, NEW r \in Runs, CreateRun(u, r)
    PROVE  Atomic!Create(r)
<1>1. PICK q \in Quantities, p \in Prices, p2 \in Prices, type \in CargoTransferType, type2 \in CargoTransferType :
          leg' = [leg EXCEPT ![r] = [l \in LegType |->
                    IF l = "acquisition" THEN NewRow("create", type, q, p)
                                         ELSE NewRow(Unset, type2, q, p2)]]
  BY DEF CreateRun
<1>2. [l \in LegType |-> IF l = "acquisition" THEN NewRow("create", type, q, p)
                                              ELSE NewRow(Unset, type2, q, p2)]
        = [acquisition |-> NewRow("create", type, q, p), sale |-> NewRow(Unset, type2, q, p2)]
  BY DEF LegType
<1>3. r \notin live /\ live' = live \cup {r} /\ UNCHANGED run_finalized
  BY DEF CreateRun
<1>4. leg' = [leg EXCEPT ![r] = [acquisition |-> Atomic!NewRow("create", type, q, p),
                                 sale |-> Atomic!NewRow(Atomic!Unset, type2, q, p2)]]
  BY <1>1, <1>2, SameRows
<1>. QED  BY <1>3, <1>4, SameRows DEF Atomic!Create

-----------------------------------------------------------------------------
(* Every step keeps the invariant, and is a step of the atomic ledger or   *)
(* changes nothing that the atomic ledger has.                             *)

LEMMA CommitIsAtomic ==
    ASSUME IInv, RowsAreAsRead, NEW s \in Slots, Commit(s)
    PROVE  Atomic!Next
<1> DEFINE t == txn[s]
<1>1. t.run \in live /\ Decided(t, leg[t.run], run_finalized[t.run]) /\ t.op # "delete_run"
  BY Committed
<1>2. CASE Advances(t, leg[t.run])
  <2>1. t.leg \in Atomic!LegType
    BY <1>2, SameRows DEF Advances
  <2>. QED  BY <1>1, <1>2, <2>1, AdvanceIsAtomic DEF Atomic!Next
<1>3. CASE Purchases(t, leg[t.run])
  BY <1>1, <1>3, PurchaseIsAtomic DEF Atomic!Next
<1>4. CASE Sells(t, leg[t.run])
  BY <1>1, <1>4, SaleIsAtomic DEF Atomic!Next
<1>5. CASE Edits(t, leg[t.run], run_finalized[t.run])
  <2>1. t.leg \in Atomic!LegType
    BY <1>5, SameRows DEF Edits
  <2>. QED  BY <1>1, <1>5, <2>1, EditIsAtomic DEF Atomic!Next
<1>6. CASE Finalizes(t, leg[t.run])
  BY <1>1, <1>6, FinalizeIsAtomic DEF Atomic!Next
<1>7. CASE WritesOff(t, leg[t.run], run_finalized[t.run])
  BY <1>1, <1>7, WriteOffIsAtomic DEF Atomic!Next
<1>. QED  BY <1>1, <1>2, <1>3, <1>4, <1>5, <1>6, <1>7 DEF Decided, Deletes

LEMMA NextIsAtomic ==
    ASSUME MaxPerPilot = 1, IInv, RowsAreAsRead, [Next]_vars
    PROVE  RowsAreAsRead' /\ [Atomic!Next]_(Atomic!vars)
<1>1. CASE UNCHANGED vars
  BY <1>1 DEF vars, RowsAreAsRead, Atomic!vars
<1>2. ASSUME NEW u \in Pilots, NEW r \in Runs, CreateRun(u, r)
      PROVE  RowsAreAsRead' /\ [Atomic!Next]_(Atomic!vars)
  BY <1>2, CreateRunAsRead, CreateIsAtomic DEF Atomic!Next
<1>3. ASSUME NEW s \in Slots, NEW u \in Pilots, NEW r \in Runs, NEW l \in LegType, LegRequest(s, u, r, l)
      PROVE  RowsAreAsRead' /\ [Atomic!Next]_(Atomic!vars)
  BY <1>3, AdvanceLegReads, RecordPurchaseReads, RecordSaleReads, UpdateTransactionReads
     DEF LegRequest, Atomic!vars
<1>4. ASSUME NEW s \in Slots, NEW u \in Pilots, NEW r \in Runs, RunRequest(s, u, r)
      PROVE  RowsAreAsRead' /\ [Atomic!Next]_(Atomic!vars)
  BY <1>4, RunRequestReads DEF Atomic!vars
<1>5. ASSUME NEW s \in Slots, ReadSibling(s)
      PROVE  RowsAreAsRead' /\ [Atomic!Next]_(Atomic!vars)
  BY <1>5, SiblingIsAsRead DEF Atomic!vars
<1>6. ASSUME NEW s \in Slots, Commit(s)
      PROVE  RowsAreAsRead' /\ [Atomic!Next]_(Atomic!vars)
  BY <1>6, CommitAsRead, CommitIsAtomic
<1>7. ASSUME NEW s \in Slots, CommitDelete(s)
      PROVE  RowsAreAsRead' /\ [Atomic!Next]_(Atomic!vars)
  BY <1>7, CommitAsRead, DeleteIsAtomic DEF Atomic!Next
<1>8. ASSUME NEW s \in Slots, Abort(s)
      PROVE  RowsAreAsRead' /\ [Atomic!Next]_(Atomic!vars)
  BY <1>8, CommitAsRead DEF Abort, Atomic!vars
<1>. QED  BY <1>1, <1>2, <1>3, <1>4, <1>5, <1>6, <1>7, <1>8 DEF Next

LEMMA InitIsAtomic == Init => RowsAreAsRead /\ Atomic!Init
<1> SUFFICES ASSUME Init PROVE RowsAreAsRead /\ Atomic!Init
  OBVIOUS
<1>1. RowsAreAsRead
  BY DEF Init, RowsAreAsRead
<1>2. Atomic!Init
  BY SameRows DEF Init, Atomic!Init
<1>. QED  BY <1>1, <1>2

(* A ledger that serves each pilot one request at a time is the atomic     *)
(* ledger: every operation of ledger_service.py takes effect at its        *)
(* commit, on the rows that its guards were checked against, although the  *)
(* requests of other pilots run at each of its awaits.                     *)
THEOREM OneAtATimeIsAtomic == ASSUME MaxPerPilot = 1 PROVE Spec => AtomicSpec
<1>1. IInv /\ RowsAreAsRead /\ [Next]_vars => RowsAreAsRead' /\ [Atomic!Next]_(Atomic!vars)
  BY NextIsAtomic
<1>. QED  BY <1>1, InitIsAtomic, Invariance, PTL DEF Spec, AtomicSpec, Atomic!Spec

-----------------------------------------------------------------------------
(* No operation of the atomic ledger is possible on a run that is closed,  *)
(* but to delete it.                                                       *)

Frozen == \A r \in Runs : run_finalized[r] # Unset /\ r \in live' => leg'[r] = leg[r]

LEMMA ClosedRunIsComplete ==
    ASSUME IInv, NEW r \in Runs, run_finalized[r] # Unset
    PROVE  /\ r \in live
           /\ \A l \in LegType : /\ next_unset_field(l, leg[r][l]) = NoMilestone
                                 /\ leg[r][l].transaction_completed_at # Unset
<1>1. \A l \in LegType : /\ leg[r][l].finalized_at # Unset
                         /\ next_unset_field(l, leg[r][l]) = NoMilestone
  BY DEF IInv, FinalizedRunIsComplete
<1>2. \A l \in LegType : leg[r][l]["transaction_completed_at"] # Unset
  BY <1>1 DEF IInv, DoneLegIsComplete, Milestone
<1>. QED  BY <1>1, <1>2 DEF IInv, GoneRunIsOpen

LEMMA AtomicStepIsFrozen ==
    ASSUME IInv, [Atomic!Next]_(Atomic!vars)
    PROVE  Frozen
<1> SUFFICES ASSUME NEW r \in Runs, run_finalized[r] # Unset, r \in live'
             PROVE  leg'[r] = leg[r]
  BY DEF Frozen
<1>1. /\ r \in live /\ leg \in [Runs -> [LegType -> LegRow]] /\ live \subseteq Runs
      /\ \A l \in LegType : /\ next_unset_field(l, leg[r][l]) = NoMilestone
                           /\ leg[r][l].transaction_completed_at # Unset
  BY ClosedRunIsComplete DEF IInv, TypeOK
<1>2. CASE UNCHANGED Atomic!vars
  BY <1>2 DEF Atomic!vars
<1>3. ASSUME NEW q \in Runs, Atomic!Create(q)
      PROVE  leg'[r] = leg[r]
  BY <1>1, <1>3 DEF Atomic!Create
<1>4. ASSUME NEW q \in live, NEW l \in LegType, Atomic!Advance(q, l)
      PROVE  leg'[r] = leg[r]
  <2>1. next_unset_field(l, leg[q][l]) # NoMilestone
    BY <1>4, SameRows DEF Atomic!Advance
  <2>2. q # r
    BY <1>1, <2>1
  <2>. QED  BY <1>1, <1>4, <2>2 DEF Atomic!Advance
<1>5. ASSUME NEW q \in live, Atomic!Purchase(q)
      PROVE  leg'[r] = leg[r]
  <2>1. q # r
    BY <1>1, <1>5, SameRows DEF Atomic!Purchase, LegType
  <2>. QED  BY <1>1, <1>5, <2>1 DEF Atomic!Purchase
<1>6. ASSUME NEW q \in live, Atomic!Sale(q)
      PROVE  leg'[r] = leg[r]
  <2>1. q # r
    BY <1>1, <1>6, SameRows DEF Atomic!Sale, LegType
  <2>. QED  BY <1>1, <1>6, <2>1 DEF Atomic!Sale
<1>7. ASSUME NEW q \in live, NEW l \in LegType, Atomic!Edit(q, l)
      PROVE  leg'[r] = leg[r]
  <2>1. q # r
    BY <1>7, SameRows DEF Atomic!Edit
  <2>. QED  BY <1>1, <1>7, <2>1 DEF Atomic!Edit
<1>8. ASSUME NEW q \in live, Atomic!Finalize(q)
      PROVE  leg'[r] = leg[r]
  BY <1>8 DEF Atomic!Finalize
<1>9. ASSUME NEW q \in live, Atomic!WriteOff(q)
      PROVE  leg'[r] = leg[r]
  <2>1. q # r
    BY <1>9, SameRows DEF Atomic!WriteOff
  <2>. QED  BY <1>1, <1>9, <2>1 DEF Atomic!WriteOff
<1>10. ASSUME NEW q \in live, Atomic!Delete(q)
       PROVE  leg'[r] = leg[r]
  BY <1>1, <1>10 DEF Atomic!Delete
<1>. QED
  BY <1>1, <1>2, <1>3, <1>4, <1>5, <1>6, <1>7, <1>8, <1>9, <1>10, SameRows DEF Atomic!Next

(* The values of a run that is closed do not change, as the docstring of   *)
(* update_transaction has it (ledger_service.py:223): not by an edit, nor  *)
(* by any other request, when each pilot has one at a time.                *)
THEOREM ClosedRunsAreFrozen == ASSUME MaxPerPilot = 1 PROVE Spec => FinalizedFrozen
<1>1. IInv /\ RowsAreAsRead /\ [Next]_vars => RowsAreAsRead' /\ [Frozen]_vars
  BY NextIsAtomic, AtomicStepIsFrozen
<1>. QED  BY <1>1, InitIsAtomic, Invariance, PTL DEF Spec, FinalizedFrozen, Frozen

-----------------------------------------------------------------------------
(* What the sale of a run keeps, and what a write-off leaves of it.        *)

(* The field that is stamped next is one that is not set.                  *)
LEMMA NextFieldIsUnset ==
    ASSUME NEW l \in LegType, NEW row \in LegRow, next_unset_field(l, row) # NoMilestone
    PROVE  row[next_unset_field(l, row)] = Unset
<1> DEFINE seq == MilestoneSequence(l, row)
           pending == {i \in DOMAIN seq : row[seq[i]] = Unset}
           first == CHOOSE i \in pending : \A j \in pending : i <= j
<1>1. next_unset_field(l, row) = IF pending = {} THEN NoMilestone ELSE seq[first]
  BY DEF next_unset_field
<1>2. DOMAIN seq \subseteq 1..4
  BY DEF MilestoneSequence
<1>3. pending # {}
  BY <1>1
<1>4. \E i \in pending : \A j \in pending : i <= j
  <2>1. \A i \in pending : i = 1 \/ i = 2 \/ i = 3 \/ i = 4
    BY <1>2
  <2> HIDE DEF pending
  <2>2. CASE 1 \in pending  BY <2>1, <2>2
  <2>3. CASE 1 \notin pending /\ 2 \in pending  BY <2>1, <2>3
  <2>4. CASE 1 \notin pending /\ 2 \notin pending /\ 3 \in pending  BY <2>1, <2>4
  <2>5. CASE 1 \notin pending /\ 2 \notin pending /\ 3 \notin pending
    <3>1. 4 \in pending /\ \A j \in pending : j = 4  BY <1>3, <2>1, <2>5
    <3>. QED  BY <3>1
  <2>. QED  BY <2>2, <2>3, <2>4, <2>5
<1>5. first \in pending
  BY <1>4
<1> HIDE DEF first
<1>. QED  BY <1>1, <1>3, <1>5

(* Only a write-off closes a run as lost: it finds the run open and the    *)
(* sale unrecorded, and leaves nothing of what the sale was to bring.      *)
Lost(r) == run_finalized'[r] = "write_off" /\ run_finalized[r] # "write_off"
SoldForNothing(row) == row.quantity_scu = 0 /\ row.price_per_unit = 0 /\ row.cargo_transfer_fee = 0

LEMMA WriteOffOnly ==
    ASSUME IInv, [Atomic!Next]_(Atomic!vars), NEW r \in Runs, Lost(r)
    PROVE  /\ run_finalized[r] = Unset
           /\ leg[r]["sale"].transaction_completed_at = Unset
           /\ SoldForNothing(leg'[r]["sale"])
<1>1. /\ leg \in [Runs -> [LegType -> LegRow]] /\ run_finalized \in [Runs -> StampColumn]
      /\ live \subseteq Runs /\ leg[r]["sale"] \in LegRow
  BY DEF IInv, TypeOK, LegType
<1>2. run_finalized'[r] # run_finalized[r]
  BY DEF Lost
<1>3. ASSUME NEW q \in live, Atomic!WriteOff(q)
      PROVE  /\ q = r /\ run_finalized[r] = Unset
             /\ leg[r]["sale"].transaction_completed_at = Unset
             /\ SoldForNothing(leg'[r]["sale"])
  <2>1. q = r /\ run_finalized[r] = Unset
    BY <1>1, <1>2, <1>3, SameRows DEF Atomic!WriteOff
  <2>2. leg[r]["sale"].transaction_completed_at = Unset
    BY <1>3, <2>1, SameRows DEF Atomic!WriteOff
  <2> DEFINE filled == Atomic!Filled(leg[r]["sale"])
             nothing == [filled EXCEPT !.quantity_scu = 0, !.price_per_unit = 0, !.cargo_transfer_fee = 0]
  <2>3. leg'[r]["sale"] = nothing
    BY <1>1, <1>3, <2>1 DEF Atomic!WriteOff, LegType
  <2>4. DOMAIN filled = DOMAIN leg[r]["sale"]
    BY DEF Atomic!Filled
  <2>5. {"quantity_scu", "price_per_unit", "cargo_transfer_fee"} \subseteq DOMAIN filled
    BY <1>1, <2>4 DEF LegRow
  <2>6. SoldForNothing(nothing)
    <3> HIDE DEF filled
    <3>. QED  BY <2>5 DEF SoldForNothing
  <2>. QED  BY <2>1, <2>2, <2>3, <2>6
<1>4. CASE UNCHANGED Atomic!vars
  BY <1>2, <1>4 DEF Atomic!vars
<1>5. ASSUME NEW q \in Runs, Atomic!Create(q) PROVE FALSE
  BY <1>2, <1>5 DEF Atomic!Create
<1>6. ASSUME NEW q \in live,
             \/ Atomic!Purchase(q) \/ Atomic!Sale(q)
             \/ \E l \in Atomic!LegType : Atomic!Advance(q, l) \/ Atomic!Edit(q, l)
      PROVE  FALSE
  BY <1>2, <1>6 DEF Atomic!Purchase, Atomic!Sale, Atomic!Advance, Atomic!Edit
<1>7. ASSUME NEW q \in live, Atomic!Finalize(q) PROVE FALSE
  BY <1>1, <1>2, <1>7 DEF Atomic!Finalize, Lost
<1>8. ASSUME NEW q \in live, Atomic!Delete(q) PROVE FALSE
  BY <1>1, <1>2, <1>8, SameRows DEF Atomic!Delete, Lost, Unset
<1>. QED  BY <1>3, <1>4, <1>5, <1>6, <1>7, <1>8 DEF Atomic!Next

SaleSpared ==
    \A r \in Runs : run_finalized'[r] = "write_off" /\ run_finalized[r] # "write_off" =>
        leg[r]["sale"].transaction_completed_at = Unset

(* A write-off never zeroes a sale that was recorded                       *)
(* (ledger_service.py:282), when each pilot has one request at a time.     *)
THEOREM WriteOffIsOfTheUnsold == ASSUME MaxPerPilot = 1 PROVE Spec => WriteOffSparesSale
<1>1. IInv /\ RowsAreAsRead /\ [Next]_vars => RowsAreAsRead' /\ [SaleSpared]_vars
  <2> SUFFICES ASSUME IInv, RowsAreAsRead, [Next]_vars PROVE RowsAreAsRead' /\ SaleSpared
    OBVIOUS
  <2>1. RowsAreAsRead' /\ [Atomic!Next]_(Atomic!vars)
    BY NextIsAtomic
  <2>2. \A r \in Runs : Lost(r) => leg[r]["sale"].transaction_completed_at = Unset
    BY <2>1, WriteOffOnly
  <2>. QED  BY <2>1, <2>2 DEF SaleSpared, Lost
<1>. QED  BY <1>1, InitIsAtomic, Invariance, PTL DEF Spec, WriteOffSparesSale, SaleSpared

NothingSold == \A r \in Runs : run_finalized[r] = "write_off" => SoldForNothing(leg[r]["sale"])

LEMMA NothingIsSoldLater ==
    ASSUME IInv, IInv', NothingSold, [Atomic!Next]_(Atomic!vars)
    PROVE  NothingSold'
<1> SUFFICES ASSUME NEW r \in Runs, run_finalized'[r] = "write_off"
             PROVE  SoldForNothing(leg'[r]["sale"])
  BY DEF NothingSold, SoldForNothing
<1>1. r \in live'
  BY DEF IInv, GoneRunIsOpen, Unset
<1>2. CASE run_finalized[r] = "write_off"
  <2>1. leg'[r] = leg[r]
    BY <1>1, <1>2, AtomicStepIsFrozen DEF Frozen, Unset
  <2>. QED  BY <1>2, <2>1 DEF NothingSold
<1>3. CASE run_finalized[r] # "write_off"
  BY <1>3, WriteOffOnly DEF Lost
<1>. QED  BY <1>2, <1>3

LEMMA NothingEarned ==
    ASSUME IInv, NothingSold
    PROVE  WriteOffBooksLoss
<1> SUFFICES ASSUME NEW r \in Runs, run_finalized[r] = "write_off"
             PROVE  run_profit(leg[r]) = - (run_investment(leg[r]) + leg[r]["acquisition"].cargo_transfer_fee)
  BY DEF WriteOffBooksLoss
<1>1. leg[r]["acquisition"] \in LegRow /\ leg[r]["sale"] \in LegRow
  BY DEF IInv, TypeOK, LegType
<1>2. /\ leg[r]["acquisition"].quantity_scu \in Int /\ leg[r]["acquisition"].price_per_unit \in Int
      /\ leg[r]["acquisition"].cargo_transfer_fee \in Int
  BY <1>1 DEF LegRow
<1>3. run_investment(leg[r]) \in Int
  BY <1>2 DEF run_investment
<1>4. SoldForNothing(leg[r]["sale"])
  BY DEF NothingSold
<1>5. run_revenue(leg[r]) = 0 /\ run_fees(leg[r]) = leg[r]["acquisition"].cargo_transfer_fee
  BY <1>2, <1>4 DEF SoldForNothing, run_revenue, run_fees
<1>6. run_profit(leg[r]) = run_revenue(leg[r]) - run_investment(leg[r]) - run_fees(leg[r])
  BY DEF run_profit
<1>. QED  BY <1>2, <1>3, <1>5, <1>6

(* The whole outlay of a run that was written off stands as a loss: the    *)
(* sale brings and costs nothing, and nothing edits a closed run           *)
(* (ledger_service.py:281-282).                                            *)
THEOREM WriteOffIsALoss == ASSUME MaxPerPilot = 1 PROVE Spec => []WriteOffBooksLoss
<1>1. Init => NothingSold
  BY DEF Init, NothingSold, Unset
<1>2. IInv /\ IInv' /\ RowsAreAsRead /\ NothingSold /\ [Next]_vars => RowsAreAsRead' /\ NothingSold'
  BY NextIsAtomic, NothingIsSoldLater
<1>. QED  BY <1>1, <1>2, NothingEarned, InitIsAtomic, Invariance, PTL DEF Spec

RecordsOnce(s) ==
    /\ txn[s] # Idle /\ txn'[s] = Idle /\ leg' # leg
    /\ txn[s].op \in {"record_purchase", "record_sale"}
    => leg[txn[s].run][txn[s].leg].transaction_completed_at = Unset
OneRecord == \A s \in Slots : RecordsOnce(s)

LEMMA RecordedAsRead ==
    ASSUME IInv, RowsAreAsRead, NEW s \in Slots, txn[s] # Idle,
           txn[s].op \in {"record_purchase", "record_sale"}
    PROVE  leg[txn[s].run][txn[s].leg].transaction_completed_at = Unset
<1>1. Decided(txn[s], leg[txn[s].run], run_finalized[txn[s].run])
  BY DEF RowsAreAsRead
<1>2. \/ Purchases(txn[s], leg[txn[s].run]) \/ Sells(txn[s], leg[txn[s].run])
  BY <1>1 DEF Decided, Advances, Edits, Finalizes, WritesOff, Deletes
<1>. QED  BY <1>2 DEF Purchases, Sells, Unrecorded

(* A purchase or a sale is recorded on a leg that has none: "recording a   *)
(* second time stays refused" (docs/ledger-edit-path.md, rule 6).          *)
THEOREM OneRecordPerLeg == ASSUME MaxPerPilot = 1 PROVE Spec => RecordedOnce
<1>1. IInv /\ RowsAreAsRead /\ [Next]_vars => RowsAreAsRead' /\ [OneRecord]_vars
  BY NextIsAtomic, RecordedAsRead DEF OneRecord, RecordsOnce
<1>. QED  BY <1>1, InitIsAtomic, Invariance, PTL DEF Spec, RecordedOnce, OneRecord, RecordsOnce

(* A run that is not in the database has no unloading stamped.             *)
StampKept ==
    \A r \in Runs : leg[r]["sale"].transferred_at = "advance" /\ r \in live' =>
        leg'[r]["sale"].transferred_at = "advance"
GoneRunHasNoStamp == \A r \in Runs \ live : leg[r]["sale"].transferred_at = Unset

LEMMA AtomicStepKeepsStamps ==
    ASSUME IInv, GoneRunHasNoStamp, [Atomic!Next]_(Atomic!vars)
    PROVE  StampKept /\ GoneRunHasNoStamp'
<1>1. /\ leg \in [Runs -> [LegType -> LegRow]] /\ live \subseteq Runs
      /\ "sale" \in LegType /\ "acquisition" \in LegType /\ Unset # "advance"
  BY DEF IInv, TypeOK, LegType, Unset
<1>2. CASE UNCHANGED Atomic!vars
  BY <1>2 DEF Atomic!vars, StampKept, GoneRunHasNoStamp
<1>3. ASSUME NEW q \in Runs, Atomic!Create(q)
      PROVE  StampKept /\ GoneRunHasNoStamp'
  <2>1. q \notin live /\ live' = live \cup {q} /\ \A r \in Runs \ {q} : leg'[r] = leg[r]
    BY <1>1, <1>3 DEF Atomic!Create
  <2>. QED  BY <1>1, <2>1 DEF StampKept, GoneRunHasNoStamp
<1>4. ASSUME NEW q \in live, Atomic!Delete(q)
      PROVE  StampKept /\ GoneRunHasNoStamp'
  <2>1. live' = live \ {q} /\ \A r \in Runs \ {q} : leg'[r] = leg[r]
    BY <1>1, <1>4 DEF Atomic!Delete
  <2>2. leg'[q]["sale"] = NoRow
    BY <1>1, <1>4, SameRows DEF Atomic!Delete
  <2>3. NoRow.transferred_at = Unset
    BY DEF NoRow, NewRow
  <2>. QED  BY <1>1, <2>1, <2>2, <2>3 DEF StampKept, GoneRunHasNoStamp
<1>5. ASSUME live' = live, NEW q \in live, \A r \in Runs \ {q} : leg'[r] = leg[r],
             leg[q]["sale"].transferred_at = "advance" => leg'[q]["sale"].transferred_at = "advance"
      PROVE  StampKept /\ GoneRunHasNoStamp'
  BY <1>1, <1>5 DEF StampKept, GoneRunHasNoStamp
<1>6. ASSUME NEW q \in live, NEW l \in LegType, Atomic!Advance(q, l)
      PROVE  StampKept /\ GoneRunHasNoStamp'
  <2> DEFINE field == next_unset_field(l, leg[q][l])
  <2>1. field # NoMilestone /\ field \in Milestone /\ leg[q][l] \in LegRow /\ leg[q][l][field] = Unset
    BY <1>1, <1>6, NextUnsetField, NextFieldIsUnset, SameRows DEF Atomic!Advance
  <2>2. \E w : leg' = Stamped(leg, q, l, field, "advance", w) /\ live' = live
    BY <1>6, SameRows DEF Atomic!Advance, Stamped
  <2>3. PICK w : leg' = Stamped(leg, q, l, field, "advance", w)
    BY <2>2
  <2> HIDE DEF field
  <2>4. leg' = StampedRows(leg, q, l, field, "advance", w)
    BY <1>1, <2>3, BothRows
  <2>5. \A r \in Runs \ {q} : leg'[r] = leg[r]
    BY <1>1, <2>4 DEF StampedRows
  <2>6. leg'[q]["sale"] = IF l = "sale" THEN [leg[q]["sale"] EXCEPT ![field] = "advance"]
                          ELSE [leg[q]["sale"] EXCEPT !.started_at = w]
    BY <1>1, <2>4 DEF StampedRows, Sibling, LegType
  <2>7. leg[q]["sale"].transferred_at = "advance" => leg'[q]["sale"].transferred_at = "advance"
    BY <1>1, <2>1, <2>6 DEF LegRow
  <2>. QED  BY <1>5, <2>2, <2>5, <2>7
<1>7. ASSUME NEW q \in live, Atomic!Purchase(q)
      PROVE  StampKept /\ GoneRunHasNoStamp'
  <2>1. /\ live' = live /\ \A r \in Runs \ {q} : leg'[r] = leg[r]
        /\ leg'[q]["sale"].transferred_at = leg[q]["sale"].transferred_at
    BY <1>1, <1>7 DEF Atomic!Purchase, LegRow
  <2>. QED  BY <1>5, <2>1
<1>8. ASSUME NEW q \in live, Atomic!Sale(q)
      PROVE  StampKept /\ GoneRunHasNoStamp'
  <2>1. PICK recorded : /\ leg' = [leg EXCEPT ![q]["sale"] = Atomic!Unloaded(recorded)]
                        /\ recorded.transferred_at = leg[q]["sale"].transferred_at
                        /\ DOMAIN recorded = DOMAIN leg[q]["sale"]
    <3>1. PICK b \in Quantities, p \in Prices, fee \in Fees, type \in Atomic!CargoTransferType :
             leg' = [leg EXCEPT ![q]["sale"] = Atomic!Unloaded(Atomic!Recorded(@, b, p, fee, type, "sale"))]
      BY <1>8 DEF Atomic!Sale
    <3> DEFINE recorded == Atomic!Recorded(leg[q]["sale"], b, p, fee, type, "sale")
    <3>2. leg' = [leg EXCEPT ![q]["sale"] = Atomic!Unloaded(recorded)]
      BY <3>1
    <3>3. recorded.transferred_at = leg[q]["sale"].transferred_at /\ DOMAIN recorded = DOMAIN leg[q]["sale"]
      BY <1>1 DEF Atomic!Recorded, LegRow
    <3> HIDE DEF recorded
    <3>. QED  BY <3>2, <3>3
  <2>2. live' = live /\ \A r \in Runs \ {q} : leg'[r] = leg[r]
    BY <1>1, <1>8, <2>1 DEF Atomic!Sale
  <2>3. leg'[q]["sale"] = Atomic!Unloaded(recorded)
    BY <1>1, <2>1
  <2>4. "transferred_at" \in DOMAIN recorded
    BY <1>1, <2>1 DEF LegRow
  <2>5. recorded.transferred_at = "advance" => Atomic!Unloaded(recorded).transferred_at = "advance"
    BY <2>4, SameRows DEF Atomic!Unloaded, Unset
  <2>. QED  BY <1>5, <2>1, <2>2, <2>3, <2>5
<1>9. ASSUME NEW q \in live, NEW l \in LegType, Atomic!Edit(q, l)
      PROVE  StampKept /\ GoneRunHasNoStamp'
  <2>1. /\ live' = live /\ \A r \in Runs \ {q} : leg'[r] = leg[r]
        /\ leg'[q]["sale"].transferred_at = leg[q]["sale"].transferred_at
    BY <1>1, <1>9 DEF Atomic!Edit, LegRow
  <2>. QED  BY <1>5, <2>1
<1>10. ASSUME NEW q \in live, Atomic!Finalize(q)
       PROVE  StampKept /\ GoneRunHasNoStamp'
  BY <1>5, <1>10 DEF Atomic!Finalize
<1>11. ASSUME NEW q \in live, Atomic!WriteOff(q)
       PROVE  StampKept /\ GoneRunHasNoStamp'
  <2> DEFINE filled == Atomic!Filled(leg[q]["sale"])
             nothing == [filled EXCEPT !.quantity_scu = 0, !.price_per_unit = 0, !.cargo_transfer_fee = 0]
  <2>1. live' = live /\ \A r \in Runs \ {q} : leg'[r] = leg[r]
    BY <1>1, <1>11 DEF Atomic!WriteOff
  <2>2. leg'[q]["sale"] = nothing
    BY <1>1, <1>11 DEF Atomic!WriteOff
  <2>3. "transferred_at" \in DOMAIN leg[q]["sale"]
    BY <1>1 DEF LegRow
  <2>4. leg[q]["sale"].transferred_at = "advance" => filled.transferred_at = "advance"
    BY <1>1, <2>3, SameRows DEF Atomic!Filled, Unset
  <2>5. nothing.transferred_at = filled.transferred_at
    <3> HIDE DEF filled
    <3>. QED  OBVIOUS
  <2>. QED  BY <1>5, <2>1, <2>2, <2>4, <2>5
<1>. QED
  BY <1>2, <1>3, <1>4, <1>6, <1>7, <1>8, <1>9, <1>10, <1>11, SameRows DEF Atomic!Next

(* No request takes the time of Confirm Unloaded away or puts another in   *)
(* its place: a record stamps the unloading only where it is missing       *)
(* (ledger_service.py:206).                                                *)
THEOREM StampOfTheUnloadingStays == ASSUME MaxPerPilot = 1 PROVE Spec => UnloadedStampKept
<1>1. Init => GoneRunHasNoStamp
  BY DEF Init, GoneRunHasNoStamp, NoRow, NewRow, LegType
<1>2. IInv /\ RowsAreAsRead /\ GoneRunHasNoStamp /\ [Next]_vars
        => RowsAreAsRead' /\ GoneRunHasNoStamp' /\ [StampKept]_vars
  BY NextIsAtomic, AtomicStepKeepsStamps
<1>. QED  BY <1>1, <1>2, InitIsAtomic, Invariance, PTL DEF Spec, UnloadedStampKept, StampKept
=============================================================================
