------------------------- MODULE SearchPanelsProofs -------------------------
(***************************************************************************)
(* For any routes, terminals and regions, however often the pilot edits,   *)
(* clicks and toggles, and whenever the answers come: the lists of the     *)
(* filters follow the fields, a search finds what it was asked for, and    *)
(* the results are those of the last search.                               *)
(***************************************************************************)
EXTENDS SearchPanels, SequenceTheorems, FiniteSetTheorems, TLAPS

-----------------------------------------------------------------------------
(* The inductive invariant.                                                *)

Flags == {"space", "autoload", "nqa"}
KnownRows == { start.rows : start \in Starts } \cup { start.older : start \in Starts }
Ships == {Empty} \cup DOMAIN HoldOf
Maps == [loaded : BOOLEAN, rows : KnownRows \cup {{}}, recent : BOOLEAN]
Views == [text : Texts, space : BOOLEAN, map : Maps]
Asks == [commodity : CommodityTexts, source : PlaceTexts, destination : PlaceTexts,
         min_source : Int, max_destination : Int, toggles : SUBSET Flags]
Callbacks ==
    [do : {"refresh", "narrow"}] \cup [do : {"apply"}, sees : Views] \cup [do : {"search"}, no : Nat]
        \cup [do : {"set_routes"}, routes : SUBSET UNION KnownRows, cargo : Nat, ship : Ships]

Panels == [routes : SUBSET UNION KnownRows, cargo : Nat, ship : Ships, by_margin : BOOLEAN, ranked : Nat]

(* What the fields, the loop's queue and the panel hold.                   *)
Shape ==
    /\ server \in KnownRows /\ \A r \in server : IsRow(r)
    /\ text \in Texts /\ cargo_input \in Nat /\ toggles \subseteq Flags
    /\ levels \in [min_source : Int, max_destination : Int]
    /\ map \in Maps /\ seen \in Views
    /\ queue \in Seq(Callbacks)
    /\ panel \in Panels
    /\ budget \in [searches : Nat, edits : Nat]

(* The lists follow the fields, or will: a refresh is on its way, or the   *)
(* last view that will be applied does.                                    *)
Follows(view) ==
    /\ \A f \in {"commodity", "source", "destination"} : text[f] = Empty => view.text[f] = Empty
    /\ view.space = ("space" \in toggles)
LastView(i) == queue[i].do = "apply" /\ \A j \in DOMAIN queue : queue[j].do = "apply" => j <= i
Refreshed ==
    \/ \E i \in DOMAIN queue : queue[i].do \in {"refresh", "narrow"}
    \/ \E i \in DOMAIN queue : LastView(i) /\ Follows(queue[i].sees)
    \/ Follows(seen) /\ \A i \in DOMAIN queue : queue[i].do # "apply"

(* A search was asked for something, and asks for the commodities that its *)
(* map names for it.                                                       *)
IsSearch(s) ==
    /\ s.ask \in Asks
    /\ find_commodity(s.ask.commodity) \cup _scope_ids(s.ask.source) \cup _scope_ids(s.ask.destination) # {}
    /\ s.pc = "rows" =>
         s.commodities = _commodity_ids_at_any(s.ask, s.by.loaded, build_reachability(s.by.rows), server)
SearchesAsk == \A s \in searches : IsSearch(s)

(* The times and the volatility that are fetched are for a ranking that    *)
(* was shown; if it is the last one, for the rows that are shown now.      *)
IsFetch(f) ==
    /\ f = [rows |-> f.rows, ship |-> f.ship, ranked |-> f.ranked, pc |-> f.pc]
    /\ f.ranked \in 0 .. panel.ranked
    /\ f.ranked = panel.ranked => f.rows = Ranked(panel.routes, panel.by_margin, panel.cargo)
FetchesAreRanked == \A f \in fetches : IsFetch(f)

IInv == Shape /\ Refreshed /\ SearchesAsk /\ FetchesAreRanked /\ RowsAreOfLastSearch

-----------------------------------------------------------------------------
(* Lemmas about the loop's queue.                                          *)

LEMMA Popped ==
    ASSUME NEW q \in Seq(Callbacks), q # <<>>
    PROVE  /\ Tail(q) \in Seq(Callbacks) /\ Head(q) = q[1] /\ q[1] \in Callbacks
           /\ 1 \in DOMAIN q /\ Len(q) \in Nat /\ DOMAIN q = 1 .. Len(q)
           /\ DOMAIN Tail(q) = 1 .. Len(q) - 1
           /\ \A i \in 1 .. Len(q) - 1 : Tail(q)[i] = q[i + 1] /\ i + 1 \in DOMAIN q
           /\ \A i \in DOMAIN q : i # 1 => i - 1 \in DOMAIN Tail(q) /\ Tail(q)[i - 1] = q[i]
OBVIOUS

LEMMA Pushed ==
    ASSUME NEW q \in Seq(Callbacks), NEW c \in Callbacks
    PROVE  /\ Append(q, c) \in Seq(Callbacks)
           /\ Len(q) \in Nat /\ DOMAIN q = 1 .. Len(q) /\ DOMAIN Append(q, c) = 1 .. Len(q) + 1
           /\ Append(q, c)[Len(q) + 1] = c /\ Len(q) + 1 \in DOMAIN Append(q, c)
           /\ \A i \in DOMAIN q : Append(q, c)[i] = q[i] /\ i \in DOMAIN Append(q, c)
OBVIOUS

LEMMA CancelledIsQueue ==
    ASSUME NEW q \in Seq(Callbacks)
    PROVE  Cancelled(q) \in Seq(Callbacks)
<1> DEFINE waits == { i \in DOMAIN q : q[i].do = "narrow" }
<1>1. CASE waits = {}
  BY <1>1 DEF Cancelled
<1>2. CASE waits # {}
  <2>1. PICK i \in 1 .. Len(q) : i = CHOOSE k \in waits : TRUE
    BY <1>2
  <2>. QED  BY <1>2, <2>1 DEF Cancelled, RemoveAt
<1>. QED  BY <1>1, <1>2

LEMMA Commands ==
    /\ [do |-> "refresh"] \in Callbacks /\ [do |-> "narrow"] \in Callbacks
    /\ \A n \in Nat : [do |-> "search", no |-> n] \in Callbacks
    /\ \A v \in Views : [do |-> "apply", sees |-> v] \in Callbacks
BY DEF Callbacks

-----------------------------------------------------------------------------
(* Each step keeps the shape.                                              *)

(* Ranking a panel counts it, and changes nothing else of it.              *)
LEMMA RankedPanel ==
    ASSUME NEW p \in Panels, _render_ranked(p)
    PROVE  /\ panel' \in Panels /\ panel'.ranked = p.ranked + 1
           /\ panel'.routes = p.routes /\ panel'.cargo = p.cargo /\ panel'.ship = p.ship
           /\ panel'.by_margin = p.by_margin
BY DEF _render_ranked, Panels

LEMMA EmittedPanel ==
    ASSUME NEW p \in Panels, NEW routes \in SUBSET UNION KnownRows, NEW cargo \in Nat, NEW ship \in Ships
    PROVE  [p EXCEPT !.routes = routes, !.cargo = cargo, !.ship = ship] \in Panels
BY DEF Panels

LEMMA ToggledPanel ==
    ASSUME NEW p \in Panels
    PROVE  [p EXCEPT !.by_margin = ~@] \in Panels
<1>1. [p EXCEPT !.by_margin = TRUE] \in Panels /\ [p EXCEPT !.by_margin = FALSE] \in Panels
  BY DEF Panels
<1>2. p.by_margin \in BOOLEAN
  BY DEF Panels
<1>. QED  BY <1>1, <1>2

(* What a list offers is a text that its field can hold.                   *)
LEMMA CandidatesAreTexts ==
    Candidates.commodity \subseteq CommodityTexts /\ Candidates.source \subseteq PlaceTexts
        /\ Candidates.destination \subseteq PlaceTexts
<1> DEFINE reach == build_reachability(seen.map.rows)
           c == find_commodity(seen.text.commodity)
           s == _scope_ids(seen.text.source)
           d == _scope_ids(seen.text.destination)
<1>1. /\ OfferedCommodities(reach, s, d) \subseteq Commodities
      /\ ReachableSources(reach, c, d) \subseteq Terminals
      /\ ReachableDestinations(reach, c, s) \subseteq Terminals
  BY DEF OfferedCommodities, ReachableSources, ReachableDestinations, OtherEnds, terminals_selling,
         terminals_buying
<1>2. \A R \in SUBSET Terminals, space, open, driven \in BOOLEAN :
         SpaceOnly(R, space, open, driven) \subseteq Terminals
  BY DEF SpaceOnly
<1>3. Candidates.commodity \subseteq Commodities
  BY <1>1 DEF Candidates, _refresh_filters_async
<1>4. Candidates.source \subseteq DOMAIN Regions \cup Terminals
  BY <1>1 DEF Candidates, _refresh_filters_async, SpaceOnly
<1>5. Candidates.destination \subseteq DOMAIN Regions \cup Terminals
  BY <1>1 DEF Candidates, _refresh_filters_async, SpaceOnly
<1>. QED  BY <1>3, <1>4, <1>5 DEF CommodityTexts, PlaceTexts, Places

LEMMA FoundAreRows ==
    ASSUME Shape, NEW ask, NEW commodities
    PROVE  _search_routes(ask, commodities, server) \in SUBSET UNION KnownRows
BY DEF Shape, _search_routes, BetweenEnds

LEMMA PilotKeepsShape ==
    ASSUME Shape, Pilot
    PROVE  Shape'
<1> USE DEF Edits, Later, Refreshes
<1>0. budget' \in [searches : Nat, edits : Nat]
  BY DEF Shape, Pilot, Types, Picks, Toggles, PicksShip, Clicks
<1>1. ASSUME NEW f \in {"commodity", "source", "destination"}, Types(f) \/ Picks(f)
      PROVE  Shape'
  <2>1. PICK t \in IF f = "commodity" THEN CommodityTexts ELSE PlaceTexts : text' = [text EXCEPT ![f] = t]
    BY <1>1, CandidatesAreTexts DEF Types, Picks
  <2>2. text' \in Texts
    BY <2>1 DEF Shape, Texts
  <2>3. queue' \in Seq(Callbacks)
    <3>1. queue' \in {queue, Append(queue, [do |-> "refresh"])}
      BY <1>1 DEF Types, Picks, _on_field_edited
    <3>. QED  BY <3>1, Commands, Pushed DEF Shape
  <2>. QED  BY <1>0, <1>1, <2>2, <2>3 DEF Types, Picks, results, Shape
<1>2. CASE Toggles
  <2>1. toggles' \subseteq Flags
    BY <1>2 DEF Toggles, SymDiff, Shape, Flags
  <2>2. queue' \in {queue, Append(queue, [do |-> "refresh"])}
    BY <1>2 DEF Toggles
  <2>3. queue' \in Seq(Callbacks)
    BY <2>2, Commands, Pushed DEF Shape
  <2>. QED  BY <1>0, <1>2, <2>1, <2>3 DEF Toggles, results, Shape
<1>3. CASE PicksShip
  <2>1. PICK ship \in Ships, scu \in {cargo_input} \cup Range(HoldOf) :
          text' = [text EXCEPT !.ship = ship] /\ cargo_input' = scu
    BY <1>3 DEF PicksShip, Ships
  <2>2. text' \in Texts
    BY <2>1 DEF Shape, Texts, Ships
  <2>3. cargo_input' \in Nat
    BY <2>1, HoldAssumption DEF Shape, Range
  <2>. QED  BY <1>0, <1>3, <2>2, <2>3 DEF PicksShip, results, Shape
<1>4. CASE Clicks
  <2>1. queue' \in Seq(Callbacks)
    BY <1>4, Commands DEF Clicks, Shape
  <2>. QED  BY <1>0, <1>4, <2>1 DEF Clicks, filters, results, Shape
<1>. QED  BY <1>1, <1>2, <1>3, <1>4 DEF Pilot

LEMMA CallbackKeepsShape ==
    ASSUME Shape, Callback
    PROVE  Shape'
<1>0. Tail(queue) \in Seq(Callbacks) /\ Head(queue) \in Callbacks
  BY Popped DEF Shape, Callback, StartsRefresh, Narrows, Applies, StartsSearch, SetsRoutes, Runs
<1>1. CASE StartsRefresh
  <2>1. queue' \in Seq(Callbacks)
    <3>1. queue' = Append(Cancelled(Tail(queue)), [do |-> "narrow"])
      BY <1>1 DEF StartsRefresh
    <3>2. Cancelled(Tail(queue)) \in Seq(Callbacks)
      BY <1>0, CancelledIsQueue
    <3>. QED  BY <3>1, <3>2, Commands, Pushed
  <2>. QED  BY <1>1, <2>1 DEF StartsRefresh, filters, results, Shape
<1>2. CASE Narrows
  <2>1. Sees \in Views
    BY DEF Shape, Sees, Views
  <2>2. queue' \in Seq(Callbacks)
    BY <1>0, <1>2, <2>1, Commands DEF Narrows, Then
  <2>. QED  BY <1>2, <2>2 DEF Narrows, filters, results, Shape
<1>3. CASE Applies
  <2>1. Head(queue).sees \in Views
    BY <1>0, <1>3 DEF Applies, Runs, Callbacks
  <2>. QED  BY <1>0, <1>3, <2>1 DEF Applies, filters, results, Shape
<1>4. CASE StartsSearch
  BY <1>0, <1>4 DEF StartsSearch, filters, results, Shape
<1>5. CASE SetsRoutes
  <2>1. /\ Head(queue).routes \in SUBSET UNION KnownRows /\ Head(queue).cargo \in Nat
        /\ Head(queue).ship \in Ships
    BY <1>0, <1>5 DEF SetsRoutes, Runs, Callbacks
  <2>2. panel' \in Panels
    <3>1. _render_ranked([panel EXCEPT !.routes = Head(queue).routes, !.cargo = Head(queue).cargo,
                                       !.ship = Head(queue).ship])
      BY <1>5 DEF SetsRoutes
    <3>. QED  BY <2>1, <3>1, EmittedPanel, RankedPanel DEF Shape
  <2>. QED  BY <1>0, <1>5, <2>2 DEF SetsRoutes, filters, Shape
<1>. QED  BY <1>1, <1>2, <1>3, <1>4, <1>5 DEF Callback

LEMMA AnswersKeepShape ==
    ASSUME Shape, NEW s \in searches, MapAnswered(s) \/ Finds(s) \/ FailsToFind(s)
    PROVE  Shape'
<1>1. CASE MapAnswered(s)
  <2>1. map' \in Maps
    <3>1. map' \in {Made(server, TRUE, TRUE), map}  BY <1>1 DEF MapAnswered
    <3>2. Made(server, TRUE, TRUE) \in Maps  BY DEF Made, Maps, Shape
    <3>. QED  BY <3>1, <3>2 DEF Shape
  <2>. QED  BY <1>1, <2>1 DEF MapAnswered, filters, results, Shape
<1>2. CASE Finds(s)
  <2>1. [do |-> "set_routes", routes |-> _search_routes(s.ask, s.commodities, server),
         cargo |-> cargo_input, ship |-> text.ship] \in Callbacks
    BY FoundAreRows DEF Shape, Callbacks, Texts, Ships
  <2>2. queue' \in Seq(Callbacks)
    BY <1>2, <2>1 DEF Finds, Later, Shape
  <2>. QED  BY <1>2, <2>2 DEF Finds, filters, results, Shape
<1>3. CASE FailsToFind(s)
  BY <1>3 DEF FailsToFind, filters, results, Shape
<1>. QED  BY <1>1, <1>2, <1>3

LEMMA NextKeepsShape == Shape /\ [Next]_vars => Shape'
<1> SUFFICES ASSUME Shape, [Next]_vars PROVE Shape'
  OBVIOUS
<1>1. CASE Pilot  BY <1>1, PilotKeepsShape
<1>2. CASE _on_sort_toggled
  <2>1. panel' \in Panels
    BY <1>2, ToggledPanel, RankedPanel DEF _on_sort_toggled, Shape
  <2>. QED  BY <1>2, <2>1 DEF _on_sort_toggled, Edits, filters, Shape
<1>3. CASE Callback  BY <1>3, CallbackKeepsShape
<1>4. CASE Answers  BY <1>4, AnswersKeepShape DEF Answers
<1>5. CASE Fetched
  BY <1>5 DEF Fetched, VolatilityCame, TimesCame, FetchFails, filters, Shape
<1>6. CASE UNCHANGED vars
  BY <1>6 DEF vars, filters, results, Shape
<1>. QED  BY <1>1, <1>2, <1>3, <1>4, <1>5, <1>6 DEF Next

-----------------------------------------------------------------------------
(* Each step keeps the lists following.                                    *)

(* Whoever empties a field or turns Space Only puts a refresh in the queue.*)
LEMMA PushedKeepsRefreshed ==
    ASSUME Shape, Refreshed, NEW c \in Callbacks, c.do # "apply", queue' = Append(queue, c), seen' = seen,
           \/ c.do = "refresh"
           \/ \A view \in Views : Follows(view) => Follows(view)'
    PROVE  Refreshed'
<1>1. /\ Len(queue) \in Nat /\ DOMAIN queue = 1 .. Len(queue) /\ DOMAIN queue' = 1 .. Len(queue) + 1
      /\ queue'[Len(queue) + 1] = c /\ Len(queue) + 1 \in DOMAIN queue'
      /\ \A i \in DOMAIN queue : queue'[i] = queue[i] /\ i \in DOMAIN queue'
  BY Pushed DEF Shape
<1>2. CASE c.do = "refresh"
  BY <1>1, <1>2 DEF Refreshed
<1>3. CASE \A view \in Views : Follows(view) => Follows(view)'
  <2>1. CASE \E i \in DOMAIN queue : queue[i].do \in {"refresh", "narrow"}
    BY <1>1, <2>1 DEF Refreshed
  <2>2. CASE \E i \in DOMAIN queue : LastView(i) /\ Follows(queue[i].sees)
    <3>1. PICK i \in DOMAIN queue : LastView(i) /\ Follows(queue[i].sees)  BY <2>2
    <3>2. queue[i] \in Callbacks /\ queue[i].do = "apply"  BY <3>1 DEF LastView, Shape
    <3>3. queue[i].sees \in Views  BY <3>2 DEF Callbacks
    <3>4. i \in DOMAIN queue' /\ queue'[i] = queue[i] /\ Follows(queue[i].sees)'
      BY <1>1, <1>3, <3>1, <3>3
    <3>5. LastView(i)'  BY <1>1, <3>1, <3>4 DEF LastView
    <3>. QED  BY <3>4, <3>5 DEF Refreshed, Follows
  <2>3. CASE Follows(seen) /\ \A i \in DOMAIN queue : queue[i].do # "apply"
    <3>1. Follows(seen)'  BY <1>3, <2>3 DEF Shape, Follows
    <3>2. \A i \in DOMAIN queue' : queue'[i].do # "apply"
      BY <1>1, <2>3
    <3>. QED  BY <3>1, <3>2 DEF Refreshed
  <2>. QED  BY <2>1, <2>2, <2>3 DEF Refreshed
<1>. QED  BY <1>2, <1>3

LEMMA StayRefreshed ==
    ASSUME Shape, Refreshed, queue' = queue, seen' = seen,
           \A view \in Views : Follows(view) => Follows(view)'
    PROVE  Refreshed'
<1>1. CASE \E i \in DOMAIN queue : queue[i].do \in {"refresh", "narrow"}
  BY <1>1 DEF Refreshed
<1>2. CASE \E i \in DOMAIN queue : LastView(i) /\ Follows(queue[i].sees)
  <2>1. PICK i \in DOMAIN queue : LastView(i) /\ Follows(queue[i].sees)  BY <1>2
  <2>2. queue[i] \in Callbacks /\ queue[i].do = "apply"  BY <2>1 DEF LastView, Shape
  <2>3. queue[i].sees \in Views  BY <2>2 DEF Callbacks
  <2>4. Follows(queue[i].sees)'  BY <2>1, <2>3 DEF Follows
  <2>. QED  BY <2>1, <2>4 DEF LastView, Refreshed
<1>3. CASE Follows(seen) /\ \A i \in DOMAIN queue : queue[i].do # "apply"
  BY <1>3 DEF Refreshed, Shape, Follows
<1>. QED  BY <1>1, <1>2, <1>3 DEF Refreshed

(* A callback that has nothing to do with the lists runs.                  *)
LEMMA PoppedKeepsRefreshed ==
    ASSUME Shape, Refreshed, queue # <<>>, queue' = Tail(queue), UNCHANGED <<seen, text, toggles>>,
           Head(queue).do \notin {"refresh", "narrow", "apply"}
    PROVE  Refreshed'
<1>1. /\ Head(queue) = queue[1] /\ 1 \in DOMAIN queue /\ Len(queue) \in Nat
      /\ DOMAIN queue = 1 .. Len(queue) /\ DOMAIN queue' = 1 .. Len(queue) - 1
      /\ \A i \in DOMAIN queue' : queue'[i] = queue[i + 1] /\ i + 1 \in DOMAIN queue
      /\ \A i \in DOMAIN queue : i # 1 => i - 1 \in DOMAIN queue' /\ queue'[i - 1] = queue[i]
  BY Popped DEF Shape
<1>2. \A view : Follows(view) => Follows(view)'  BY DEF Follows
<1>3. CASE \E i \in DOMAIN queue : queue[i].do \in {"refresh", "narrow"}
  BY <1>1, <1>3 DEF Refreshed
<1>4. CASE \E i \in DOMAIN queue : LastView(i) /\ Follows(queue[i].sees)
  <2>1. PICK i \in DOMAIN queue : LastView(i) /\ Follows(queue[i].sees)  BY <1>4
  <2>2. i - 1 \in DOMAIN queue' /\ queue'[i - 1] = queue[i]  BY <1>1, <2>1 DEF LastView
  <2>3. LastView(i - 1)'  BY <1>1, <2>1, <2>2 DEF LastView
  <2>4. Follows(queue[i - 1].sees)'  BY <2>1, <2>2 DEF Follows
  <2>. QED  BY <2>2, <2>3, <2>4 DEF Refreshed
<1>5. CASE Follows(seen) /\ \A i \in DOMAIN queue : queue[i].do # "apply"
  BY <1>1, <1>5 DEF Refreshed, Follows
<1>. QED  BY <1>3, <1>4, <1>5 DEF Refreshed

LEMMA PilotKeepsRefreshed ==
    ASSUME Shape, Refreshed, Pilot
    PROVE  Refreshed'
<1>1. ASSUME NEW f \in {"commodity", "source", "destination"}, Types(f) \/ Picks(f)
      PROVE  Refreshed'
  <2>1. CASE queue' = Append(queue, [do |-> "refresh"])
    BY <1>1, <2>1, Commands, PushedKeepsRefreshed DEF Types, Picks
  <2>2. CASE queue' = queue /\ text'[f] # Empty
    <3>1. text' = [text EXCEPT ![f] = text'[f]] /\ toggles' = toggles
      BY <1>1 DEF Types, Picks, Shape, Texts
    <3>2. \A view \in Views : Follows(view) => Follows(view)'
      BY <2>2, <3>1 DEF Follows, Shape, Texts
    <3>. QED  BY <1>1, <2>2, <3>2, StayRefreshed DEF Types, Picks
  <2>. QED  BY <1>1, <2>1, <2>2 DEF Types, Picks, _on_field_edited, Refreshes, Later
<1>2. CASE Toggles
  <2>1. CASE queue' = Append(queue, [do |-> "refresh"])
    BY <1>2, <2>1, Commands, PushedKeepsRefreshed DEF Toggles
  <2>2. CASE queue' = queue
    <3>1. PICK t \in {"space", "autoload", "nqa"} :
            /\ toggles' = SymDiff(toggles, {t})
            /\ IF t = "space" THEN Refreshes ELSE UNCHANGED queue
      BY <1>2 DEF Toggles
    <3>2. t # "space"
      BY <2>2, <3>1, Commands, Pushed DEF Refreshes, Later, Shape
    <3>3. "space" \in toggles' <=> "space" \in toggles
      BY <3>1, <3>2 DEF SymDiff
    <3>4. \A view \in Views : Follows(view) => Follows(view)'
      BY <1>2, <3>3 DEF Toggles, Follows
    <3>. QED  BY <1>2, <2>2, <3>4, StayRefreshed DEF Toggles
  <2>. QED  BY <1>2, <2>1, <2>2 DEF Toggles, Refreshes, Later
<1>3. CASE PicksShip
  <2>1. /\ \A f \in {"commodity", "source", "destination"} : text'[f] = text[f]
        /\ toggles' = toggles
    BY <1>3 DEF PicksShip, Shape, Texts
  <2>2. \A view \in Views : Follows(view) => Follows(view)'
    BY <2>1 DEF Follows
  <2>. QED  BY <1>3, <2>2, StayRefreshed DEF PicksShip
<1>4. CASE Clicks
  <2>1. budget.searches \in Nat /\ queue' = Append(queue, [do |-> "search", no |-> budget.searches])
    BY <1>4 DEF Clicks, Later, Shape
  <2>2. \A view \in Views : Follows(view) => Follows(view)'
    BY <1>4 DEF Clicks, filters, Follows
  <2>. QED  BY <1>4, <2>1, <2>2, Commands, PushedKeepsRefreshed DEF Clicks
<1>. QED  BY <1>1, <1>2, <1>3, <1>4 DEF Pilot

LEMMA CallbackKeepsRefreshed ==
    ASSUME Shape, Refreshed, Callback
    PROVE  Refreshed'
<1>0. queue # <<>> /\ Tail(queue) \in Seq(Callbacks) /\ Head(queue) \in Callbacks
  BY Popped DEF Shape, Callback, StartsRefresh, Narrows, Applies, StartsSearch, SetsRoutes, Runs
<1>1. CASE StartsRefresh
  <2>1. queue' = Append(Cancelled(Tail(queue)), [do |-> "narrow"])
    BY <1>1 DEF StartsRefresh
  <2>2. Cancelled(Tail(queue)) \in Seq(Callbacks)
    BY <1>0, CancelledIsQueue
  <2>3. \E i \in DOMAIN queue' : queue'[i].do = "narrow"
    BY <2>1, <2>2, Commands, Pushed
  <2>. QED  BY <2>3 DEF Refreshed
<1>2. CASE Narrows
  <2>1. queue' = Append(Tail(queue), [do |-> "apply", sees |-> Sees]) /\ UNCHANGED <<text, toggles>>
    BY <1>2 DEF Narrows, Then, filters
  <2>2. Sees \in Views /\ [do |-> "apply", sees |-> Sees] \in Callbacks
    <3>1. Sees \in Views  BY DEF Shape, Sees, Views
    <3>. QED  BY <3>1, Commands
  <2>3. \E i \in DOMAIN queue' : /\ queue'[i] = [do |-> "apply", sees |-> Sees]
                                 /\ \A j \in DOMAIN queue' : j <= i
    BY <1>0, <2>1, <2>2, Pushed
  <2>4. PICK i \in DOMAIN queue' : /\ queue'[i] = [do |-> "apply", sees |-> Sees]
                                   /\ \A j \in DOMAIN queue' : j <= i
    BY <2>3
  <2>5. LastView(i)' /\ queue'[i].sees = Sees
    BY <2>4 DEF LastView
  <2>6. Follows(queue[i].sees)'
    BY <2>1, <2>5 DEF Follows, Sees
  <2>. QED  BY <2>5, <2>6 DEF Refreshed
<1>3. CASE Applies
  <2>1. /\ seen' = Head(queue).sees /\ queue' = Tail(queue) /\ UNCHANGED <<text, toggles>>
        /\ Head(queue).do = "apply"
    BY <1>3 DEF Applies, Runs, filters
  <2>2. /\ Head(queue) = queue[1] /\ 1 \in DOMAIN queue /\ Len(queue) \in Nat
        /\ DOMAIN queue = 1 .. Len(queue) /\ DOMAIN queue' = 1 .. Len(queue) - 1
        /\ \A i \in DOMAIN queue' : queue'[i] = queue[i + 1] /\ i + 1 \in DOMAIN queue
        /\ \A i \in DOMAIN queue : i # 1 => i - 1 \in DOMAIN queue' /\ queue'[i - 1] = queue[i]
    BY <1>0, <2>1, Popped DEF Shape
  <2>3. CASE \E i \in DOMAIN queue : queue[i].do \in {"refresh", "narrow"}
    BY <2>1, <2>2, <2>3 DEF Refreshed
  <2>4. ASSUME NEW i \in DOMAIN queue, LastView(i), Follows(queue[i].sees)
        PROVE  Refreshed'
    <3>1. CASE i = 1
      <4>1. Follows(seen)'  BY <2>1, <2>2, <2>4, <3>1 DEF Follows
      <4>2. \A k \in DOMAIN queue' : queue'[k].do # "apply"
        <5>1. \A k \in DOMAIN queue' : ~(k + 1 <= 1)  BY <2>2
        <5>. QED  BY <2>2, <2>4, <3>1, <5>1 DEF LastView
      <4>. QED  BY <4>1, <4>2 DEF Refreshed
    <3>2. CASE i # 1
      <4>1. i - 1 \in DOMAIN queue' /\ queue'[i - 1] = queue[i]  BY <2>2, <3>2
      <4>2. LastView(i - 1)'  BY <2>2, <2>4, <4>1 DEF LastView
      <4>3. Follows(queue[i - 1].sees)'  BY <2>1, <2>4, <4>1 DEF Follows
      <4>. QED  BY <4>1, <4>2, <4>3 DEF Refreshed
    <3>. QED  BY <3>1, <3>2
  <2>5. ~ \A i \in DOMAIN queue : queue[i].do # "apply"
    BY <2>1, <2>2
  <2>. QED  BY <2>3, <2>4, <2>5 DEF Refreshed
<1>4. CASE StartsSearch
  BY <1>0, <1>4, PoppedKeepsRefreshed DEF StartsSearch, Runs, filters
<1>5. CASE SetsRoutes
  BY <1>0, <1>5, PoppedKeepsRefreshed DEF SetsRoutes, Runs, filters
<1>. QED  BY <1>1, <1>2, <1>3, <1>4, <1>5 DEF Callback

LEMMA NextKeepsRefreshed == Shape /\ Refreshed /\ [Next]_vars => Refreshed'
<1> SUFFICES ASSUME Shape, Refreshed, [Next]_vars PROVE Refreshed'
  OBVIOUS
<1>0. UNCHANGED <<text, toggles>> => \A view \in Views : Follows(view) => Follows(view)'
  BY DEF Follows
<1>1. CASE Pilot  BY <1>1, PilotKeepsRefreshed
<1>2. CASE Callback  BY <1>2, CallbackKeepsRefreshed
<1>3. CASE _on_sort_toggled \/ Fetched \/ UNCHANGED vars
  <2>1. UNCHANGED <<text, toggles, queue, seen>>
    BY <1>3 DEF _on_sort_toggled, Fetched, VolatilityCame, TimesCame, FetchFails, vars, filters
  <2>. QED  BY <1>0, <2>1, StayRefreshed
<1>4. ASSUME NEW s \in searches, MapAnswered(s) \/ FailsToFind(s)  PROVE Refreshed'
  <2>1. UNCHANGED <<text, toggles, queue, seen>>
    BY <1>4 DEF MapAnswered, FailsToFind, filters
  <2>. QED  BY <1>0, <2>1, StayRefreshed
<1>5. ASSUME NEW s \in searches, Finds(s)  PROVE Refreshed'
  <2>1. PICK c \in Callbacks : c.do = "set_routes" /\ queue' = Append(queue, c)
    <3>1. [do |-> "set_routes", routes |-> _search_routes(s.ask, s.commodities, server),
           cargo |-> cargo_input, ship |-> text.ship] \in Callbacks
      BY FoundAreRows DEF Shape, Callbacks, Texts, Ships
    <3>. QED  BY <1>5, <3>1 DEF Finds, Later
  <2>2. UNCHANGED <<text, toggles, seen>>  BY <1>5 DEF Finds, filters
  <2>. QED  BY <1>0, <2>1, <2>2, PushedKeepsRefreshed
<1>. QED  BY <1>1, <1>2, <1>3, <1>4, <1>5 DEF Next, Answers

-----------------------------------------------------------------------------
(* Each step keeps what the searches ask for.                              *)

LEMMA SameSearches ==
    ASSUME SearchesAsk, server' = server, searches' \subseteq searches
    PROVE  SearchesAsk'
BY DEF SearchesAsk, IsSearch

LEMMA AskIsTyped == ASSUME Shape PROVE Ask \in Asks
BY DEF Shape, Ask, Asks, Texts

LEMMA AwaitsAreSearches ==
    ASSUME NEW no, NEW ask \in Asks, NEW m,
           find_commodity(ask.commodity) \cup _scope_ids(ask.source) \cup _scope_ids(ask.destination) # {}
    PROVE  IsSearch(AwaitsMap(no, ask)) /\ IsSearch(AwaitsRows(no, ask, m))
BY DEF IsSearch, AwaitsMap, AwaitsRows

LEMMA NextKeepsSearches == Shape /\ SearchesAsk /\ [Next]_vars => SearchesAsk'
<1> SUFFICES ASSUME Shape, SearchesAsk, [Next]_vars PROVE SearchesAsk'
  OBVIOUS
<1>1. CASE Pilot \/ _on_sort_toggled \/ Fetched \/ UNCHANGED vars
  <2>1. UNCHANGED <<server, searches>>
    BY <1>1 DEF Pilot, Types, Picks, Toggles, PicksShip, Clicks, _on_sort_toggled, Fetched, VolatilityCame,
                TimesCame, FetchFails, vars
  <2>. QED  BY <2>1, SameSearches
<1>2. CASE StartsRefresh \/ Narrows \/ Applies \/ SetsRoutes
  <2>1. UNCHANGED <<server, searches>>
    BY <1>2 DEF StartsRefresh, Narrows, Applies, SetsRoutes
  <2>. QED  BY <2>1, SameSearches
<1>3. CASE StartsSearch
  <2>1. server' = server  BY <1>3 DEF StartsSearch
  <2>2. CASE NothingSet
    BY <1>3, <2>1, <2>2, SameSearches DEF StartsSearch
  <2>3. CASE ~NothingSet
    <3>1. find_commodity(Ask.commodity) \cup _scope_ids(Ask.source) \cup _scope_ids(Ask.destination) # {}
      BY <2>3 DEF NothingSet, Ask
    <3>2. PICK no : searches' \subseteq searches \cup {AwaitsMap(no, Ask), AwaitsRows(no, Ask, map)}
      BY <1>3, <2>3 DEF StartsSearch
    <3>3. \A s \in searches' : IsSearch(s)
      BY <3>1, <3>2, AskIsTyped, AwaitsAreSearches DEF SearchesAsk
    <3>. QED  BY <2>1, <3>3 DEF SearchesAsk, IsSearch
  <2>. QED  BY <2>2, <2>3
<1>4. ASSUME NEW s \in searches, MapAnswered(s)  PROVE SearchesAsk'
  <2>1. server' = server /\ IsSearch(s)
    BY <1>4 DEF MapAnswered, SearchesAsk
  <2>2. PICK m : searches' = (searches \ {s}) \cup {AwaitsRows(s.no, s.ask, m)}
    BY <1>4 DEF MapAnswered
  <2>3. IsSearch(AwaitsRows(s.no, s.ask, m))
    BY <2>1, AwaitsAreSearches DEF IsSearch
  <2>. QED  BY <2>1, <2>2, <2>3 DEF SearchesAsk, IsSearch
<1>5. ASSUME NEW s \in searches, Finds(s) \/ FailsToFind(s)  PROVE SearchesAsk'
  <2>1. server' = server /\ searches' \subseteq searches
    BY <1>5 DEF Finds, FailsToFind
  <2>. QED  BY <2>1, SameSearches
<1>. QED  BY <1>1, <1>2, <1>3, <1>4, <1>5 DEF Next, Callback, Answers

-----------------------------------------------------------------------------
(* Each step keeps the rows those of the last search.                      *)

Listed == FetchesAreRanked /\ RowsAreOfLastSearch

LEMMA RenderedAreRanked ==
    ASSUME NEW p, NEW times, NEW volatility, NEW rows,
           shown' = render_routes(rows, p, times, volatility),
           rows = Ranked(p.routes, p.by_margin, p.cargo),
           panel'.by_margin = p.by_margin, panel'.ship = p.ship, panel'.cargo = p.cargo,
           panel'.routes = p.routes
    PROVE  RowsAreOfLastSearch'
<1> DEFINE ranked == Ranked(p.routes, p.by_margin, p.cargo)
<1>1. Ranked(panel.routes, panel.by_margin, panel.cargo)' = ranked
  OBVIOUS
<1>2. shown'.by_margin = p.by_margin /\ shown'.ship = p.ship /\ shown'.cargo = p.cargo
  BY DEF render_routes
<1>3. shown'.rows = [i \in DOMAIN ranked |-> _build_route_row(ranked[i], p, times, volatility)]
  BY DEF render_routes
<1>4. DOMAIN shown'.rows = DOMAIN ranked /\ \A i \in DOMAIN ranked : shown'.rows[i].route = ranked[i]
  BY <1>3 DEF _build_route_row
<1>. QED  BY <1>1, <1>2, <1>4 DEF RowsAreOfLastSearch

LEMMA SameListed ==
    ASSUME Listed, panel' = panel, fetches' \subseteq fetches,
           shown' = shown \/ shown'.kind # "rows"
    PROVE  Listed'
<1>1. FetchesAreRanked'
  BY DEF Listed, FetchesAreRanked, IsFetch
<1>2. RowsAreOfLastSearch'
  BY DEF Listed, RowsAreOfLastSearch
<1>. QED  BY <1>1, <1>2 DEF Listed

(* Whatever is ranked supersedes every fetch.                              *)
LEMMA FetchesAreSuperseded ==
    ASSUME Shape, FetchesAreRanked, panel'.ranked = panel.ranked + 1, NEW f \in fetches
    PROVE  IsFetch(f)'
<1>1. panel.ranked \in Nat /\ f.ranked \in 0 .. panel.ranked
      /\ f = [rows |-> f.rows, ship |-> f.ship, ranked |-> f.ranked, pc |-> f.pc]
  BY DEF Shape, Panels, FetchesAreRanked, IsFetch
<1>. QED  BY <1>1 DEF IsFetch

LEMMA SetsRoutesKeepsListed ==
    ASSUME Shape, Listed, SetsRoutes
    PROVE  Listed'
<1>a. PICK emitted : emitted = Head(queue)
  OBVIOUS
<1>b. PICK p : p = [panel EXCEPT !.routes = emitted.routes, !.cargo = emitted.cargo, !.ship = emitted.ship]
  OBVIOUS
<1>c. PICK f : f = [rows |-> Ranked(p.routes, p.by_margin, p.cargo), ship |-> p.ship, ranked |-> p.ranked + 1,
                    pc |-> "volatility"]
  OBVIOUS
<1>d. PICK g : g = [f EXCEPT !.pc = "times"]
  OBVIOUS
<1>1. /\ _render_ranked(p) /\ fetches' \subseteq fetches \cup {f, g}
  BY <1>a, <1>b, <1>c, <1>d DEF SetsRoutes
<1>2. p \in Panels /\ p.ranked = panel.ranked
  <2>1. emitted \in Callbacks /\ emitted.do = "set_routes"
    BY <1>a, Popped DEF Shape, SetsRoutes, Runs
  <2>2. emitted.routes \in SUBSET UNION KnownRows /\ emitted.cargo \in Nat /\ emitted.ship \in Ships
    BY <2>1 DEF Callbacks
  <2>3. p.ranked = panel.ranked  BY <1>b DEF Shape, Panels
  <2>. QED  BY <1>b, <2>2, <2>3, EmittedPanel DEF Shape
<1>3. /\ f = [rows |-> f.rows, ship |-> f.ship, ranked |-> f.ranked, pc |-> f.pc]
      /\ g = [rows |-> g.rows, ship |-> g.ship, ranked |-> g.ranked, pc |-> g.pc]
      /\ \A k \in {f, g} : k.rows = Ranked(p.routes, p.by_margin, p.cargo) /\ k.ranked = p.ranked + 1
  BY <1>c, <1>d
<1>4. /\ panel'.ranked = p.ranked + 1 /\ panel'.routes = p.routes /\ panel'.cargo = p.cargo
      /\ panel'.ship = p.ship /\ panel'.by_margin = p.by_margin /\ p.ranked \in Nat
  BY <1>1, <1>2, RankedPanel DEF Panels
<1>5. RowsAreOfLastSearch'
  BY <1>1, <1>4, RenderedAreRanked DEF _render_ranked
<1>6. IsFetch(f)' /\ IsFetch(g)'
  <2>1. Ranked(panel.routes, panel.by_margin, panel.cargo)' = Ranked(p.routes, p.by_margin, p.cargo)
    BY <1>4
  <2>2. \A k \in {f, g} : k.ranked \in 0 .. panel'.ranked  BY <1>3, <1>4
  <2>. QED  BY <1>3, <2>1, <2>2 DEF IsFetch
<1>7. \A k \in fetches : IsFetch(k)'
  BY <1>2, <1>4, FetchesAreSuperseded DEF Listed
<1>. QED  BY <1>1, <1>5, <1>6, <1>7 DEF Listed, FetchesAreRanked

LEMMA FetchedKeepsListed ==
    ASSUME Shape, Listed, NEW f \in fetches, VolatilityCame(f) \/ TimesCame(f) \/ FetchFails(f)
    PROVE  Listed'
<1>0. panel' = panel /\ IsFetch(f)
  BY DEF VolatilityCame, TimesCame, FetchFails, Listed, FetchesAreRanked
<1>1. CASE FetchFails(f)
  BY <1>0, <1>1, SameListed DEF FetchFails
<1>2. CASE Awaits(f, "times") /\ shown' = shown
  <2>1. IsFetch([f EXCEPT !.pc = "times"])'
    <3>1. [f EXCEPT !.pc = "times"] = [rows |-> f.rows, ship |-> f.ship, ranked |-> f.ranked, pc |-> "times"]
      BY <1>0 DEF IsFetch
    <3>. QED  BY <1>0, <3>1 DEF IsFetch
  <2>2. \A k \in fetches : IsFetch(k)'
    BY <1>0 DEF Listed, FetchesAreRanked, IsFetch
  <2>3. RowsAreOfLastSearch'
    BY <1>0, <1>2 DEF Listed, RowsAreOfLastSearch
  <2>. QED  BY <1>2, <2>1, <2>2, <2>3 DEF Awaits, Listed, FetchesAreRanked
<1>3. CASE EndsFetch(f)
  <2>1. CASE Superseded(f, panel)
    BY <1>0, <1>3, <2>1, SameListed DEF EndsFetch
  <2>2. CASE ~Superseded(f, panel)
    <3>1. f.rows = Ranked(panel.routes, panel.by_margin, panel.cargo)
      BY <1>0, <2>2 DEF Superseded, IsFetch
    <3>2. RowsAreOfLastSearch'
      BY <1>0, <1>3, <2>2, <3>1, RenderedAreRanked DEF EndsFetch
    <3>3. FetchesAreRanked'
      BY <1>0, <1>3 DEF EndsFetch, Listed, FetchesAreRanked, IsFetch
    <3>. QED  BY <3>2, <3>3 DEF Listed
  <2>. QED  BY <2>1, <2>2
<1>. QED  BY <1>1, <1>2, <1>3 DEF VolatilityCame, TimesCame

LEMMA NextKeepsListed == Shape /\ Listed /\ [Next]_vars => Listed'
<1> SUFFICES ASSUME Shape, Listed, [Next]_vars PROVE Listed'
  OBVIOUS
<1>1. CASE \/ Pilot \/ Answers \/ UNCHANGED vars
           \/ StartsRefresh \/ Narrows \/ Applies \/ StartsSearch
  <2>1. panel' = panel /\ fetches' = fetches /\ (shown' = shown \/ shown' = Message)
    BY <1>1 DEF Pilot, Types, Picks, Toggles, PicksShip, Clicks, Answers, MapAnswered, Finds, FailsToFind,
                StartsRefresh, Narrows, Applies, StartsSearch, vars, results
  <2>2. Message.kind # "rows"  BY DEF Message
  <2>. QED  BY <2>1, <2>2, SameListed
<1>2. CASE SetsRoutes  BY <1>2, SetsRoutesKeepsListed
<1>3. CASE Fetched  BY <1>3, FetchedKeepsListed DEF Fetched
<1>4. CASE _on_sort_toggled
  <2> DEFINE p == [panel EXCEPT !.by_margin = ~@]
  <2>1. _render_ranked(p) /\ fetches' = fetches  BY <1>4 DEF _on_sort_toggled
  <2>2. p \in Panels /\ p.ranked = panel.ranked
    BY ToggledPanel DEF Shape, Panels
  <2> HIDE DEF p
  <2>3. /\ panel'.ranked = p.ranked + 1 /\ panel'.routes = p.routes /\ panel'.cargo = p.cargo
        /\ panel'.ship = p.ship /\ panel'.by_margin = p.by_margin
    BY <2>1, <2>2, RankedPanel
  <2>4. RowsAreOfLastSearch'
    BY <2>1, <2>3, RenderedAreRanked DEF _render_ranked
  <2>5. \A k \in fetches : IsFetch(k)'
    BY <2>2, <2>3, FetchesAreSuperseded DEF Listed
  <2>. QED  BY <2>1, <2>4, <2>5 DEF Listed, FetchesAreRanked
<1>. QED  BY <1>1, <1>2, <1>3, <1>4 DEF Next, Callback

LEMMA InitIInv == Init => IInv
<1> SUFFICES ASSUME Init PROVE IInv
  OBVIOUS
<1>1. PICK start \in Starts :
        /\ server = start.rows /\ text = start.text /\ toggles = start.toggles /\ levels = start.levels
        /\ cargo_input = 0
        /\ map \in {Made({}, FALSE, FALSE), Made(start.rows, TRUE, TRUE), Made(start.older, TRUE, TRUE),
                    Made(start.older, TRUE, FALSE)}
        /\ seen = Sees
        /\ queue = <<>> /\ enabled = TRUE /\ searches = {}
        /\ panel = [routes |-> {}, cargo |-> 0, ship |-> Empty, by_margin |-> FALSE, ranked |-> 0]
        /\ fetches = {} /\ _travel_time_by_key = {} /\ _volatility_by_commodity = {}
        /\ shown = Nothing
        /\ budget = [searches |-> start.searches, edits |-> start.edits]
  BY DEF Init
<1>2. Shape
  <2>1. /\ \A r \in start.rows : IsRow(r)
        /\ start.text \in Texts /\ start.toggles \subseteq Flags
        /\ start.levels \in [min_source : Int, max_destination : Int]
        /\ start.searches \in Nat /\ start.edits \in Nat
    BY StartsAssumption DEF Flags
  <2>2. start.rows \in KnownRows /\ start.older \in KnownRows  BY DEF KnownRows
  <2>3. map \in Maps
    <3>1. \A rows \in KnownRows \cup {{}}, loaded, recent \in BOOLEAN : Made(rows, loaded, recent) \in Maps
      BY DEF Made, Maps
    <3>. QED  BY <1>1, <2>2, <3>1
  <2>4. seen \in Views  BY <1>1, <2>1, <2>3 DEF Sees, Views
  <2>5. panel \in Panels  BY <1>1 DEF Panels, Ships
  <2>6. queue \in Seq(Callbacks)  BY <1>1
  <2>7. budget \in [searches : Nat, edits : Nat]  BY <1>1, <2>1
  <2>. QED  BY <1>1, <2>1, <2>2, <2>3, <2>4, <2>5, <2>6, <2>7 DEF Shape
<1>3. Refreshed  BY <1>1 DEF Refreshed, Follows, Sees
<1>4. SearchesAsk /\ FetchesAreRanked  BY <1>1 DEF SearchesAsk, FetchesAreRanked
<1>5. RowsAreOfLastSearch  BY <1>1 DEF RowsAreOfLastSearch, Nothing
<1>. QED  BY <1>2, <1>3, <1>4, <1>5 DEF IInv

LEMMA Invariance == Spec => []IInv
<1>1. IInv /\ [Next]_vars => IInv'
  BY NextKeepsShape, NextKeepsRefreshed, NextKeepsSearches, NextKeepsListed DEF IInv, Listed
<1>. QED  BY <1>1, InitIInv, PTL DEF Spec

-----------------------------------------------------------------------------
(* What a search finds, and what the lists offer: lemmas about the filters.*)

LEMMA ScopeIsTerminals ==
    ASSUME NEW t \in PlaceTexts
    PROVE  /\ _scope_ids(t) \subseteq Terminals
           /\ t \in Places => _scope_ids(t) # {}
           /\ t \in Terminals => _scope_ids(t) = {t}
           /\ t \notin Places => _scope_ids(t) = {}
BY RegionsAssumption DEF _scope_ids, Places, PlaceTexts

(* Every route that is found was wanted.                                   *)
LEMMA FoundIsWanted ==
    ASSUME Shape, NEW ask \in Asks, NEW commodities,
           ask.commodity \in Commodities => commodities = {ask.commodity},
           NEW r \in _search_routes(ask, commodities, server)
    PROVE  r \in server /\ Wanted(ask, r)
<1>1. /\ r \in server /\ r.commodity \in commodities /\ IsRow(r)
      /\ _scope_ids(ask.source) # {} => r.origin \in _scope_ids(ask.source)
      /\ _scope_ids(ask.destination) # {} => r.destination \in _scope_ids(ask.destination)
      /\ ~source_sold_out(r) /\ ~destination_full(r)
      /\ r.status_origin >= ask.min_source /\ r.status_destination <= ask.max_destination
      /\ Constrained(ask, "space", ask.source) => r.origin \in SpaceTerminals
      /\ Constrained(ask, "space", ask.destination) => r.destination \in SpaceTerminals
      /\ Constrained(ask, "autoload", ask.source) => r.origin \in AutoLoadTerminals
      /\ Constrained(ask, "autoload", ask.destination) => r.destination \in AutoLoadTerminals
      /\ Constrained(ask, "nqa", ask.destination) => r.destination \in NqaTerminals
  BY DEF _search_routes, BetweenEnds, Shape
<1>2. ask.source \in PlaceTexts /\ ask.destination \in PlaceTexts
  BY DEF Asks
<1>3. /\ ask.source \in Places => r.origin \in _scope_ids(ask.source)
      /\ ask.destination \in Places => r.destination \in _scope_ids(ask.destination)
  BY <1>1, <1>2, ScopeIsTerminals
<1>4. /\ ask.source \notin Terminals => /\ "space" \in ask.toggles => r.origin \in SpaceTerminals
                                        /\ "autoload" \in ask.toggles => r.origin \in AutoLoadTerminals
      /\ ask.destination \notin Terminals =>
            /\ "space" \in ask.toggles => r.destination \in SpaceTerminals
            /\ "autoload" \in ask.toggles => r.destination \in AutoLoadTerminals
            /\ "nqa" \in ask.toggles => r.destination \in NqaTerminals
  BY <1>1 DEF Constrained
<1>5. /\ r.status_origin \notin {STATUS_OUT_OF_STOCK} \cup 0 .. ask.min_source - 1 /\ r.scu_origin > 0
      /\ r.status_destination \notin {STATUS_FULL} /\ r.scu_destination > 0
  <2>1. ask.min_source \in Int /\ r.status_origin \in Int /\ r.scu_origin \in Int /\ r.scu_destination \in Int
    BY <1>1 DEF Asks, IsRow
  <2>. QED  BY <1>1, <2>1 DEF source_sold_out, destination_full
<1>. QED  BY <1>1, <1>3, <1>4, <1>5 DEF Wanted

(* A route that is wanted is found, if its commodity is asked for.         *)
LEMMA WantedIsFound ==
    ASSUME Shape, NEW ask \in Asks, NEW commodities, NEW r \in server, Wanted(ask, r),
           r.commodity \in commodities
    PROVE  r \in _search_routes(ask, commodities, server)
<1>1. ask.source \in PlaceTexts /\ ask.destination \in PlaceTexts /\ IsRow(r)
  BY DEF Asks, Shape
<1>2. \A e \in {<<ask.source, r.origin>>, <<ask.destination, r.destination>>} :
         /\ e[1] \in Places => e[2] \in _scope_ids(e[1])
         /\ e[1] \notin Terminals => /\ "space" \in ask.toggles => e[2] \in SpaceTerminals
                                     /\ "autoload" \in ask.toggles => e[2] \in AutoLoadTerminals
  BY DEF Wanted
<1>3. /\ ask.source \in Places => r.origin \in _scope_ids(ask.source)
      /\ ask.source \notin Terminals => /\ "space" \in ask.toggles => r.origin \in SpaceTerminals
                                        /\ "autoload" \in ask.toggles => r.origin \in AutoLoadTerminals
  BY <1>2
<1>4. /\ ask.destination \in Places => r.destination \in _scope_ids(ask.destination)
      /\ ask.destination \notin Terminals =>
            /\ "space" \in ask.toggles => r.destination \in SpaceTerminals
            /\ "autoload" \in ask.toggles => r.destination \in AutoLoadTerminals
  BY <1>2
<1>5. r \in BetweenEnds({ x \in server : x.commodity \in commodities },
                        _scope_ids(ask.source), _scope_ids(ask.destination))
  BY <1>1, <1>3, <1>4, ScopeIsTerminals DEF BetweenEnds
<1>6. ~source_sold_out(r) /\ ~destination_full(r)
  BY <1>1 DEF Wanted, source_sold_out, destination_full, IsRow
<1>7. /\ Constrained(ask, "space", ask.source) => r.origin \in SpaceTerminals
      /\ Constrained(ask, "space", ask.destination) => r.destination \in SpaceTerminals
      /\ Constrained(ask, "autoload", ask.source) => r.origin \in AutoLoadTerminals
      /\ Constrained(ask, "autoload", ask.destination) => r.destination \in AutoLoadTerminals
      /\ Constrained(ask, "nqa", ask.destination) => r.destination \in NqaTerminals
  BY <1>3, <1>4 DEF Constrained, Wanted
<1>8. r.status_origin >= ask.min_source
  BY <1>1 DEF Wanted, IsRow, Asks
<1>. QED  BY <1>5, <1>6, <1>7, <1>8 DEF _search_routes, Wanted

(* The rows of a map name the commodities of every wanted route.           *)
LEMMA WantedIsOffered ==
    ASSUME Shape, NEW r \in server, NEW T
    PROVE  /\ r.origin \in T /\ ~source_sold_out(r) => r.commodity \in commodities_offered_at(build_reachability(server), T)
           /\ r.destination \in T /\ ~destination_full(r) => r.commodity \in commodities_accepted_at(build_reachability(server), T)
           /\ r.commodity \in T /\ ~source_sold_out(r) => r.origin \in terminals_selling(build_reachability(server), T)
           /\ r.commodity \in T /\ ~destination_full(r) => r.destination \in terminals_buying(build_reachability(server), T)
<1>1. r.commodity \in Commodities /\ r.origin \in Terminals /\ r.destination \in Terminals
  BY DEF Shape, IsRow
<1>2. ~source_sold_out(r) => <<r.origin, r.commodity>> \in build_reachability(server).offers
  BY DEF build_reachability
<1>3. ~destination_full(r) => <<r.destination, r.commodity>> \in build_reachability(server).accepts
  BY DEF build_reachability
<1>. QED  BY <1>1, <1>2, <1>3 DEF commodities_offered_at, commodities_accepted_at, terminals_selling, terminals_buying

LEMMA WantedGoods ==
    ASSUME Shape, NEW ask \in Asks, NEW r \in server, Wanted(ask, r)
    PROVE  /\ ~source_sold_out(r) /\ ~destination_full(r)
           /\ ask.commodity \in Commodities => r.commodity = ask.commodity
           /\ ask.source \in Places => r.origin \in _scope_ids(ask.source)
           /\ ask.destination \in Places => r.destination \in _scope_ids(ask.destination)
           /\ ask.source \notin Terminals /\ "space" \in ask.toggles => r.origin \in SpaceTerminals
           /\ ask.destination \notin Terminals /\ "space" \in ask.toggles => r.destination \in SpaceTerminals
<1>1. \A e \in {<<ask.source, r.origin>>, <<ask.destination, r.destination>>} :
         /\ e[1] \in Places => e[2] \in _scope_ids(e[1])
         /\ e[1] \notin Terminals => /\ "space" \in ask.toggles => e[2] \in SpaceTerminals
                                     /\ "autoload" \in ask.toggles => e[2] \in AutoLoadTerminals
  BY DEF Wanted
<1>2. IsRow(r)  BY DEF Shape
<1>3. ~source_sold_out(r) /\ ~destination_full(r)
  BY <1>2 DEF Wanted, source_sold_out, destination_full, IsRow
<1>. QED  BY <1>1, <1>3 DEF Wanted

LEMMA WantedIsAskedFor ==
    ASSUME Shape, NEW s, IsSearch(s), s.pc = "rows", NEW r \in server, Wanted(s.ask, r),
           s.by.rows = server \/ ~s.by.loaded \/ s.ask.commodity \in Commodities
    PROVE  r.commodity \in s.commodities
<1> DEFINE source == _scope_ids(s.ask.source)
           destination == _scope_ids(s.ask.destination)
<1>1. s.ask \in Asks /\ s.ask.source \in PlaceTexts /\ s.ask.destination \in PlaceTexts
  BY DEF IsSearch, Asks
<1>2. /\ ~source_sold_out(r) /\ ~destination_full(r)
      /\ source # {} => r.origin \in source
      /\ destination # {} => r.destination \in destination
  BY <1>1, WantedGoods, ScopeIsTerminals
<1>3. s.commodities = _commodity_ids_at_any(s.ask, s.by.loaded, build_reachability(s.by.rows), server)
  BY DEF IsSearch
<1>4. CASE s.ask.commodity \in Commodities
  BY <1>1, <1>3, <1>4, WantedGoods DEF _commodity_ids_at_any, find_commodity
<1>5. CASE s.ask.commodity \notin Commodities
  <2>1. find_commodity(s.ask.commodity) = {}  BY <1>5 DEF find_commodity
  <2>2. source # {} \/ destination # {}  BY <2>1 DEF IsSearch
  <2>3. s.commodities = IF source # {}
                        THEN IF s.by.loaded THEN commodities_offered_at(build_reachability(s.by.rows), source)
                             ELSE { x.commodity : x \in { y \in server : y.origin \in source } }
                        ELSE IF s.by.loaded THEN commodities_accepted_at(build_reachability(s.by.rows), destination)
                             ELSE { x.commodity : x \in { y \in server : y.destination \in destination } }
    BY <1>3, <2>1 DEF _commodity_ids_at_any
  <2>4. CASE s.by.loaded
    <3>1. s.by.rows = server  BY <1>5, <2>4
    <3>. QED  BY <1>2, <2>2, <2>3, <2>4, <3>1, WantedIsOffered
  <2>5. CASE ~s.by.loaded
    <3>1. source # {} => r.commodity \in { x.commodity : x \in { y \in server : y.origin \in source } }
      BY <1>2
    <3>2. destination # {} => r.commodity \in { x.commodity : x \in { y \in server : y.destination \in destination } }
      BY <1>2
    <3>. QED  BY <2>2, <2>3, <2>5, <3>1, <3>2
  <2>. QED  BY <2>4, <2>5
<1>. QED  BY <1>4, <1>5

LEMMA SearchesFindWhatWasAsked == IInv => FoundIsWhatWasAsked
<1> SUFFICES ASSUME IInv, NEW s \in searches, s.pc = "rows"
             PROVE  LET found == _search_routes(s.ask, s.commodities, server)
                        wanted == { r \in server : Wanted(s.ask, r) }
                    IN  /\ found \subseteq wanted
                        /\ s.by.rows = server \/ ~s.by.loaded \/ s.ask.commodity \in Commodities => found = wanted
  BY DEF FoundIsWhatWasAsked
<1>1. Shape /\ IsSearch(s) /\ s.ask \in Asks
  BY DEF IInv, SearchesAsk, IsSearch
<1>2. s.ask.commodity \in Commodities => s.commodities = {s.ask.commodity}
  BY <1>1 DEF IsSearch, _commodity_ids_at_any, find_commodity
<1>3. \A r \in _search_routes(s.ask, s.commodities, server) : r \in server /\ Wanted(s.ask, r)
  BY <1>1, <1>2, FoundIsWanted
<1>4. ASSUME s.by.rows = server \/ ~s.by.loaded \/ s.ask.commodity \in Commodities,
             NEW r \in server, Wanted(s.ask, r)
      PROVE  r \in _search_routes(s.ask, s.commodities, server)
  BY <1>1, <1>4, WantedIsAskedFor, WantedIsFound
<1>. QED  BY <1>3, <1>4

(* An end that is one terminal is not offered as the other end.            *)
LEMMA OneTerminalIsNoOtherEnd ==
    ASSUME NEW ids \in SUBSET Terminals, NEW this \in ids, NEW other, other # this, NEW T, other \in T
    PROVE  other \in OtherEnds(T, ids)
<1>1. IsFiniteSet(ids)
  BY RegionsAssumption, FS_Subset
<1>2. Cardinality(ids) = 1 => ids = {this}
  BY <1>1, FS_Singleton
<1>. QED  BY <1>2 DEF OtherEnds

(* The lists offer what a search with the map they were narrowed by finds. *)
LEMMA ListsOfferTheWanted ==
    ASSUME Shape, seen = Sees, seen.map.loaded, seen.map.rows = server,
           NEW r \in server, Wanted(Ask, r)
    PROVE  /\ r.commodity \in Candidates.commodity
           /\ r.origin \in Candidates.source
           /\ r.destination \in Candidates.destination
<1> DEFINE reach == build_reachability(server)
           c == find_commodity(text.commodity)
           s == _scope_ids(text.source)
           d == _scope_ids(text.destination)
<1>1. /\ Ask \in Asks /\ Ask.commodity = text.commodity /\ Ask.source = text.source
      /\ Ask.destination = text.destination /\ Ask.toggles = toggles
      /\ text.source \in PlaceTexts /\ text.destination \in PlaceTexts
  BY AskIsTyped DEF Ask, Shape, Texts
<1>2. /\ seen.text = text /\ seen.space = ("space" \in toggles)
  BY DEF Sees
<1>3. IsRow(r)  BY DEF Shape
<1>4. /\ ~source_sold_out(r) /\ ~destination_full(r)
      /\ c # {} => c = {r.commodity}
      /\ s # {} => r.origin \in s
      /\ d # {} => r.destination \in d
      /\ s = {} /\ "space" \in toggles => r.origin \in SpaceTerminals
      /\ d = {} /\ "space" \in toggles => r.destination \in SpaceTerminals
  BY <1>1, WantedGoods, ScopeIsTerminals DEF find_commodity
<1>5. r.commodity \in OfferedCommodities(reach, s, d)
  BY <1>3, <1>4, WantedIsOffered DEF OfferedCommodities, IsRow
<1>6. r.origin # r.destination /\ s \subseteq Terminals /\ d \subseteq Terminals
  BY <1>1, <1>3, ScopeIsTerminals DEF IsRow
<1>7. /\ \A T : d # {} /\ r.origin \in T => r.origin \in OtherEnds(T, d)
      /\ \A T : s # {} /\ r.destination \in T => r.destination \in OtherEnds(T, s)
  BY <1>4, <1>6, OneTerminalIsNoOtherEnd
<1>8. r.origin \in ReachableSources(reach, c, d)
  <2>1. CASE c # {}
    <3>1. r.origin \in terminals_selling(reach, c)  BY <1>4, <2>1, WantedIsOffered
    <3>. QED  BY <2>1, <3>1 DEF ReachableSources
  <2>2. CASE c = {} /\ d # {}
    <3>1. r.commodity \in commodities_accepted_at(reach, d)  BY <1>4, <2>2, WantedIsOffered
    <3>2. r.origin \in terminals_selling(reach, commodities_accepted_at(reach, d))
      BY <1>4, <3>1, WantedIsOffered
    <3>. QED  BY <1>7, <2>2, <3>2 DEF ReachableSources
  <2>3. CASE c = {} /\ d = {}
    BY <1>3, <2>3 DEF ReachableSources, IsRow
  <2>. QED  BY <2>1, <2>2, <2>3
<1>9. r.destination \in ReachableDestinations(reach, c, s)
  <2>1. CASE c # {}
    <3>1. r.destination \in terminals_buying(reach, c)  BY <1>4, <2>1, WantedIsOffered
    <3>. QED  BY <2>1, <3>1 DEF ReachableDestinations
  <2>2. CASE c = {} /\ s # {}
    <3>1. r.commodity \in commodities_offered_at(reach, s)  BY <1>4, <2>2, WantedIsOffered
    <3>2. r.destination \in terminals_buying(reach, commodities_offered_at(reach, s))
      BY <1>4, <3>1, WantedIsOffered
    <3>. QED  BY <1>7, <2>2, <3>2 DEF ReachableDestinations
  <2>3. CASE c = {} /\ s = {}
    BY <1>3, <2>3 DEF ReachableDestinations, IsRow
  <2>. QED  BY <2>1, <2>2, <2>3
<1> DEFINE sources == ReachableSources(reach, c, d)
           destinations == ReachableDestinations(reach, c, s)
<1>10. /\ Candidates.commodity = OfferedCommodities(reach, s, d)
       /\ Candidates.source = DOMAIN Regions \cup SpaceOnly(sources, seen.space, s = {}, c \cup d # {})
       /\ Candidates.destination = DOMAIN Regions \cup SpaceOnly(destinations, seen.space, d = {}, c \cup s # {})
  BY <1>2 DEF Candidates, _refresh_filters_async
<1>11. r.origin \in SpaceOnly(sources, seen.space, s = {}, c \cup d # {})
  BY <1>2, <1>4, <1>8 DEF SpaceOnly
<1>12. r.destination \in SpaceOnly(destinations, seen.space, d = {}, c \cup s # {})
  BY <1>2, <1>4, <1>9 DEF SpaceOnly
<1>. QED  BY <1>5, <1>10, <1>11, <1>12

(* A field that names an end of a wanted route is not marked.              *)
LEMMA WantedEndIsUnmarked ==
    ASSUME NEW t \in PlaceTexts, t # Letters, NEW offered, NEW reachable,
           DOMAIN Regions \subseteq offered, t \in Terminals => t \in offered
    PROVE  _apply_validation_style(t, offered, reachable) = "none"
BY DEF _apply_validation_style, PlaceTexts, Places

LEMMA ListsHideNothing == IInv => FiltersHideNothingFound
<1> SUFFICES ASSUME Shape, Quiet, seen = Sees, seen.map.loaded, seen.map.rows = server, ~NothingSet,
                    NEW r \in server, Wanted(Ask, r)
             PROVE  /\ r.commodity \in Candidates.commodity
                    /\ r.origin \in Candidates.source
                    /\ r.destination \in Candidates.destination
                    /\ _apply_validation_style(text.source, Candidates.source, Candidates.source_reachable) = "none"
                         \/ text.source = Letters
                    /\ _apply_validation_style(text.destination, Candidates.destination, Candidates.destination_reachable)
                         = "none" \/ text.destination = Letters
  BY DEF IInv, FiltersHideNothingFound
<1>1. /\ r.commodity \in Candidates.commodity /\ r.origin \in Candidates.source
      /\ r.destination \in Candidates.destination
  BY ListsOfferTheWanted
<1>2. /\ Ask \in Asks /\ Ask.source = text.source /\ Ask.destination = text.destination
      /\ text.source \in PlaceTexts /\ text.destination \in PlaceTexts
  BY AskIsTyped DEF Ask, Shape, Texts
<1>3. /\ text.source \in Terminals => text.source = r.origin
      /\ text.destination \in Terminals => text.destination = r.destination
  BY <1>2, WantedGoods, ScopeIsTerminals DEF Places
<1>4. DOMAIN Regions \subseteq Candidates.source /\ DOMAIN Regions \subseteq Candidates.destination
  BY DEF Candidates, _refresh_filters_async
<1>5. _apply_validation_style(text.source, Candidates.source, Candidates.source_reachable) = "none"
         \/ text.source = Letters
  BY <1>1, <1>2, <1>3, <1>4, WantedEndIsUnmarked
<1>6. _apply_validation_style(text.destination, Candidates.destination, Candidates.destination_reachable) = "none"
         \/ text.destination = Letters
  BY <1>1, <1>2, <1>3, <1>4, WantedEndIsUnmarked
<1>. QED  BY <1>1, <1>5, <1>6

-----------------------------------------------------------------------------
(* The theorems.                                                           *)

(* Once the refreshes have run, the lists are not narrowed by a field that *)
(* was emptied nor by a Space Only that was turned off, however edits,     *)
(* refreshes and cancelled refreshes interleave (filter_panel.py,          *)
(* refresh_filters).                                                       *)
THEOREM ListsFollow == Spec => []FiltersFollow
<1>1. IInv => FiltersFollow
  <2> SUFFICES ASSUME Shape, Refreshed, Quiet PROVE Follows(seen)
    BY DEF IInv, FiltersFollow, Follows
  <2>. QED  BY DEF Quiet, Refreshed, LastView
<1>. QED  BY <1>1, Invariance, PTL

(* Whatever is edited while a search waits for the server, it finds only   *)
(* routes that were asked for when it began, and all of them if its map is *)
(* of today's rows or it needs none (uex_lookup.py, search_routes).        *)
THEOREM SearchFindsWhatWasAsked == Spec => []FoundIsWhatWasAsked
BY SearchesFindWhatWasAsked, Invariance, PTL

(* No route a search would find is left out of the lists that the same     *)
(* rows narrowed, and no field that leads to one is marked as leading      *)
(* nowhere (filter_panel.py, _refresh_filters_async).                      *)
THEOREM NothingFoundIsHidden == Spec => []FiltersHideNothingFound
BY ListsHideNothing, Invariance, PTL

(* No time or volatility that comes late shows the rows of an earlier      *)
(* search or of another order again: the list is always the ranking of the *)
(* last routes the panel was given (results_panel.py, set_routes).         *)
THEOREM ResultsAreOfLastSearch == Spec => []RowsAreOfLastSearch
<1>1. IInv => RowsAreOfLastSearch  BY DEF IInv
<1>. QED  BY <1>1, Invariance, PTL
=============================================================================
