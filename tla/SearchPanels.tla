---------------------------- MODULE SearchPanels ----------------------------
(***************************************************************************)
(* The Route Search tab of the overlay: the filter panel                   *)
(* (overlay/filter_panel.py) and the results panel                         *)
(* (overlay/results_panel.py), on one event loop.                          *)
(*                                                                         *)
(* A slot that is a coroutine does not run when it is called: it is put at *)
(* the end of the loop's queue.  What the pilot does comes between any two *)
(* callbacks, and what the server answers comes when it comes.             *)
(***************************************************************************)
EXTENDS RouteFilters, CargoPacking, Functions

CONSTANTS
    Starts,          \* [rows, older, text, toggles, levels, searches, edits]: what UEX has and had,
                     \* what the fields hold, and how often the pilot still clicks or edits
    HoldOf,          \* ship |-> SCU
    DISPLAYED_ROUTES

ASSUME DisplayedAssumption == DISPLAYED_ROUTES \in Nat \ {0}

Texts == [commodity : CommodityTexts, source : PlaceTexts, destination : PlaceTexts,
          ship : {Empty} \cup DOMAIN HoldOf]
IsRow(r) ==
    /\ r.commodity \in Commodities /\ {r.origin, r.destination} \subseteq Terminals /\ r.origin # r.destination
    /\ {r.status_origin, r.status_destination} \subseteq Nat /\ {r.scu_origin, r.scu_destination} \subseteq Int
ASSUME StartsAssumption ==
    \A start \in Starts :
        /\ \A r \in start.rows : IsRow(r)
        /\ start.text \in Texts /\ start.toggles \subseteq {"space", "autoload", "nqa"}
        /\ start.levels \in [min_source : Int, max_destination : Int]
        /\ {start.searches, start.edits} \subseteq Nat
ASSUME HoldAssumption == \A ship \in DOMAIN HoldOf : HoldOf[ship] \in Nat

VARIABLES
    server,          \* the rows UEX has now
    text,            \* what the fields commodity, source, destination and ship hold
    cargo_input,     \* the SCU that are set
    toggles,         \* "space", "autoload", "nqa" where they are on
    levels,          \* the least stock and the most saturation asked for
    map,             \* the reachability map: is it loaded, the rows it was made from, is it recent
    seen,            \* what the lists of candidates were last narrowed by
    queue,           \* callbacks of the loop
    enabled,         \* can the search button be clicked
    searches,        \* the searches that wait for the server
    panel,           \* last_routes, cargo_scu, ship_name, the side of the sort toggle, and how often
                     \* they were ranked (_active_sort_key is another object each time)
    fetches,         \* the set_routes calls that wait for the server
    _travel_time_by_key, _volatility_by_commodity, \* what the panel has of each
    shown,           \* the list of results
    budget           \* searches and edits that are left
filters == <<text, cargo_input, toggles, levels>>
results == <<panel, fetches, _travel_time_by_key, _volatility_by_commodity>>
vars == <<server, filters, map, seen, queue, enabled, searches, results, shown, budget>>

Nothing == [kind |-> "nothing"]
Message == [kind |-> "message"]
Made(rows, loaded, recent) == [loaded |-> loaded, rows |-> rows, recent |-> recent]
Sees == [text |-> text, space |-> "space" \in toggles, map |-> map]

(* The pilot has made these choices, and the filters have followed. *)
Init ==
    \E start \in Starts :
        /\ server = start.rows /\ text = start.text /\ toggles = start.toggles /\ levels = start.levels
        /\ cargo_input = 0
        /\ map \in {Made({}, FALSE, FALSE), Made(start.rows, TRUE, TRUE), Made(start.older, TRUE, TRUE),
                    Made(start.older, TRUE, FALSE)}
        /\ seen = Sees
        /\ queue = <<>> /\ enabled = TRUE /\ searches = {}
        /\ panel = [routes |-> {}, cargo |-> 0, ship |-> Empty, by_margin |-> FALSE, ranked |-> 0]
        /\ fetches = {} /\ _travel_time_by_key = {} /\ _volatility_by_commodity = {}
        /\ shown = Nothing
        /\ budget = [searches |-> start.searches, edits |-> start.edits]
-----------------------------------------------------------------------------
(* The pilot *)
Edits == budget.edits > 0 /\ budget' = [budget EXCEPT !.edits = @ - 1]
Later(callback) == queue' = Append(queue, callback)
Refreshes == Later([do |-> "refresh"])

(* every letter typed only colours the field: what the code would do without _on_field_edited *)
OnlyColours(field) == UNCHANGED queue
(* a field that is emptied relaxes the others; every other letter only colours its own field *)
_on_field_edited(field) == IF text'[field] = Empty THEN Refreshes ELSE UNCHANGED queue

Types(field) ==
    /\ Edits
    /\ \E t \in IF field = "commodity" THEN CommodityTexts ELSE PlaceTexts :
         t # text[field] /\ text' = [text EXCEPT ![field] = t]
    /\ _on_field_edited(field)
    /\ UNCHANGED <<server, cargo_input, toggles, levels, map, seen, enabled, searches, results, shown>>

(* what the lists offer, as they were last narrowed *)
Candidates == _refresh_filters_async(seen.map.loaded, build_reachability(seen.map.rows), seen.text, seen.space)

Picks(field) ==
    /\ Edits
    /\ \E t \in Candidates[field] : text' = [text EXCEPT ![field] = t]
    /\ Refreshes
    /\ UNCHANGED <<server, cargo_input, toggles, levels, map, seen, enabled, searches, results, shown>>

Toggles ==
    /\ Edits
    /\ \E t \in {"space", "autoload", "nqa"} :
         /\ toggles' = SymDiff(toggles, {t})
         /\ IF t = "space" THEN Refreshes ELSE UNCHANGED queue
    /\ UNCHANGED <<server, text, cargo_input, levels, map, seen, enabled, searches, results, shown>>

(* a ship that is picked sets the cargo, one that is typed or cleared does not *)
PicksShip ==
    /\ Edits
    /\ \E s \in {Empty} \cup DOMAIN HoldOf, scu \in {cargo_input} \cup Range(HoldOf) :
         /\ scu = cargo_input \/ (s # Empty /\ scu = HoldOf[s])
         /\ text' = [text EXCEPT !.ship = s] /\ cargo_input' = scu
    /\ UNCHANGED <<server, toggles, levels, map, seen, queue, enabled, searches, results, shown>>

Clicks ==
    /\ enabled /\ budget.searches > 0
    /\ budget' = [budget EXCEPT !.searches = @ - 1]
    /\ Later([do |-> "search", no |-> budget.searches])
    /\ UNCHANGED <<server, filters, map, seen, enabled, searches, results, shown>>
-----------------------------------------------------------------------------
(* The filter panel's callbacks *)
Runs(callback) == queue # <<>> /\ Head(queue).do = callback
Then(callback) == queue' = Append(Tail(queue), callback)

(* refresh_filters: the refresh that has not run yet (_refresh_task) is cancelled *)
Cancelled(q) ==
    LET waits == { i \in DOMAIN q : q[i].do = "narrow" }
    IN  IF waits = {} THEN q ELSE RemoveAt(q, CHOOSE i \in waits : TRUE)
StartsRefresh ==
    /\ Runs("refresh")
    /\ queue' = Append(Cancelled(Tail(queue)), [do |-> "narrow"])
    /\ UNCHANGED <<server, filters, map, seen, enabled, searches, results, shown, budget>>
Narrows ==
    /\ Runs("narrow")
    /\ Then([do |-> "apply", sees |-> Sees])
    /\ UNCHANGED <<server, filters, map, seen, enabled, searches, results, shown, budget>>
Applies ==
    /\ Runs("apply")
    /\ seen' = Head(queue).sees
    /\ queue' = Tail(queue)
    /\ UNCHANGED <<server, filters, map, enabled, searches, results, shown, budget>>

Ask == [commodity |-> text.commodity, source |-> text.source, destination |-> text.destination,
        min_source |-> levels.min_source, max_destination |-> levels.max_destination, toggles |-> toggles]
NothingSet == find_commodity(text.commodity) \cup _scope_ids(text.source) \cup _scope_ids(text.destination) = {}

(* a search that waits for a new map, or for the rows of the commodities that the map it has names *)
AwaitsMap(no, ask) == [no |-> no, ask |-> ask, pc |-> "map"]
AwaitsRows(no, ask, m) ==
    [no |-> no, ask |-> ask, pc |-> "rows", by |-> m,
     commodities |-> _commodity_ids_at_any(ask, m.loaded, build_reachability(m.rows), server)]

StartsSearch ==
    /\ Runs("search")
    /\ queue' = Tail(queue)
    /\ IF NothingSet
       THEN shown' = Message /\ UNCHANGED <<enabled, searches>>
       ELSE /\ enabled' = FALSE
            /\ LET no == Head(queue).no
               IN  searches' = searches \cup
                       {IF map.loaded /\ map.recent THEN AwaitsRows(no, Ask, map) ELSE AwaitsMap(no, Ask)}
            /\ UNCHANGED shown
    /\ UNCHANGED <<server, filters, map, seen, results, budget>>

(* refresh_reachability_if_stale: a map that cannot be had leaves the old one *)
MapAnswered(s) ==
    /\ s.pc = "map"
    /\ \E m \in {Made(server, TRUE, TRUE), map} :
         /\ map' = m
         /\ searches' = (searches \ {s}) \cup {AwaitsRows(s.no, s.ask, m)}
    /\ UNCHANGED <<server, filters, seen, queue, enabled, results, shown, budget>>

(* the routes, with the cargo and the ship that the fields hold by now *)
Finds(s) ==
    /\ s.pc = "rows"
    /\ searches' = searches \ {s}
    /\ enabled' = TRUE
    /\ Later([do |-> "set_routes", routes |-> _search_routes(s.ask, s.commodities, server),
              cargo |-> cargo_input, ship |-> text.ship])
    /\ UNCHANGED <<server, filters, map, seen, results, shown, budget>>

(* an error of httpx, which is no RequestException: the button is put back, and nothing is said *)
FailsToFind(s) ==
    /\ s.pc = "rows"
    /\ searches' = searches \ {s}
    /\ enabled' = TRUE
    /\ UNCHANGED <<server, filters, map, seen, queue, results, shown, budget>>
-----------------------------------------------------------------------------
(* The results panel *)
reachable_scu_for(r, cargo) == reachable_scu(r, cargo)
estimated_profit_for(r, cargo) == estimated_profit(r, reachable_scu_for(r, cargo))
SortKey(r, by_margin, cargo) == IF by_margin THEN r.price_margin ELSE estimated_profit_for(r, cargo)

(* sorted, and of that the rows that are shown *)
Sorted(routes, by_margin, cargo) ==
    SetToSortSeq(routes, LAMBDA a, b : SortKey(a, by_margin, cargo) > SortKey(b, by_margin, cargo))
Ranked(routes, by_margin, cargo) ==
    LET order == Sorted(routes, by_margin, cargo)
    IN  SubSeq(order, 1, IF Len(order) < DISPLAYED_ROUTES THEN Len(order) ELSE DISPLAYED_ROUTES)

TravelKey(r, ship) == <<r.origin, r.destination, ship>>
(* "...", or the estimate: does the row show its time? *)
TimeShown(r, p, times) == p.ship # Empty /\ TravelKey(r, p.ship) \in times
_build_route_row(r, p, times, volatility) ==
    [route |-> r, timed |-> TimeShown(r, p, times), volatility |-> r.commodity \in volatility]
render_routes(rows, p, times, volatility) ==
    [kind |-> "rows", by_margin |-> p.by_margin, cargo |-> p.cargo, ship |-> p.ship,
     rows |-> [i \in DOMAIN rows |-> _build_route_row(rows[i], p, times, volatility)]]

MissingVolatility(f) == { r.commodity : r \in Range(f.rows) } \ _volatility_by_commodity
MissingTimes(f) ==
    IF f.ship = Empty THEN {} ELSE { TravelKey(r, f.ship) : r \in Range(f.rows) } \ _travel_time_by_key

(* set_routes from an await on: what is missing is asked for; then what is shown is shown again, *)
(* if something came and nothing was ranked meanwhile                                            *)
Awaits(f, pc) == fetches' = (fetches \ {f}) \cup {[f EXCEPT !.pc = pc]}
NeverSuperseded(f, p) == FALSE
Superseded(f, p) == f.ranked # p.ranked
EndsFetch(f) ==
    /\ fetches' = fetches \ {f}
    /\ shown' = IF Superseded(f, panel) THEN shown
                ELSE render_routes(f.rows, panel, _travel_time_by_key', _volatility_by_commodity')

_render_ranked(p) ==
    /\ panel' = [p EXCEPT !.ranked = @ + 1]
    /\ shown' = render_routes(Ranked(p.routes, p.by_margin, p.cargo), p, _travel_time_by_key, _volatility_by_commodity)

SetsRoutes ==
    /\ Runs("set_routes")
    /\ queue' = Tail(queue)
    /\ LET emitted == Head(queue)
           p == [panel EXCEPT !.routes = emitted.routes, !.cargo = emitted.cargo, !.ship = emitted.ship]
           f == [rows |-> Ranked(p.routes, p.by_margin, p.cargo), ship |-> p.ship, ranked |-> p.ranked + 1, pc |-> "volatility"]
       IN  /\ _render_ranked(p)
           /\ fetches' = fetches \cup (IF MissingVolatility(f) # {} THEN {f}
                                       ELSE IF MissingTimes(f) # {} THEN {[f EXCEPT !.pc = "times"]} ELSE {})
    /\ UNCHANGED <<server, filters, map, seen, enabled, searches, _travel_time_by_key, _volatility_by_commodity, budget>>

VolatilityCame(f) ==
    /\ f.pc = "volatility"
    /\ _volatility_by_commodity' = _volatility_by_commodity \cup MissingVolatility(f)
    /\ UNCHANGED _travel_time_by_key
    /\ IF MissingTimes(f) # {} THEN Awaits(f, "times") /\ UNCHANGED shown ELSE EndsFetch(f)
    /\ UNCHANGED <<server, filters, map, seen, queue, enabled, searches, panel, budget>>

TimesCame(f) ==
    /\ f.pc = "times"
    /\ _travel_time_by_key' = _travel_time_by_key \cup MissingTimes(f)
    /\ UNCHANGED _volatility_by_commodity
    /\ EndsFetch(f)
    /\ UNCHANGED <<server, filters, map, seen, queue, enabled, searches, panel, budget>>

FetchFails(f) ==
    /\ fetches' = fetches \ {f}
    /\ UNCHANGED <<server, filters, map, seen, queue, enabled, searches, panel, _travel_time_by_key,
                   _volatility_by_commodity, shown, budget>>

_on_sort_toggled ==
    /\ Edits
    /\ _render_ranked([panel EXCEPT !.by_margin = ~@])
    /\ UNCHANGED <<server, filters, map, seen, queue, enabled, searches, fetches, _travel_time_by_key,
                   _volatility_by_commodity>>
-----------------------------------------------------------------------------
Pilot == (\E f \in {"commodity", "source", "destination"} : Types(f) \/ Picks(f)) \/ Toggles \/ PicksShip \/ Clicks
Callback == StartsRefresh \/ Narrows \/ Applies \/ StartsSearch \/ SetsRoutes
Answers == \E s \in searches : MapAnswered(s) \/ Finds(s) \/ FailsToFind(s)
Fetched == \E f \in fetches : VolatilityCame(f) \/ TimesCame(f) \/ FetchFails(f)
Next == Pilot \/ _on_sort_toggled \/ Callback \/ Answers \/ Fetched

Spec == Init /\ [][Next]_vars
(* the loop runs what is queued, and httpx gives up on a request that is not answered *)
Fairness == WF_vars(Callback) /\ WF_vars(Answers) /\ WF_vars(Fetched)
FairSpec == Spec /\ Fairness
-----------------------------------------------------------------------------
TypeOK ==
    /\ text \in Texts
    /\ toggles \subseteq {"space", "autoload", "nqa"}
    /\ \A s \in searches : s.pc = "map" \/ (s.pc = "rows" /\ s.commodities \subseteq Commodities)
    /\ panel.routes \subseteq server
    /\ \A f \in fetches : f.ranked <= panel.ranked /\ Len(f.rows) <= DISPLAYED_ROUTES
    /\ shown.kind = "rows" => Len(shown.rows) <= DISPLAYED_ROUTES

Quiet == \A i \in DOMAIN queue : queue[i].do \notin {"refresh", "narrow", "apply"}

(* The lists stop being narrowed by a field that is emptied and by Space   *)
(* Only once it is off (filter_panel.py:504), however the refreshes follow *)
(* and cancel each other.                                                  *)
FiltersFollow ==
    Quiet => /\ \A f \in {"commodity", "source", "destination"} : text[f] = Empty => seen.text[f] = Empty
             /\ seen.space = ("space" \in toggles)

(* The routes that the pilot asked for: between the ends, and at an end    *)
(* that is not one chosen terminal, as the toggles say; sold out and full  *)
(* ones never (uex_lookup.py:486).                                         *)
Wanted(ask, r) ==
    /\ ask.commodity \in Commodities => r.commodity = ask.commodity
    /\ \A e \in {<<ask.source, r.origin>>, <<ask.destination, r.destination>>} :
         /\ e[1] \in Places => e[2] \in _scope_ids(e[1])
         /\ e[1] \notin Terminals => /\ "space" \in ask.toggles => e[2] \in SpaceTerminals
                                     /\ "autoload" \in ask.toggles => e[2] \in AutoLoadTerminals
    /\ ask.destination \notin Terminals /\ "nqa" \in ask.toggles => r.destination \in NqaTerminals
    /\ r.status_origin \notin {STATUS_OUT_OF_STOCK} \cup 0 .. ask.min_source - 1 /\ r.scu_origin > 0
    /\ r.status_destination \notin {STATUS_FULL} /\ r.status_destination <= ask.max_destination
    /\ r.scu_destination > 0
(* A search that found its map as old as its rows, or needed none, finds   *)
(* exactly the routes that were asked for when it began, though the fields *)
(* have changed since (uex_lookup.py:385, and the comments of              *)
(* _search_routes on what a pinned end and a second end once did).         *)
FoundIsWhatWasAsked ==
    \A s \in searches :
        s.pc = "rows" =>
            LET found == _search_routes(s.ask, s.commodities, server)
                wanted == { r \in server : Wanted(s.ask, r) }
            IN  /\ found \subseteq wanted
                /\ s.by.rows = server \/ ~s.by.loaded \/ s.ask.commodity \in Commodities => found = wanted

(* "The filters and the results can't disagree" (reachability.py:10): what *)
(* a search would find with the map the lists were narrowed by, the lists  *)
(* offer, and they mark no field of it as leading nowhere.                 *)
FiltersHideNothingFound ==
    (Quiet /\ seen = Sees /\ seen.map.loaded /\ seen.map.rows = server /\ ~NothingSet) =>
        \A r \in { x \in server : Wanted(Ask, x) } :
            /\ r.commodity \in Candidates.commodity
            /\ r.origin \in Candidates.source
            /\ r.destination \in Candidates.destination
            /\ _apply_validation_style(text.source, Candidates.source, Candidates.source_reachable) = "none"
                 \/ text.source = Letters
            /\ _apply_validation_style(text.destination, Candidates.destination, Candidates.destination_reachable)
                 = "none" \/ text.destination = Letters

(* What is listed is the last search's, in the order and for the ship and  *)
(* cargo that the panel has (results_panel.py:222): no answer to an        *)
(* earlier search, or from before the order was changed, is shown over it. *)
RowsAreOfLastSearch ==
    shown.kind = "rows" =>
        /\ shown.by_margin = panel.by_margin /\ shown.ship = panel.ship /\ shown.cargo = panel.cargo
        /\ LET ranked == Ranked(panel.routes, panel.by_margin, panel.cargo)
           IN  /\ DOMAIN shown.rows = DOMAIN ranked
               /\ \A i \in DOMAIN ranked : shown.rows[i].route = ranked[i]

(* Whatever fails, the pilot can search again (filter_panel.py:568). *)
ButtonComesBack == [](~enabled => <>enabled)

(* Not so, and not among the runs (README):                                *)
(* "at time of search" (filter_panel.py:93): the ship the results are for  *)
(* is the one that was in the field when they were asked for.              *)
ShipIsOfTheSearch == [][\A s \in searches : text.ship' = text.ship]_vars
(* "Search failed" is said when a search fails (filter_panel.py:566). *)
FailureIsTold == [][(\E s \in searches : FailsToFind(s)) => shown' = Message]_vars
(* "loading..." (results_panel.py:425): a time that is shown as loading is *)
(* being loaded.                                                           *)
LoadingIsLoading ==
    shown.kind = "rows" /\ shown.ship # Empty =>
        \A i \in DOMAIN shown.rows :
            ~shown.rows[i].timed => \E f \in fetches : \E j \in DOMAIN f.rows : f.rows[j] = shown.rows[i].route
(* The button is there so that one search runs at a time. *)
OneSearchAtATime == Cardinality(searches) <= 1
=============================================================================
