---------------------------- MODULE RouteFilters ----------------------------
(***************************************************************************)
(* What the overlay's search filters offer and what a search finds         *)
(* (overlay/uex_lookup.py, tools/uexcorp/reachability.py and the filtering *)
(* of overlay/filter_panel.py).                                            *)
(*                                                                         *)
(* A row is a trade route as UEX sends it:                                 *)
(*    [commodity, origin, destination,                                     *)
(*     status_origin, scu_origin, status_destination, scu_destination].    *)
(* A field holds a text: empty, the name of a commodity, a terminal or a   *)
(* region, or letters that name nothing.  A set of terminals that is empty *)
(* stands for None: a region always has a terminal.                        *)
(***************************************************************************)
EXTENDS Integers, FiniteSets, SequencesExt

CONSTANTS
    Commodities,
    Terminals,       \* their nicknames
    Regions,         \* region name |-> the terminals inside
    SpaceTerminals, AutoLoadTerminals, NqaTerminals,
    Letters,         \* a text that names nothing
    STATUS_OUT_OF_STOCK, STATUS_FULL

ASSUME RegionsAssumption ==
    /\ \A name \in DOMAIN Regions : Regions[name] # {} /\ Regions[name] \subseteq Terminals
    /\ IsFiniteSet(Terminals)

Empty == ""
Places == Terminals \cup DOMAIN Regions
CommodityTexts == {Empty, Letters} \cup Commodities
PlaceTexts == {Empty, Letters} \cup Places

source_sold_out(row) == row.status_origin = STATUS_OUT_OF_STOCK \/ row.scu_origin <= 0
destination_full(row) == row.status_destination = STATUS_FULL \/ row.scu_destination <= 0
-----------------------------------------------------------------------------
(* The reachability map: what each terminal offers and accepts, from rows. *)
build_reachability(rows) ==
    [offers |-> { <<r.origin, r.commodity>> : r \in { x \in rows : ~source_sold_out(x) } },
     accepts |-> { <<r.destination, r.commodity>> : r \in { x \in rows : ~destination_full(x) } }]

commodities_offered_at(map, terminals) == { c \in Commodities : \E t \in terminals : <<t, c>> \in map.offers }
commodities_accepted_at(map, terminals) == { c \in Commodities : \E t \in terminals : <<t, c>> \in map.accepts }
terminals_selling(map, commodities) == { t \in Terminals : \E c \in commodities : <<t, c>> \in map.offers }
terminals_buying(map, commodities) == { t \in Terminals : \E c \in commodities : <<t, c>> \in map.accepts }

find_commodity(t) == {t} \cap Commodities
_scope_ids(t) == IF t \in Terminals THEN {t} ELSE IF t \in DOMAIN Regions THEN Regions[t] ELSE {}
-----------------------------------------------------------------------------
(* _refresh_filters_async: the names each field offers.  "reachable" is    *)
(* what it would offer without Space Only.                                 *)

(* a lone terminal cannot be its own other end, a region can: what the code would do without that test *)
NeverItself(terminals, ids) == terminals \ ids

(* a lone terminal cannot be its own other end, a region can *)
OtherEnds(terminals, ids) == IF Cardinality(ids) = 1 THEN terminals \ ids ELSE terminals

OfferedCommodities(map, source, destination) ==
    { c \in Commodities : /\ source # {} => c \in commodities_offered_at(map, source)
                          /\ destination # {} => c \in commodities_accepted_at(map, destination) }

ReachableSources(map, commodity, destination) ==
    IF commodity # {} THEN terminals_selling(map, commodity)
    ELSE IF destination # {}
         THEN OtherEnds(terminals_selling(map, commodities_accepted_at(map, destination)), destination)
    ELSE Terminals

ReachableDestinations(map, commodity, source) ==
    IF commodity # {} THEN terminals_buying(map, commodity)
    ELSE IF source # {}
         THEN OtherEnds(terminals_buying(map, commodities_offered_at(map, source)), source)
    ELSE Terminals

(* Space Only narrows a field that is open and that something narrows *)
SpaceOnly(reachable, space, open, driven) ==
    IF space /\ open /\ driven THEN reachable \cap SpaceTerminals ELSE reachable

_refresh_filters_async(loaded, map, text, space) ==
    LET commodity == find_commodity(text.commodity)
        source == _scope_ids(text.source)
        destination == _scope_ids(text.destination)
        commodities == IF loaded THEN OfferedCommodities(map, source, destination) ELSE Commodities
        sources == IF loaded THEN ReachableSources(map, commodity, destination) ELSE Terminals
        destinations == IF loaded THEN ReachableDestinations(map, commodity, source) ELSE Terminals
    IN  [commodity |-> commodities,
         source |-> DOMAIN Regions \cup SpaceOnly(sources, space, source = {}, commodity \cup destination # {}),
         destination |-> DOMAIN Regions
             \cup SpaceOnly(destinations, space, destination = {}, commodity \cup source # {}),
         source_reachable |-> DOMAIN Regions \cup sources,
         destination_reachable |-> DOMAIN Regions \cup destinations]

(* the border of a field: none, orange (there, but not Space Only) or red *)
_apply_validation_style(t, valid, reachable) ==
    IF t \in {Empty} \cup valid THEN "none" ELSE IF t \in reachable THEN "orange" ELSE "red"
-----------------------------------------------------------------------------
(* search_routes.  An ask is what the panel had in its fields:             *)
(* [commodity, source, destination, min_source, max_destination, toggles]. *)

(* what the fan-out asks for: the commodity; or what the source offers, or what the destination      *)
(* accepts; without a map, whatever has a price there, in stock or not                               *)
_commodity_ids_at_any(ask, loaded, map, rows) ==
    LET source == _scope_ids(ask.source)
        destination == _scope_ids(ask.destination)
    IN  IF find_commodity(ask.commodity) # {} THEN find_commodity(ask.commodity)
        ELSE IF source # {}
             THEN IF loaded THEN commodities_offered_at(map, source)
                  ELSE { r.commodity : r \in { x \in rows : x.origin \in source } }
             ELSE IF loaded THEN commodities_accepted_at(map, destination)
                  ELSE { r.commodity : r \in { x \in rows : x.destination \in destination } }

(* source first, and the destination not looked at: what the code used to do *)
SourceDecides(rows, source, destination) ==
    { r \in rows : IF source # {} THEN r.origin \in source ELSE r.destination \in destination }

BetweenEnds(rows, source, destination) ==
    { r \in rows : /\ source # {} => r.origin \in source
                   /\ destination # {} => r.destination \in destination }

(* an end that is one terminal was chosen, and is not constrained; a region is still open *)
Constrained(ask, toggle, t) == toggle \in ask.toggles /\ t \notin Terminals

_search_routes(ask, commodities, rows) ==
    { r \in BetweenEnds({ x \in rows : x.commodity \in commodities },
                        _scope_ids(ask.source), _scope_ids(ask.destination)) :
        /\ ~source_sold_out(r)
        /\ ~destination_full(r)
        /\ r.status_origin >= ask.min_source
        /\ r.status_destination <= ask.max_destination
        /\ Constrained(ask, "space", ask.source) => r.origin \in SpaceTerminals
        /\ Constrained(ask, "space", ask.destination) => r.destination \in SpaceTerminals
        /\ Constrained(ask, "autoload", ask.source) => r.origin \in AutoLoadTerminals
        /\ Constrained(ask, "autoload", ask.destination) => r.destination \in AutoLoadTerminals
        /\ Constrained(ask, "nqa", ask.destination) => r.destination \in NqaTerminals }
=============================================================================
