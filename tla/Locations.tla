------------------------------ MODULE Locations ------------------------------
(***************************************************************************)
(* Which terminals a spoken location means (the second half of             *)
(* tools/uexcorp/matching.py).  Terminals, orbits, moons and star systems  *)
(* are entries of the catalogue; a place is the station, city or outpost   *)
(* of a terminal.  A hearing of a location also has                        *)
(*    whole      the place, orbit and star system whose name fits best as  *)
(*               a whole (_fuzzy_name), each a name or None                *)
(***************************************************************************)
EXTENDS NameMatching

CONSTANTS
    Distance,                \* Gm between orbits, where UEX knows it
    DEFAULT_NEAR_DISTANCE

Terminals == OfKind("terminal")
Get(t, field) == Catalogue[t][field]
PlacesOf(t) == {Get(t, "station"), Get(t, "city"), Get(t, "outpost")} \ {None}
_places_in(pool) == UNION { PlacesOf(t) : t \in pool }
TerminalsAt(place, pool) == { t \in pool : place \in PlacesOf(t) }
trade_terminals == { t \in Terminals : Get(t, "type") = "commodity" }

(* [name, terminals]: what the words were taken to mean, in the catalogue's spelling *)
Region(name, terminals) == [name |-> name, terminals |-> terminals]
InPlace(name, pool) == Region(name, TerminalsAt(name, pool))
InOrbit(name, pool) == Region(name, { t \in pool : Get(t, "orbit") = name })
InSystem(name, pool) == Region(name, { t \in pool : Get(t, "system") = name })
NoRegion == Region(None, {})
Names(kind) == { NameOf(e) : e \in OfKind(kind) }

(* every exact match beats every fuzzy one; within a tier, the narrower scope *)
terminals_within(h, pool) ==
    IF h.says \in _places_in(pool) THEN InPlace(h.says, pool)
    ELSE IF h.says \in Names("orbit") THEN InOrbit(h.says, pool)
    ELSE IF h.says \in Names("system") THEN InSystem(h.says, pool)
    ELSE IF h.whole.place \in _places_in(pool) THEN InPlace(h.whole.place, pool)
    ELSE IF h.whole.orbit # None THEN InOrbit(h.whole.orbit, pool)
    ELSE IF h.whole.system # None THEN InSystem(h.whole.system, pool)
    ELSE NoRegion

(* the terminal or the place that a price is asked at; unresolved: UnresolvedName is raised *)
_filter_by_terminal_or_place(h) ==
    LET place == TerminalsAt(h.says, Terminals)
        named == { t \in Terminals : h.says \in {NameOf(t), Get(t, "nickname")} }
        region == terminals_within(h, Terminals)
        match == resolve_or_hedge(h, Terminals).found
    IN  IF place # {} THEN place
        ELSE IF named # {} THEN named
        ELSE IF region # NoRegion THEN region.terminals
        ELSE IF match # Nothing THEN { t \in Terminals : NameOf(t) = NameOf(match) } ELSE {}

OrbitOfTerminal(t) == { NameOf(o) : o \in { x \in OfKind("orbit") : NameOf(x) = Get(t, "orbit") } }
OrbitOf(e) ==
    CASE Kind(e) = "orbit" -> {NameOf(e)}
      [] Kind(e) = "moon" -> {Get(e, "orbit")}
      [] Kind(e) = "terminal" -> OrbitOfTerminal(e)

(* orbit, moon, terminal; the resolver first for each, then the one best match *)
resolve_near_anchor(h) ==
    LET Resolved(kind) == LET e == resolve_or_hedge(h, OfKind(kind)).found
                          IN  IF e = Nothing THEN {} ELSE OrbitOf(e)
        Loosely(kind) == UNION { OrbitOf(e) : e \in match_by_name_or_code(h, OfKind(kind)) }
        tries == <<Resolved("orbit"), Resolved("moon"), Resolved("terminal"),
                   Loosely("orbit"), Loosely("moon"), Loosely("terminal")>>
        anchors == SelectSeq(tries, LAMBDA S : S # {})
    IN  IF anchors = <<>> THEN {} ELSE anchors[1]

Reach(anchor, orbit, far) ==
    orbit = anchor \/ (<<anchor, orbit>> \in DOMAIN Distance /\ Distance[anchor, orbit] <= far)

(* {} also when nothing is in range; the caller tells the two apart by the anchor *)
terminals_near(h, pool) ==
    { t \in pool : \E anchor \in resolve_near_anchor(h) : Reach(anchor, Get(t, "orbit"), DEFAULT_NEAR_DISTANCE) }

(* best_route: the terminals a search may start from *)
_resolve_origin(h, mode) ==
    LET exact == resolve_or_hedge(h, trade_terminals).found
        region == terminals_within(h, trade_terminals).terminals
    IN  CASE mode = "exact" -> IF exact # Nothing THEN {exact} ELSE region
          [] mode = "near" -> terminals_near(h, trade_terminals)
          [] mode = "within" -> region
=============================================================================
