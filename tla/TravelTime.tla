----------------------------- MODULE TravelTime -----------------------------
(***************************************************************************)
(* How long a trip takes (tools/travel_time.py): the choice of the source  *)
(* of a distance, the jumps and the approaches it is made of.  Distances   *)
(* lie on a line and are small numbers; the acceleration of a ship is not  *)
(* modelled, so a time is a distance at one speed.                         *)
(***************************************************************************)
EXTENDS Locations

CONSTANTS
    Position,        \* of a place, its coordinate, where the wiki's dataset has it
    ArrivalRadius,   \* of a place with a position, where a jump to it drops out; 0: unknown
    OrbitDistance,   \* between orbits of a system, where UEX has it
    Gateway,         \* between systems: [at, point], the gateway station and its jump point
    JumpPoint,       \* between systems: a coordinate
    SpoolTime, ApproachSlowness

ASSUME TravelAssumption ==
    /\ \A n \in DOMAIN Position : Position[n] \in Int /\ ArrivalRadius[n] \in Nat
    /\ \A orbits \in DOMAIN OrbitDistance : OrbitDistance[orbits] \in Int
    /\ \A systems \in DOMAIN Gateway : Gateway[systems].at \in DOMAIN Position /\ Gateway[systems].point \in Int
    /\ \A systems \in DOMAIN JumpPoint : JumpPoint[systems] \in Int
    /\ SpoolTime \in Nat /\ ApproachSlowness \in Nat

Abs(n) == IF n < 0 THEN -n ELSE n
Between(a, b) == Abs(Position[a] - Position[b])
Clip(n) == IF n < 0 THEN 0 ELSE n

(* _TripBuilder: jumps and approaches, added up *)
NoTrip == [qt |-> 0, approach |-> 0, jumps |-> 0, seconds |-> 0, partial |-> FALSE]
add_jump(trip, distance) ==
    [trip EXCEPT !.qt = @ + Clip(distance), !.jumps = @ + 1, !.seconds = @ + Clip(distance) + SpoolTime]
add_approach(trip, distance) ==
    [trip EXCEPT !.approach = @ + Clip(distance), !.seconds = @ + ApproachSlowness * Clip(distance)]
(* within the radius nobody spools a jump *)
add_hop(trip, distance, radius) ==
    IF radius = 0 THEN add_jump(trip, distance)
    ELSE IF distance <= radius THEN add_approach(trip, distance)
    ELSE add_approach(add_jump(trip, distance - radius), radius)

(* the most specific name that is set decides *)
is_same_physical_location(o, d) ==
    LET field == IF {Get(o, "station"), Get(d, "station")} # {None} THEN "station"
                 ELSE IF {Get(o, "outpost"), Get(d, "outpost")} # {None} THEN "outpost" ELSE "city"
    IN  Get(o, field) # None /\ Get(o, field) = Get(d, field)

is_same_orbit_different_place(o, d) ==
    Get(o, "orbit") = Get(d, "orbit") /\ ~is_same_physical_location(o, d)

_location_lookup_candidates(t) == <<Get(t, "station"), Get(t, "outpost"), Get(t, "city"), Get(t, "nickname")>>
(* {} : the positions dataset has none of its names *)
_resolve_location(t) ==
    LET known == Only(_location_lookup_candidates(t), DOMAIN Position)
    IN  IF known = <<>> THEN {} ELSE {known[1]}

Trips(trip) == {trip}
NoEstimate == {}

_estimate_cross_system(o, d) ==
    LET systems == <<Get(o, "system"), Get(d, "system")>>
        back == <<systems[2], systems[1]>>
        from == CHOOSE n \in _resolve_location(o) : TRUE
        to == CHOOSE n \in _resolve_location(d) : TRUE
        gate == Gateway[systems]
        leaving ==
            IF systems \in DOMAIN Gateway
            THEN add_approach(add_jump(NoTrip, Between(from, gate.at) - ArrivalRadius[gate.at]),
                              ArrivalRadius[gate.at] + Abs(Position[gate.at] - gate.point))
            ELSE add_jump(NoTrip, Abs(Position[from] - JumpPoint[systems]))
        whole == add_hop(leaving, Abs(JumpPoint[back] - Position[to]), ArrivalRadius[to])
    IN  IF {} \in {_resolve_location(o), _resolve_location(d)} THEN NoEstimate
        ELSE IF systems \notin DOMAIN Gateway \cup DOMAIN JumpPoint \/ back \notin DOMAIN JumpPoint THEN NoEstimate
        ELSE Trips([whole EXCEPT !.partial = TRUE])

(* the trip as a set: {} when it cannot be estimated *)
estimate_trip(o, d) ==
    LET located == {} \notin {_resolve_location(o), _resolve_location(d)}
        from == CHOOSE n \in _resolve_location(o) : TRUE
        to == CHOOSE n \in _resolve_location(d) : TRUE
        orbits == <<Get(o, "orbit"), Get(d, "orbit")>>
    IN  CASE Get(o, "system") # Get(d, "system") -> _estimate_cross_system(o, d)
          [] Get(o, "system") = Get(d, "system") /\ is_same_physical_location(o, d) -> Trips(add_jump(NoTrip, 0))
          [] OTHER ->
               IF located THEN Trips(add_hop(NoTrip, Between(from, to), ArrivalRadius[to]))
               ELSE IF is_same_orbit_different_place(o, d) \/ orbits \notin DOMAIN OrbitDistance THEN NoEstimate
               ELSE Trips(add_hop(NoTrip, OrbitDistance[orbits], 0))

travel_time_confidence(o, d) ==
    IF Get(o, "system") # Get(d, "system") THEN "rough"
    ELSE IF is_same_physical_location(o, d) THEN "high"
    ELSE IF None \in {Get(o, "station"), Get(d, "station")} THEN "rough" ELSE "high"
=============================================================================
