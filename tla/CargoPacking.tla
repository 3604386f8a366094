---------------------------- MODULE CargoPacking ----------------------------
(***************************************************************************)
(* How full a hold gets with the containers a route can use, and with      *)
(* which boxes (tools/cargo_packing.py).  Times are in hundredths of a     *)
(* second.                                                                 *)
(***************************************************************************)
EXTENDS Integers, FiniteSetsExt, Functions, TLC

usable_container_sizes(origin_sizes, destination_sizes) == origin_sizes \cap destination_sizes

(* best[t]: the fullest load of at most t SCU *)
Best(capacity, sizes) ==
    LET best[t \in 0 .. capacity] ==
            IF t = 0 THEN 0
            ELSE Max({best[t - 1]} \cup { best[t - s] + s : s \in { x \in sizes : x <= t } })
    IN  best
max_packable_scu(capacity, sizes) ==
    IF sizes = {} \/ capacity <= 0 THEN 0 ELSE Best(capacity, sizes)[capacity]

(* a greedy fill: the largest box that still goes in *)
LargestFirst(best, sizes, t) ==
    LET fit == { s \in sizes : s <= t } IN IF fit = {} THEN {} ELSE {Max(fit)}

(* the box added last at t: of the equally good ones the largest; {}: none is *)
LastBox(best, sizes, t) ==
    LET good == { s \in sizes : s <= t /\ best[t - s] + s = best[t] } IN IF good = {} THEN {} ELSE {Max(good)}

best_container_mix(capacity, sizes) ==
    LET best == Best(capacity, sizes)
        None == [s \in sizes |-> 0]
        mix[t \in 0 .. capacity] ==      \* the boxes of the walk down from t
            IF t = 0 THEN None
            ELSE IF LastBox(best, sizes, t) = {} THEN mix[t - 1]
            ELSE LET box == Max(LastBox(best, sizes, t)) IN [mix[t - box] EXCEPT ![box] = @ + 1]
    IN  IF sizes = {} \/ capacity <= 0 THEN None ELSE mix[capacity]

SumOf(mix, weight) == FoldFunction(+, 0, [s \in DOMAIN mix |-> mix[s] * weight[s]])
ScuOf(mix) == SumOf(mix, [s \in DOMAIN mix |-> s])

DEFAULT_SECONDS_PER_CRATE == 4
DEFAULT_SIZE_MODIFIERS ==
    [s \in {1, 2, 4, 8, 16, 24, 32} |-> CASE s = 1 -> 60 [] s = 2 -> 75 [] s = 4 -> 90 [] s = 8 -> 110
                                           [] s = 16 -> 140 [] s = 24 -> 170 [] s = 32 -> 200]
estimate_transfer_time(mix) ==
    LET Modifier(s) == IF s \in DOMAIN DEFAULT_SIZE_MODIFIERS THEN DEFAULT_SIZE_MODIFIERS[s] ELSE 100
    IN  SumOf(mix, [s \in DOMAIN mix |-> DEFAULT_SECONDS_PER_CRATE * Modifier(s)])

(* what the two terminals and the hold allow; with no common size, the naive capacity *)
reachable_scu(route, cargo_scu) ==
    LET stock == Min({route.scu_origin, route.scu_destination})
        capacity == IF cargo_scu > 0 THEN Min({stock, cargo_scu}) ELSE stock
        sizes == usable_container_sizes(route.sizes_origin, route.sizes_destination)
    IN  IF sizes = {} THEN capacity ELSE max_packable_scu(capacity, sizes)

estimated_profit(route, scu) == (route.price_destination - route.price_origin) * scu
-----------------------------------------------------------------------------
(* The reference: every way of filling at most capacity SCU with boxes of these sizes. *)
Fills(capacity, sizes) == { mix \in [sizes -> 0 .. capacity] : ScuOf(mix) <= capacity }
Fullest(capacity, sizes) == Max({ ScuOf(mix) : mix \in Fills(capacity, sizes) })
=============================================================================
