----------------------------- MODULE SearchTools -----------------------------
(***************************************************************************)
(* The voice tools that search: best_route, trade_advisor and price_lookup *)
(* (tools/best_route_tool.py, tools/route_ranking.py,                      *)
(* tools/trade_run/trade_advisor_tool.py,                                  *)
(* tools/uexcorp/price_lookup_tool.py), over the names, the locations, the *)
(* packing and the travel times of the modules it extends.                 *)
(*                                                                         *)
(* A search reads the server's route cache, fetches a few more origins     *)
(* live, and ranks what came back.  Between the searches, and while one    *)
(* runs, rows expire and other pilots and the prefetch add some.           *)
(***************************************************************************)
EXTENDS TravelTime, CargoPacking

CONSTANTS
    Worlds,          \* [heard, rows, failing, dealt, asks, searches]: what is said, what UEX has,
                     \* what it fails at, who deals in what; the calls that are made, and how many
    MAX_LIVE_ROUTE_FETCHES

Speed(ship) == Get(ship, "speed")

(* a row as UEX sends it: what a terminal can sell or take may be any number *)
Routes == [origin : Terminals, destination : Terminals, commodity : OfKind("commodity"),
           price_origin : Int, price_destination : Int, scu_origin : Int, scu_destination : Int,
           sizes_origin : SUBSET (Nat \ {0}), sizes_destination : SUBSET (Nat \ {0}), ground : BOOLEAN]

ASSUME FetchesAssumption == MAX_LIVE_ROUTE_FETCHES \in Nat \ {0}
ASSUME WorldsAssumption ==
    /\ \A ship \in OfKind("ship") : Speed(ship) \in Int
    /\ \A w \in Worlds :
         /\ IsHearing(w.heard.ship) /\ IsHearing(w.heard.thing)
         /\ trade_terminals \subseteq DOMAIN w.rows /\ DOMAIN w.rows \subseteq Terminals
         /\ \A o \in DOMAIN w.rows :
              /\ w.rows[o] \in Seq(Routes)
              /\ \A i \in DOMAIN w.rows[o] : IsFiniteSet(w.rows[o][i].sizes_origin)
         /\ \A ask \in w.asks.best_route : ask.mode \in {"exact", "near", "within"}
         /\ \A run \in w.asks.trade_advisor : run.acquisition \in DOMAIN w.rows
         /\ w.asks.price_lookup \subseteq DOMAIN _KINDS_FOR_ACTION

VARIABLES
    world,       \* the member of Worlds
    cached,      \* origins with a fresh row in the server's route cache
    search,      \* the search that is running
    reply,       \* what the pilot was told last
    tokens,      \* route_cache: [route, scu, ship] of each token handed out
    searches
searchVars == <<world, cached, search, reply, tokens, searches>>

NoSearch == [step |-> "none"]
Silence == [kind |-> "none"]
SearchInit ==
    /\ world \in Worlds
    /\ cached = {}
    /\ search = NoSearch
    /\ reply = Silence
    /\ tokens = <<>>
    /\ searches = 0
-----------------------------------------------------------------------------
(* route_ranking.py: what a search keeps of a route, and the order of two *)
HasField(t, field) == Get(t, field) = TRUE
Qualifies(route, ask) ==
    /\ ask.commodity \in {Nothing, route.commodity}
    /\ route.destination # ask.not_to
    /\ ask.to = {} \/ route.destination \in ask.to
    /\ route.destination \notin ask.avoid
    /\ ask.exclude_ground => ~route.ground
    /\ ask.require_autoload => HasField(route.destination, "is_auto_load")
    /\ ask.require_nqa => HasField(route.destination, "is_nqa")

(* the ship is resolved again, from the pilot's words, among all the ships *)
estimate_travel_time(route, spoken_ship) ==
    LET ship == resolve_or_hedge(spoken_ship, OfKind("ship")).found
    IN  IF ship = Nothing THEN {}
        ELSE { trip.seconds * Speed(ship) : trip \in estimate_trip(route.origin, route.destination) }

(* a candidate with its load, profit and time in hundredths of a second; {} when it is skipped *)
Scored(route, ask, scu_of_ship) ==
    LET scu == reachable_scu(route, scu_of_ship)
        mix == best_container_mix(scu, usable_container_sizes(route.sizes_origin, route.sizes_destination))
        Time(seconds) == 2 * estimate_transfer_time(mix) + 100 * seconds
    IN  { [route |-> route, scu |-> scu, profit |-> estimated_profit(route, scu), time |-> Time(seconds)] :
             seconds \in { s \in estimate_travel_time(route, world.heard.ship) :
                             Qualifies(route, ask) /\ scu > 0 /\ Time(s) > 0 } }

Beats(a, b, rank_by) ==
    IF rank_by = "per_hour" THEN a.profit * b.time > b.profit * a.time ELSE a.profit > b.profit
BeatsAll(a, S, rank_by) == \A b \in S : Beats(a, b, rank_by)

(* a new best that lets the old one go *)
ForgetSecond(kept, a, rank_by) ==
    IF BeatsAll(a, kept.best, rank_by) THEN [kept EXCEPT !.best = {a}]
    ELSE IF BeatsAll(a, kept.runner_up, rank_by) THEN [kept EXCEPT !.runner_up = {a}] ELSE kept

(* one pass over the rows, keeping the best two *)
Consider(kept, a, rank_by) ==
    IF BeatsAll(a, kept.best, rank_by) THEN [best |-> {a}, runner_up |-> kept.best]
    ELSE IF BeatsAll(a, kept.runner_up, rank_by) THEN [kept EXCEPT !.runner_up = {a}] ELSE kept
Candidates(rows, ask, scu_of_ship) ==
    FlattenSeq([i \in DOMAIN rows |-> SetToSeq(Scored(rows[i], ask, scu_of_ship))])
find_best_route(rows, ask, scu_of_ship) ==
    FoldLeft(LAMBDA kept, a : Consider(kept, a, ask.rank_by), [best |-> {}, runner_up |-> {}],
             Candidates(rows, ask, scu_of_ship))
-----------------------------------------------------------------------------
(* _route_rows_for: the cached origins, and as many live ones as one search may fetch *)
(* the first few origins, cached or not: the others are never reached *)
SlicedFirst(ask, ship, from) ==
    LET origins == InOrder(from)
        considered == SubSeq(origins, 1, Min({MAX_LIVE_ROUTE_FETCHES, Len(origins)}))
    IN  [step |-> "fetching", ask |-> ask, ship |-> ship, origins |-> origins,
         cached |-> Only(considered, cached),
         to_fetch |-> Only(considered, Entries \ cached), fetched |-> {}, failed |-> {}]

LiveFetches(uncached) == SubSeq(uncached, 1, Min({MAX_LIVE_ROUTE_FETCHES, Len(uncached)}))
_route_rows_for(ask, ship, from) ==
    LET origins == InOrder(from)
        uncached == Only(origins, Entries \ cached)
    IN  [step |-> "fetching", ask |-> ask, ship |-> ship, origins |-> origins,
         cached |-> Only(origins, cached),
         to_fetch |-> LiveFetches(uncached), fetched |-> {}, failed |-> {}]

RowsOf(origins) == FlattenSeq([i \in DOMAIN origins |-> world.rows[origins[i]]])
MayAsk == search = NoSearch /\ searches < world.searches
Say(r) == reply' = r

(* best_route: the ship, then the origin, then the regions; then the search *)
BestRoute(ask) ==
    LET ship == resolve_cargo_ship(world.heard.ship)
        from == _resolve_origin(world.heard.place, ask.mode)
    IN  /\ MayAsk
        /\ searches' = searches + 1
        /\ IF ship.found = Nothing
           THEN Say([kind |-> "hedge", about |-> "ship"]) /\ UNCHANGED search
           ELSE IF from = {}
           THEN Say([kind |-> "hedge", about |-> "origin"]) /\ UNCHANGED search
           ELSE search' = _route_rows_for(ask, ship.found, from) /\ UNCHANGED reply
        /\ UNCHANGED <<world, cached, tokens>>

(* trade_advisor: other destinations for what is aboard, from where it was bought *)
AdvisorAsk(run) ==
    [mode |-> "exact", rank_by |-> "profit", commodity |-> run.commodity, not_to |-> run.sale,
     to |-> {}, avoid |-> {}, exclude_ground |-> FALSE, require_autoload |-> FALSE, require_nqa |-> FALSE,
     run |-> run]
TradeAdvisor(run) ==
    LET ship == resolve_cargo_ship(world.heard.ship)
    IN  /\ MayAsk
        /\ searches' = searches + 1
        /\ IF ship.found = Nothing
           THEN Say([kind |-> "hedge", about |-> "ship"]) /\ UNCHANGED search
           ELSE search' = _route_rows_for(AdvisorAsk(run), ship.found, {run.acquisition}) /\ UNCHANGED reply
        /\ UNCHANGED <<world, cached, tokens>>

(* a live fetch ends; the server caches what it brought *)
FetchEnds(o) ==
    /\ search.step = "fetching"
    /\ o \in Range(search.to_fetch) \ (search.fetched \cup search.failed)
    /\ IF o \in world.failing
       THEN search' = [search EXCEPT !.failed = @ \cup {o}] /\ UNCHANGED cached
       ELSE search' = [search EXCEPT !.fetched = @ \cup {o}] /\ cached' = cached \cup {o}
    /\ UNCHANGED <<world, reply, tokens, searches>>

Gathered == search.step = "fetching" /\ Range(search.to_fetch) = search.fetched \cup search.failed
Rows == RowsOf(search.cached \o Only(search.to_fetch, search.fetched))
Searched == Len(search.cached) + Cardinality(search.fetched)
Failed == search.failed # {} /\ Rows = <<>>
Token(a, ship) == [route |-> a.route, scu |-> a.scu, ship |-> NameOf(ship)]

Offer(result, verdict) ==
    [kind |-> "route", verdict |-> verdict, ask |-> search.ask, ship |-> search.ship, best |-> result.best,
     runner_up |-> result.runner_up, searched |-> Searched, available |-> Len(search.origins)]

(* the committed run on its own: its time may not be estimable *)
CommittedTime(run, ship) ==
    LET mix == best_container_mix(Get(ship, "scu"), run.sizes)
        committed == [origin |-> run.acquisition, destination |-> run.sale]
    IN  { 2 * estimate_transfer_time(mix) + 100 * s : s \in estimate_travel_time(committed, world.heard.ship) }
(* "still the best call" or "beats", per hour; "no comparison" when the committed time is unknown *)
Verdict(run, ship, best) ==
    LET Worse(t) == \A a \in best : a.profit * t <= run.profit * a.time
    IN  IF CommittedTime(run, ship) = {} THEN "no comparison"
        ELSE IF \A t \in CommittedTime(run, ship) : Worse(t) THEN "still the best call" ELSE "beats"

Reports ==
    LET result == find_best_route(Rows, search.ask, Get(search.ship, "scu"))
        offered == SetToSeq(result.best) \o SetToSeq(result.runner_up)
    IN  /\ Gathered
        /\ search' = NoSearch
        /\ IF Failed THEN Say([kind |-> "error"]) /\ UNCHANGED tokens
           ELSE IF "run" \in DOMAIN search.ask
           THEN Say(Offer(result, Verdict(search.ask.run, search.ship, result.best))) /\ UNCHANGED tokens
           ELSE Say(Offer(result, "none")) /\ tokens' = tokens \o [i \in DOMAIN offered |-> Token(offered[i], search.ship)]
        /\ UNCHANGED <<world, cached, searches>>

(* price_lookup: which thing, and at which terminals *)
PriceLookup(action) ==
    LET meant == resolve(world.heard.thing, action, world.dealt)
    IN  /\ MayAsk
        /\ searches' = searches + 1
        /\ Say([kind |-> "price", action |-> action, meant |-> meant,
                at |-> _filter_by_terminal_or_place(world.heard.place)])
        /\ UNCHANGED <<world, cached, search, tokens>>

(* the server's cache changes under the searches *)
Expires(o) == o \in cached /\ cached' = cached \ {o} /\ UNCHANGED <<world, search, reply, tokens, searches>>

SearchNext ==
    \/ \E ask \in world.asks.best_route : BestRoute(ask)
    \/ \E run \in world.asks.trade_advisor : TradeAdvisor(run)
    \/ \E o \in Terminals : FetchEnds(o) \/ Expires(o)
    \/ Reports
    \/ \E action \in world.asks.price_lookup : PriceLookup(action)
SearchSpec == SearchInit /\ [][SearchNext]_searchVars
-----------------------------------------------------------------------------
Swap(x, a, b) == IF x = a THEN b ELSE IF x = b THEN a ELSE x
SwapIn(S, a, b) == { Swap(e, a, b) : e \in S }
SwapHeard(h, a, b) ==
    LET Name(n) == Swap(n, NameOf(a), NameOf(b))
        At2(f) == [e \in DOMAIN f |-> f[Swap(e, a, b)]]
    IN  [h EXCEPT !.says = Name(@), !.misheard = Name(@), !.contained = SwapIn(@, a, b),
                  !.score = At2(@), !.sound = At2(@)]
OnlyOneSoNamed(e) == \A d \in Entries : NameOf(d) = NameOf(e) => d = e
SameSort(a, b) ==
    /\ a < b /\ Kind(a) = Kind(b) /\ OnlyOneSoNamed(a) /\ OnlyOneSoNamed(b)
    /\ a \in cargo_capable_vehicles <=> b \in cargo_capable_vehicles
    /\ Kind(a) = "item" => Get(a, "edition") = Get(b, "edition")

(* What a name means depends on what was heard and never on the order of   *)
(* the catalogue: were two entries of a sort heard as each other, the      *)
(* answer would be the other one.  So of two that fit equally well neither *)
(* is chosen (matching.py:241, catalog_resolution.py:157).  The order does *)
(* decide which of the candidates that fit equally well are checked, when  *)
(* there are more of them than are (catalog_resolution.py:165).            *)
ShipDependsOnWords ==
    \A a, b \in OfKind("ship") : SameSort(a, b) =>
        resolve_cargo_ship(SwapHeard(world.heard.ship, a, b)).found
            = Swap(resolve_cargo_ship(world.heard.ship).found, a, b)
WorseLeftOut(all) == \A c \in Checked(all), d \in all \ Checked(all) : c.score > d.score
ThingDependsOnWords ==
    \A a, b \in OfKind("item") :
        SameSort(a, b) /\ reply.kind = "price" /\ WorseLeftOut(_candidates(world.heard.thing, reply.action)) =>
            resolve(SwapHeard(world.heard.thing, a, b), reply.action, SwapIn(world.dealt, a, b)).chosen
                = Swap(reply.meant.chosen, a, b)
NamesDecideNotOrder == ThingDependsOnWords /\ (searches = 0 /\ world.asks.best_route # {} => ShipDependsOnWords)

(* A region that was named exactly is the region that is searched, however *)
(* well a narrower place fits the words (matching.py:651).                 *)
ExactRegionWins ==
    LET says == world.heard.place.says
    IN  says \in Names("orbit") \cup Names("system") \cup _places_in(trade_terminals)
            => terminals_within(world.heard.place, trade_terminals).name = says

Reported == Gathered /\ ~Failed /\ search' = NoSearch      \* a step that ends a search

(* What is offered first is the best of all that was searched and may be   *)
(* offered, on the measure the pilot asked for, and what is offered next   *)
(* is the best of the others (route_ranking.py:179).                       *)
BestIsBest ==
    [][ LET cands == Candidates(Rows, search.ask, Get(search.ship, "scu"))
            BestBut(i) == { k \in DOMAIN cands \ {i} :
                             \A j \in DOMAIN cands \ {i} : ~Beats(cands[j], cands[k], search.ask.rank_by) }
        IN  Reported =>
              IF cands = <<>> THEN reply'.best = {} /\ reply'.runner_up = {}
              ELSE \E i \in BestBut(0) :
                     /\ reply'.best = {cands[i]}
                     /\ reply'.runner_up = {} <=> Len(cands) = 1
                     /\ reply'.runner_up \subseteq { cands[k] : k \in BestBut(i) } ]_searchVars

(* A load that is offered is the fullest that the containers both ends     *)
(* handle can make of the hold and the stock, and its boxes add up to it   *)
(* (cargo_packing.py:15, 34).                                              *)
LoadIsFullest ==
    reply.kind = "route" => \A a \in reply.best \cup reply.runner_up :
        LET sizes == a.route.sizes_origin \cap a.route.sizes_destination
            capacity == Min({a.route.scu_origin, a.route.scu_destination, Get(reply.ship, "scu")})
        IN  sizes # {} => /\ a.scu = Fullest(capacity, sizes)
                          /\ ScuOf(best_container_mix(a.scu, sizes)) = a.scu

(* "Ask again and I'll widen the search" (best_route_tool.py:347): the     *)
(* same search made again, when nothing it saw has expired and not every   *)
(* fetch fails, sees more origins, until it has seen them all.             *)
SearchesWiden ==
    [][ Reported /\ reply.kind = "route" /\ reply.ask = search.ask
          /\ Len(search.cached) >= reply.searched /\ (search.fetched # {} \/ search.failed = {})
          => reply'.searched > reply.searched \/ reply'.searched = reply'.available ]_searchVars

(* The hold that is planned with and the speed that is reckoned with are   *)
(* of one ship (route_ranking.py:260: the search passes the words on, not  *)
(* the ship they meant).                                                   *)
OneShip ==
    reply.kind = "route" => resolve_or_hedge(world.heard.ship, OfKind("ship")).found \in {Nothing, reply.ship}
(* "By profit per hour, it is still the best call": no destination that    *)
(* was looked at earns more in the hour (trade_advisor_tool.py:137).       *)
StillTheBestCall ==
    [][ Reported /\ reply'.kind = "route" /\ reply'.verdict = "still the best call"
          => LET run == search.ask.run
             IN  \A i \in DOMAIN Candidates(Rows, search.ask, Get(search.ship, "scu")) :
                   LET a == Candidates(Rows, search.ask, Get(search.ship, "scu"))[i]
                   IN  \A t \in CommittedTime(run, search.ship) : a.profit * t <= run.profit * a.time ]_searchVars
=============================================================================
