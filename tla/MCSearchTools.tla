---------------------------- MODULE MCSearchTools ----------------------------
(***************************************************************************)
(* A small catalogue, and the worlds in which one kind of name is heard in *)
(* every way while the others are heard exactly.                           *)
(***************************************************************************)
EXTENDS SearchTools

Ship(name, scu, speed) == [name |-> name, kind |-> "ship", scu |-> scu, speed |-> speed, concept |-> FALSE]
Thing(name, kind, edition) == [name |-> name, kind |-> kind, edition |-> edition]
Terminal(name, nickname, station, city, outpost, orbit, system, type) ==
    [name |-> name, kind |-> "terminal", nickname |-> nickname, station |-> station, city |-> city,
     outpost |-> outpost, orbit |-> orbit, system |-> system, type |-> type,
     is_auto_load |-> station # None, is_nqa |-> outpost # None]

railen == 1  taurus == 2  raven == 3  laranite == 4  rifle == 5  pistol == 6  livery == 7
seraphim == 8  tdd == 9  pad == 10  mine == 11  ruin == 12
MCCatalogue == <<
    Ship("Railen", 9, 2), Ship("Taurus", 7, 1), Ship("Sabre Raven", 0, 1),
    Thing("Laranite", "commodity", "plain"), Thing("FS-9", "item", "plain"),
    Thing("P4-AR", "item", "plain"), Thing("FS-9 livery", "item", "variant"),
    Terminal("Admin - Seraphim", "Seraphim", "Seraphim", "Orison", None, "Crusader", "Stanton", "commodity"),
    Terminal("TDD Orison", "TDD", None, "Orison", None, "Crusader", "Stanton", "commodity"),
    Terminal("Landing - Orison", "Orison", None, "Orison", None, "Crusader", "Stanton", "landing"),
    Terminal("Mining Area 141", "Area 141", None, None, "Area 141", "ArcCorp", "Stanton", "commodity"),
    Terminal("Ruin Station", "Ruin", "Ruin", None, None, "Pyro VI", "Pyro", "commodity"),
    [name |-> "Crusader", kind |-> "orbit"], [name |-> "ArcCorp", kind |-> "orbit"],
    [name |-> "Daymar", kind |-> "moon", orbit |-> "Crusader"],
    [name |-> "Stanton", kind |-> "system"], [name |-> "Pyro", kind |-> "system"] >>

MCDistance == <<"Crusader", "ArcCorp">> :> 20 @@ <<"ArcCorp", "Crusader">> :> 30
MCOrbitDistance == <<"Crusader", "ArcCorp">> :> 20
MCPosition == "Seraphim" :> 2 @@ "Orison" :> 1 @@ "Ruin" :> 9 @@ "Gate" :> 6
MCArrivalRadius == "Seraphim" :> 1 @@ "Orison" :> 1 @@ "Ruin" :> 0 @@ "Gate" :> 1
MCGateway == <<"Stanton", "Pyro">> :> [at |-> "Gate", point |-> 7]
MCJumpPoint == <<"Pyro", "Stanton">> :> 12

Silent == [says |-> None, score |-> [e \in Entries |-> 0], contained |-> {},
           sound |-> [e \in Entries |-> 0], misheard |-> None,
           whole |-> [place |-> None, orbit |-> None, system |-> None]]
Exactly(e) == [Silent EXCEPT !.says = NameOf(e), !.score = [d \in Entries |-> IF d = e THEN 100 ELSE 0],
                             !.contained = {e}]
Scores(S, V) == { [e \in Entries |-> IF e \in S THEN f[e] ELSE 0] : f \in [S -> V] }
(* an entry's name, said exactly, has all its words and the best of all scores *)
Sound(h) ==
    LET said == { e \in Entries : NameOf(e) = h.says }
    IN  [h EXCEPT !.contained = @ \cup said, !.score = [e \in Entries |-> IF e \in said THEN 100 ELSE @[e]]]

Hearings(says, scores, contained, sounds, misheard, whole) ==
    { Sound(h) : h \in [says : says, score : scores, contained : contained, sound : sounds,
             misheard : misheard, whole : whole] }
Quiet == {Silent.sound}
NoWhole == {Silent.whole}

AnyShip == Hearings({None, "Railen", "Sabre Raven"}, Scores({railen, taurus, raven}, {0, 65, 80}),
                    SUBSET {railen, taurus, raven}, Scores({railen, taurus}, {0, 90}), {None, "Railen"}, NoWhole)
AnyThing == Hearings({None, "FS-9"}, Scores({laranite, rifle, pistol, livery}, {0, 65, 85}),
                     SUBSET {rifle, pistol, livery}, Quiet, {None}, NoWhole)
AnyPlace == Hearings({None, "Orison", "Crusader", "Stanton", "Mining Area 141"}, Scores({seraphim, tdd, mine}, {0, 80}),
                     SUBSET {seraphim, tdd}, Quiet, {None},
                     [place : {None, "Orison"}, orbit : {None, "Crusader"}, system : {None, "Pyro"}])

Route(o, d, buy, sell, stock, wanted, from, to) ==
    [origin |-> o, destination |-> d, commodity |-> laranite, price_origin |-> buy, price_destination |-> sell,
     scu_origin |-> stock, scu_destination |-> wanted, sizes_origin |-> from, sizes_destination |-> to,
     ground |-> d = mine]
NoRows == seraphim :> <<>> @@ tdd :> <<>> @@ mine :> <<>> @@ ruin :> <<>>
FewRows == seraphim :> <<Route(seraphim, tdd, 2, 3, 9, 8, {1, 2, 4}, {2, 4})>> @@ NoRows
Rows1 == { <<Route(seraphim, mine, 2, 3, 9, wanted, {2, 4, 8}, {4, 8})>> : wanted \in {0, 5, 9} }
Rows2 == { <<>> } \cup { <<Route(tdd, d, 2, sell, 9, 9, {2, 3}, {2, 3}), Route(tdd, mine, 2, 5, 8, 4, {1}, {1, 2})>> :
                            d \in {seraphim, ruin}, sell \in {3, 5} }
Rows3 == { <<>>, <<Route(mine, seraphim, 1, 4, 7, 9, {1, 2, 4}, {1, 4})>> }
AnyRows == { seraphim :> a @@ tdd :> b @@ mine :> c @@ ruin :> <<>> : a \in Rows1, b \in Rows2, c \in Rows3 }

Call(mode, rank_by, to, avoid, ground) ==
    [mode |-> mode, rank_by |-> rank_by, commodity |-> Nothing, not_to |-> Nothing, to |-> to, avoid |-> avoid,
     exclude_ground |-> ground, require_autoload |-> FALSE, require_nqa |-> FALSE]
Exact == Call("exact", "profit", {}, {}, FALSE)
Within == Call("within", "per_hour", {}, {ruin}, FALSE)
Near == Call("near", "profit", {seraphim, tdd}, {}, TRUE)
Run == [acquisition |-> tdd, sale |-> mine, commodity |-> laranite, profit |-> 12, sizes |-> {1}]

World(ship, place, thing, rows, failing, dealt, calls, runs, actions, n) ==
    [heard |-> [ship |-> ship, place |-> place, thing |-> thing], rows |-> rows, failing |-> failing,
     dealt |-> dealt, searches |-> n,
     asks |-> [best_route |-> calls, trade_advisor |-> runs, price_lookup |-> actions]]
ShipWorlds == { World(h, Exactly(seraphim), Silent, FewRows, {}, {}, {Exact}, {}, {}, 1) : h \in AnyShip }
ThingWorlds == { World(Silent, Silent, h, NoRows, {}, dealt, {}, {}, {"buy"}, 1) :
                    h \in AnyThing, dealt \in {{rifle, livery}, {pistol, livery}, {livery}, {laranite, rifle, pistol}} }
PlaceWorlds == { World(Exactly(taurus), h, Silent, NoRows, {}, {}, calls, {}, {"rent"}, 1) :
                    h \in AnyPlace, calls \in {{Exact}, {Near}} }
RouteWorlds == { World(Exactly(ship), [Silent EXCEPT !.says = "Stanton"], Silent, rows, failing, {},
                       {Within, Near}, {Run}, {"sell"}, 2) :
                    ship \in {railen, taurus}, rows \in AnyRows, failing \in {{}, {seraphim}, {tdd, mine}} }
MCWorlds == ShipWorlds \cup ThingWorlds \cup PlaceWorlds \cup RouteWorlds
=============================================================================
