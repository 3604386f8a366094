--------------------------- MODULE MCSearchPanels ---------------------------
(* Three terminals in two systems, two commodities, and two kinds of start: *)
(* every way the filters can be set, for one search; and a few, for a pilot *)
(* who edits while two searches run.                                        *)
EXTENDS SearchPanels

Row(c, from, to, buy, sell, profit) ==
    [commodity |-> c, origin |-> from, destination |-> to,
     status_origin |-> buy, scu_origin |-> 6, status_destination |-> sell, scu_destination |-> 9,
     price_origin |-> 1, price_destination |-> 1 + profit, price_margin |-> 10 - profit,
     sizes_origin |-> {2, 4}, sizes_destination |-> {1, 2, 4}]

MCRegions == "Stanton" :> {"Everus", "Orison"} @@ "Pyro" :> {"Ruin"}
MCHoldOf == "Taurus" :> 5 @@ "Railen" :> 8

Laranite(from, to, buy, sell) == Row("Laranite", from, to, buy, sell, 2)
Gold(from, to, buy, sell) == Row("Gold", from, to, buy, sell, 4)
Plain == {Laranite("Everus", "Orison", 3, 2), Gold("Everus", "Ruin", 5, 6), Gold("Orison", "Ruin", 2, 3)}
Markets ==
    {Plain, {},
     {Laranite("Everus", "Orison", 1, 2), Laranite("Everus", "Ruin", 2, 2), Gold("Orison", "Everus", 3, 7),
      Gold("Ruin", "Everus", 4, 4)},
     {[Laranite("Ruin", "Orison", 2, 2) EXCEPT !.scu_origin = 0], Laranite("Ruin", "Everus", 2, 2),
      [Gold("Ruin", "Orison", 2, 2) EXCEPT !.scu_destination = 0]}}
Other(market) == IF market = Plain THEN {Laranite("Everus", "Orison", 3, 2)} ELSE Plain

Text(commodity, source, destination) ==
    [commodity |-> commodity, source |-> source, destination |-> destination, ship |-> ""]
AnyLevel == [min_source |-> 0, max_destination |-> 7]
EveryFilter ==
    { [rows |-> m, older |-> Other(m), text |-> Text(c, s, d), toggles |-> o, levels |-> l, searches |-> 1, edits |-> 0] :
        m \in Markets, c \in CommodityTexts, s \in PlaceTexts, d \in PlaceTexts,
        o \in {{}, {"space"}, {"autoload"}, {"nqa"}, {"space", "nqa"}},
        l \in {AnyLevel, [min_source |-> 3, max_destination |-> 4]} }
Busy(t, clicks, more) ==
    [rows |-> Plain, older |-> Other(Plain), text |-> t, toggles |-> {}, levels |-> AnyLevel,
     searches |-> clicks, edits |-> more]
Source == [Text("", "Everus", "") EXCEPT !.ship = "Taurus"]
BusyPilot == {Busy(Source, 2, 1), Busy(Text("Gold", "", "Ruin"), 2, 1), Busy(Source, 1, 2)}
MCStarts == EveryFilter \cup BusyPilot
=============================================================================
