------------------------- MODULE MCConversationTurn -------------------------
(* One call per answer or both tools at a time; Tev1 is sure of routes, or *)
(* of nothing.                                                             *)
EXTENDS ConversationTurn

MCToolCalls == {<<"mark_cargo_sold">>, <<"mark_cargo_sold", "best_route">>}
MCLikelyGroups == {{}, {"timers"}}
=============================================================================
