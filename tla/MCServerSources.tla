-------------------------- MODULE MCServerSources ---------------------------
(***************************************************************************)
(* Three things the server gives to pilots and may fall back for: the      *)
(* voice, the prompts, the wiki's data.  They share neither state nor      *)
(* calls, so their product would show nothing their parts do not: in each  *)
(* behaviour one of them works and the other two stay as they start.       *)
(***************************************************************************)
EXTENDS Speech, Prompts, WikiCache, TLC

VARIABLE works

MCNames   == <<"alice-persona", "topic-classification", "social-reply">>
MCProcess == "t1" :> "alice" @@ "t2" :> "alice"

Init ==
    /\ works \in {"speech", "prompts", "wiki"}
    /\ SpeechInit /\ PromptsInit /\ WikiInit
    /\ works # "speech" => configured /\ up
    /\ works # "prompts" => hub_enabled /\ snapshot_good

Next ==
    /\ UNCHANGED works
    /\ \/ works = "speech" /\ SpeechNext /\ UNCHANGED <<promptVars, wikiVars>>
       \/ works = "prompts" /\ PromptsNext /\ UNCHANGED <<speechVars, wikiVars>>
       \/ works = "wiki" /\ WikiNext /\ UNCHANGED <<speechVars, promptVars>>

vars == <<speechVars, promptVars, wikiVars, works>>

(* What does not work has no fair step enabled.                            *)
Spec == Init /\ [][Next]_vars /\ SpeechFairness /\ WikiFairness
=============================================================================
