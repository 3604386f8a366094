---------------------------- MODULE MCLlmGateway ----------------------------
(***************************************************************************)
(* Values of the language model gateway's constants for the model checker. *)
(***************************************************************************)
EXTENDS LlmGateway, TLC

CONSTANTS c1, c2, c3, chat_model, classify_model

ChatSymmetry == Permutations(Chats)
NoFaults     == {}
=============================================================================
