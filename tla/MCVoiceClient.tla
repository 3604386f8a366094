--------------------------- MODULE MCVoiceClient ---------------------------
(* Two twin sticks that are connected, and one of them again; two presses; *)
(* a timer that may be restarted under its label.                          *)
EXTENDS VoiceClient
=============================================================================
