-------------------------- MODULE MCInputPipeline --------------------------
(* Two keys, so that the second can arrive inside the first one's handler, *)
(* and four bytes of the mouse, so that a second packet begins: enough for *)
(* every handler to nest in every other.                                   *)
EXTENDS InputPipeline
=============================================================================
