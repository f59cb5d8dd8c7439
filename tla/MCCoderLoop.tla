---------------------------- MODULE MCCoderLoop ----------------------------
(* CoderLoop on a small instance: an attempt of one turn, a rerun of two.   *)
EXTENDS CoderLoop

Turns == <<1, 2>>
=============================================================================
