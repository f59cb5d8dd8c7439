----------------------------- MODULE MCJobQueue -----------------------------
(* JobQueue on a small instance: a pipeline and two turns of its run.      *)
EXTENDS JobQueue

CONSTANT r1

BothTurns == [t \in Turns |-> r1]
=============================================================================
