---------------------------- MODULE MCReviewLoop ----------------------------
(* Two reviewed stages with the numbers of CriticPolicy: a stage with two  *)
(* rounds (modeler) and the coder, whose rerun has its own estimate.       *)
EXTENDS ReviewLoop

PolicyRounds == <<2, 2>>

PolicyRevisionCost == <<30, 18>>
=============================================================================
