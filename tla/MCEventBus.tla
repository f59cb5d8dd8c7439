----------------------------- MODULE MCEventBus -----------------------------
(* EventBus on a small instance: the worker and a turn, two LLM calls, a   *)
(* token task, two gathered sources, a stream trimmed to two entries and   *)
(* three numbers.                                                          *)
EXTENDS EventBus, TLC

CallSymmetry == Permutations(Calls) \cup Permutations(Sources)
=============================================================================
