----------------------------- MODULE MCLlmCall -----------------------------
(* LlmCall on a small instance: a fallback list that names the primary      *)
(* model again and a model without credentials.                            *)
EXTENDS LlmCall

FallbackList == <<"dead", "primary", "second">>
=============================================================================
