----------------------------- MODULE MCProvider -----------------------------
(***************************************************************************)
(* Provider on the cases of MCTurnCases.                                   *)
(***************************************************************************)
EXTENDS Provider, MCTurnCases

ASSUME ProviderCases == ProviderAssumption
=============================================================================
