----------------------------- MODULE MCAgentApi -----------------------------
(* Instances of AgentApi for TLC.  Calls and ids are interchangeable. *)
EXTENDS AgentApi, TLC

Symmetry == Permutations(Calls) \cup Permutations(Ids)
=============================================================================
