-------------------------- MODULE MCAgentRegistry --------------------------
(* Instances of AgentRegistry for TLC. *)
EXTENDS AgentRegistry, TLC

Interchangeable == Permutations(Shards) \cup Permutations(Streams) \cup Permutations(Callbacks)
=============================================================================
