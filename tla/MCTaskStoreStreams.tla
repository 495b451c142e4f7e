------------------------- MODULE MCTaskStoreStreams -------------------------
(* Instances of TaskStoreStreams for TLC: one task of two shards. *)
EXTENDS TaskStoreStreams, TLC

BothOfOne == [s \in {1, 2} |-> 1]
SameTenant == [t \in Tasks |-> "tenant1"]
AgentsTogether == [a \in Agents |-> "tenant1"]
Interchangeable == Permutations(Agents) \cup Permutations(Workers)
=============================================================================
