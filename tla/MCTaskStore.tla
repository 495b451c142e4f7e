---------------------------- MODULE MCTaskStore ----------------------------
(* Instances of TaskStore for TLC. *)
EXTENDS TaskStore, TLC

\* One task of two shards, one task of one shard.
BothOfOne == [s \in {1, 2} |-> 1]
OneOfOne == [s \in {1} |-> 1]

SameTenant == [t \in Tasks |-> "tenant1"]
AgentsTogether == [a \in Agents |-> "tenant1"]

Interchangeable == Permutations(Agents) \cup Permutations(Workers)
=============================================================================
