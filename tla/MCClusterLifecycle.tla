------------------------- MODULE MCClusterLifecycle -------------------------
(* Small instances of ClusterLifecycle for TLC. *)
EXTENDS ClusterLifecycle, TLC

\* The tasks are spread over the tenants.
Spread == CHOOSE f \in [Tasks -> Tenants] : \A n \in Tenants : \E t \in Tasks : f[t] = n

\* Ids are UUIDv7: their first eight digits count units of 65.5 seconds.  The
\* tenants are created in different units, or all in the same one.
CreatedApart == [n \in Tenants |-> n]
CreatedTogether == [n \in Tenants |-> "unit"]

Interchangeable == Permutations(Tasks)
=============================================================================
