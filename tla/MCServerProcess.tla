-------------------------- MODULE MCServerProcess --------------------------
(* Instances of ServerProcess for TLC. *)
EXTENDS ServerProcess

Unset == [v \in Variables |-> <<>>]
\* A pod: every required variable, production mode, the pod's own account.
Pod == [vars |-> [v \in Variables |-> IF v \in Required THEN <<10>> ELSE <<>>], dotenv |-> Unset,
        prod |-> TRUE, malformed |-> FALSE, pathReadable |-> TRUE, inCluster |-> TRUE, homeConfig |-> FALSE]

\* Both billing variables set to n.
Billed(e, n) ==
    [e EXCEPT !.vars["CLUSTER_BILLING_CYCLE_SECONDS"] = n, !.vars["CLUSTER_BILLING_ADVANCE_SECONDS"] = n]

\* 60, 4096 and 8192 (negative and zero in 13 bits), 0 and a word.
Numbers == {<<6, 0>>, <<4, 0, 9, 6>>, <<8, 1, 9, 2>>, <<0>>, <<10>>}

\* Environments that serve: a pod whose numbers overflow, and a developer's
\* machine with a .env file.
Serving ==
    {Billed(Pod, <<4, 0, 9, 6>>),
     [Pod EXCEPT !.prod = FALSE, !.dotenv = Pod.vars, !.vars = Unset, !.inCluster = FALSE, !.homeConfig = TRUE]}

\* Environments that do not: a required variable is missing, there is no
\* Kubernetes configuration, or the .env file is malformed.
NotServing ==
    {[Pod EXCEPT !.vars[v] = <<>>] : v \in Required}
    \cup {[Billed(Pod, n) EXCEPT !.inCluster = FALSE] : n \in Numbers}
    \cup {[Pod EXCEPT !.pathReadable = FALSE, !.vars["CLUSTER_KUBERNETES_KUBECONFIG_PATH"] = <<10>>],
          [Pod EXCEPT !.prod = FALSE, !.malformed = TRUE]}

SomeEnvironments == Serving \cup NotServing
=============================================================================
