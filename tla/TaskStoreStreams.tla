-------------------------- MODULE TaskStoreStreams --------------------------
(***************************************************************************)
(* TaskStore with the two restrictions the control plane puts on its       *)
(* callers: the handler of an agent's control stream works on one message  *)
(* at a time, and an agent reports only shards it was sent.  TaskStore     *)
(* itself allows more (an unresponsive agent may open a second stream), so *)
(* a race found here needs nothing but timer callbacks and the background  *)
(* loops, which run beside the streams.                                    *)
(***************************************************************************)
EXTENDS TaskStore

VARIABLE sent   \* AssignShard messages sent, as <<agent, shard>>

\* Calls made by the handler of a control stream (OpenControlStream).
Streaming(w) ==
    \/ pc[w] \in {"select", "load", "promote", "take", "assigned",
                  "read", "lock", "mark", "recompute", "commit", "sweep"}
    \/ pc[w] = "rollback" /\ call[w].from = {"LEASED"}

OneMessageAtATime ==
    \A v, w \in Workers :
        v # w /\ Streaming(v) /\ Streaming(w) => call[v].agent # call[w].agent

\* HandleShardStarted, HandleShardResultReady or HandleShardFailed begins.
Reporting(w) == pc[w] = "idle" /\ pc'[w] = "read"

StreamInit == Init /\ sent = {}

StreamNext ==
    /\ Next
    /\ OneMessageAtATime'
    /\ \A w \in Workers : Reporting(w) => <<call'[w].agent, call'[w].shard>> \in sent
    /\ sent' = sent \cup {<<call[w].agent, call[w].shard>> : w \in {v \in Workers : AssignSent(v)}}

StreamSpec == StreamInit /\ [][StreamNext]_<<vars, sent>>

-----------------------------------------------------------------------------
\* What LoadValidatedShard is documented to establish: a report being applied
\* comes from the agent the shard is assigned to.
ReportFromAssignee ==
    \A w \in Workers : pc[w] = "commit" => agentOf[call[w].shard] = call[w].agent
=============================================================================
