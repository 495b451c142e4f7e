--------------------------- MODULE TaskLifecycle ---------------------------
(***************************************************************************)
(* What the task store promises: tasks and shards change in single steps,  *)
(* as if there were one service call at a time, no locks and no failures.  *)
(* A task settles in the step in which its last shard ends, a cancellation *)
(* takes the task and its open shards at once, and the completion hook is  *)
(* sent at most once.  TaskStore implements it (TaskStore!ActsAtomically). *)
(***************************************************************************)
CONSTANTS Tasks, Shards, TaskOf, HookTasks

VARIABLES
    task,   \* status of each task
    shard,  \* status of each shard
    sent    \* completion hooks sent, per task

vars == <<task, shard, sent>>

Settled == {"SUCCEEDED", "FAILED", "CANCELLED"}
ShardsOf(t) == {s \in Shards : TaskOf[s] = t}

Submit(t) ==
    /\ task[t] = "ABSENT"
    /\ task' = [task EXCEPT ![t] = "PENDING"]
    /\ shard' = [s \in Shards |-> IF TaskOf[s] = t THEN "QUEUED" ELSE shard[s]]
    /\ UNCHANGED sent

\* A cluster has been provisioned for the tasks T.
Provision(T) ==
    /\ \A t \in T : task[t] = "PENDING"
    /\ task' = [t \in Tasks |-> IF t \in T THEN "WAITING_FOR_AGENTS" ELSE task[t]]
    /\ UNCHANGED <<shard, sent>>

Lease(s) ==
    /\ shard[s] = "QUEUED"
    /\ task[TaskOf[s]] \in {"WAITING_FOR_AGENTS", "QUEUED", "RUNNING"}
    /\ shard' = [shard EXCEPT ![s] = "LEASED"]
    /\ task' = [task EXCEPT ![TaskOf[s]] = IF @ = "RUNNING" THEN @ ELSE "QUEUED"]
    /\ UNCHANGED sent

Start(s) ==
    /\ shard[s] = "LEASED"
    /\ task[TaskOf[s]] \in {"QUEUED", "RUNNING"}
    /\ shard' = [shard EXCEPT ![s] = "RUNNING"]
    /\ task' = [task EXCEPT ![TaskOf[s]] = "RUNNING"]
    /\ UNCHANGED sent

PutBack(s) ==
    /\ shard[s] \in {"LEASED", "RUNNING"}
    /\ shard' = [shard EXCEPT ![s] = "QUEUED"]
    /\ UNCHANGED <<task, sent>>

\* A shard succeeds or fails; the last one to end decides the task.
End(s, result) ==
    LET others == ShardsOf(TaskOf[s]) \ {s}
        last == \A r \in others : shard[r] \in Settled
        failed == result = "FAILED" \/ \E r \in others : shard[r] = "FAILED"
    IN  /\ shard[s] = "RUNNING"
        /\ task[TaskOf[s]] \notin Settled
        /\ shard' = [shard EXCEPT ![s] = result]
        /\ task' = IF last
                   THEN [task EXCEPT ![TaskOf[s]] = IF failed THEN "FAILED" ELSE "SUCCEEDED"]
                   ELSE task
        /\ UNCHANGED sent

Cancel(t) ==
    /\ task[t] \notin Settled \cup {"ABSENT"}
    /\ task' = [task EXCEPT ![t] = "CANCELLED"]
    /\ shard' = [s \in Shards |-> IF TaskOf[s] = t /\ shard[s] \notin Settled
                                  THEN "CANCELLED" ELSE shard[s]]
    /\ UNCHANGED sent

Notify(t) ==
    /\ task[t] \in Settled /\ sent[t] = <<>>
    /\ sent' = [sent EXCEPT ![t] = <<task[t]>>]
    /\ UNCHANGED <<task, shard>>

Init ==
    /\ task = [t \in Tasks |-> "ABSENT"]
    /\ shard = [s \in Shards |-> "ABSENT"]
    /\ sent = [t \in Tasks |-> <<>>]

Next ==
    \/ \E t \in Tasks : Submit(t) \/ Cancel(t)
    \/ \E T \in SUBSET Tasks : Provision(T)
    \/ \E s \in Shards : Lease(s) \/ Start(s) \/ PutBack(s)
    \/ \E s \in Shards, result \in {"SUCCEEDED", "FAILED"} : End(s, result)
    \/ \E t \in HookTasks : Notify(t)

Spec == Init /\ [][Next]_vars
=============================================================================
