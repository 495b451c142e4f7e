-------------------------- MODULE ClusterLifecycle --------------------------
(***************************************************************************)
(* The agent clusters of the tenants: their rows in the clusters table,    *)
(* their Kubernetes StatefulSets, the poller that brings both up for       *)
(* PENDING tasks (PollPendingTasks) and the recycler that renews billing   *)
(* periods and takes clusters down (RecycleClusters).  The two loops run   *)
(* beside each other and share nothing but the tables and Kubernetes.      *)
(*                                                                         *)
(* Times are kept relative to the present, so the model needs no horizon:  *)
(* due is the time left to NextBillingBoundaryAt (down to Floor, which     *)
(* stands for that and everything older), idle the age of IdleSince (up to *)
(* IdleThreshold).                                                         *)
(***************************************************************************)
EXTENDS Integers

CONSTANTS
    Tenants,
    NoTenant,
    Registered,     \* tenants whose primary backend main has registered
    ClusterName,    \* StatefulSet name of a tenant: eight digits of its id
    Tasks,          \* an id no longer used stands for the next new one
    TaskTenant,
    Cycle,          \* BillingCycleSeconds
    IdleThreshold,  \* IdleThresholdSeconds
    Advance         \* BillingAdvanceSeconds

ASSUME ClusterAssumption ==
    /\ NoTenant \notin Tenants /\ Registered \subseteq Tenants
    /\ TaskTenant \in [Tasks -> Tenants]
    /\ DOMAIN ClusterName = Tenants
    /\ Cycle \in Nat \ {0} /\ IdleThreshold \in Nat /\ Advance \in Nat

VARIABLES
    row,       \* the clusters row of each tenant: status, due, idle
    sts,       \* the tenant whose agents run in each StatefulSet, if it exists
    task,      \* status of each task
    poller,    \* PollPendingTasks: step, tenant, the task ids it has listed
    recycler,  \* RecycleClusters: step, tenant, the rows it read and has to do
    unseen     \* tasks submitted since the recycler last counted (history)

vars == <<row, sts, task, poller, recycler, unseen>>

Null == -1
Floor == -Cycle
Names == {ClusterName[n] : n \in Tenants}
RowStatus == {"ABSENT", "PROVISIONING", "ACTIVE", "TERMINATED"}
Row == [status : RowStatus, due : Floor..(Cycle + Advance), idle : {Null} \cup (0..IdleThreshold)]

ActiveTasks(n) ==
    {t \in Tasks : TaskTenant[t] = n /\ task[t] \in {"PENDING", "WAITING_FOR_AGENTS"}}

SubmitTask(t) ==
    /\ task[t] = "ENDED" /\ t \notin poller.tasks
    /\ task' = [task EXCEPT ![t] = "PENDING"]
    /\ unseen' = unseen \cup {t}
    /\ UNCHANGED <<row, sts, poller, recycler>>

\* The tenant's agents finish a task, or the user cancels it.
EndTask(t) ==
    /\ task[t] \in {"PENDING", "WAITING_FOR_AGENTS"}
    /\ task' = [task EXCEPT ![t] = "ENDED"]
    /\ unseen' = unseen \ {t}
    /\ UNCHANGED <<row, sts, poller, recycler>>

\* One unit of time passes, for the tables and for what the recycler has read.
Older(r) ==
    [r EXCEPT !.due = IF @ = Floor THEN @ ELSE @ - 1,
              !.idle = IF @ \in {Null, IdleThreshold} THEN @ ELSE @ + 1]
Tick ==
    /\ row' = [n \in Tenants |-> Older(row[n])]
    /\ recycler' = [recycler EXCEPT !.read = [n \in DOMAIN @ |-> Older(@[n])]]
    /\ UNCHANGED <<sts, task, poller, unseen>>

-----------------------------------------------------------------------------
(* PollPendingTasks *)

PollStep(step) == poller' = [poller EXCEPT !.step = step]
\* Next tenant group, or the end of the round.
PollNext(tasks) ==
    poller' = [step |-> IF tasks = {} THEN "idle" ELSE "next", tenant |-> NoTenant, tasks |-> tasks]
Group == {t \in poller.tasks : TaskTenant[t] = poller.tenant}

GetPendingTaskListMutant ==
    /\ poller.step = "idle"
    /\ PollNext({t \in Tasks : task[t] = "WAITING_FOR_AGENTS"})
    /\ UNCHANGED <<row, sts, task, recycler, unseen>>
GetPendingTaskList ==
    /\ poller.step = "idle"
    /\ PollNext({t \in Tasks : task[t] = "PENDING"})
    /\ UNCHANGED <<row, sts, task, recycler, unseen>>

\* The groups are a Go map: they come in any order.  The tasks of a tenant that
\* cannot be read, or whose backend nobody has registered, stay PENDING.
PollTenant ==
    /\ poller.step = "next"
    /\ \E t \in poller.tasks :
        \/ /\ TaskTenant[t] \in Registered
           /\ poller' = [poller EXCEPT !.step = "cluster", !.tenant = TaskTenant[t]]
        \/ PollNext({u \in poller.tasks : TaskTenant[u] # TaskTenant[t]})
    /\ UNCHANGED <<row, sts, task, recycler, unseen>>

\* A new row, or a TERMINATED one brought back: idle_since is left as it was.
GetOrCreateActiveClusterMutant ==
    /\ poller.step = "cluster"
    /\ row' = [row EXCEPT ![poller.tenant].status = "PROVISIONING", ![poller.tenant].due = Cycle]
    /\ PollStep("provision")
    /\ UNCHANGED <<sts, task, recycler, unseen>>
GetOrCreateActiveCluster ==
    /\ poller.step = "cluster"
    /\ row' = IF row[poller.tenant].status \in {"ABSENT", "TERMINATED"}
              THEN [row EXCEPT ![poller.tenant].status = "PROVISIONING", ![poller.tenant].due = Cycle]
              ELSE row
    /\ PollStep("provision")
    /\ UNCHANGED <<sts, task, recycler, unseen>>

\* A StatefulSet of that name is taken for the tenant's own.
ProvisionCluster ==
    /\ poller.step = "provision"
    /\ LET name == ClusterName[poller.tenant] IN
         sts' = IF sts[name] = NoTenant THEN [sts EXCEPT ![name] = poller.tenant] ELSE sts
    /\ PollStep("scale")
    /\ UNCHANGED <<row, task, recycler, unseen>>

ScaleCluster ==
    /\ poller.step = "scale"
    /\ sts[ClusterName[poller.tenant]] # NoTenant
    /\ PollStep("get")
    /\ UNCHANGED <<row, sts, task, recycler, unseen>>

\* Any error on the way, a StatefulSet that is gone among them, leaves the
\* tasks PENDING for the next round.
ProvisionFailed ==
    /\ poller.step \in {"cluster", "provision", "scale"}
    /\ PollNext(poller.tasks \ Group)
    /\ UNCHANGED <<row, sts, task, recycler, unseen>>

GetByTenant ==
    /\ poller.step = "get"
    /\ PollStep(IF row[poller.tenant].status = "TERMINATED" THEN "mark" ELSE "activate")
    /\ UNCHANGED <<row, sts, task, recycler, unseen>>

\* MarkActive does not look at the status again; an error is only logged.
MarkActive ==
    /\ poller.step = "activate"
    /\ row' \in {row, [row EXCEPT ![poller.tenant].status = "ACTIVE"]}
    /\ PollStep("mark")
    /\ UNCHANGED <<sts, task, recycler, unseen>>

\* Tasks cancelled meanwhile are no longer PENDING and stay as they are.
MarkTasksStatus ==
    /\ poller.step = "mark"
    /\ task' \in {task, [t \in Tasks |-> IF t \in Group /\ task[t] = "PENDING"
                                         THEN "WAITING_FOR_AGENTS" ELSE task[t]]}
    /\ PollNext(poller.tasks \ Group)
    /\ UNCHANGED <<row, sts, recycler, unseen>>

-----------------------------------------------------------------------------
(* RecycleClusters *)

Recycle(step) == recycler' = [recycler EXCEPT !.step = step]
\* Next cluster of the list, or the end of the pass.
RecycleNext ==
    LET rest == DOMAIN recycler.read \ {recycler.tenant} IN
    recycler' = [step |-> IF rest = {} THEN "idle" ELSE "next", tenant |-> NoTenant,
                 read |-> [n \in rest |-> recycler.read[n]]]
Current == recycler.read[recycler.tenant]

IsNearBoundaryMutant(r) == r.due >= Advance
IsNearBoundary(r) == r.due <= Advance
IsExpired(r) == r.due < 0
IsIdleExpired(r) == r.idle # Null /\ r.idle >= IdleThreshold

\* Clusters still PROVISIONING are listed, and then skipped.
GetActiveClusterList ==
    /\ recycler.step = "idle"
    /\ LET listed == {n \in Tenants : row[n].status = "ACTIVE"} IN
        /\ listed # {}
        /\ recycler' = [step |-> "next", tenant |-> NoTenant, read |-> [n \in listed |-> row[n]]]
    /\ UNCHANGED <<row, sts, task, poller, unseen>>

RecycleTenant ==
    /\ recycler.step = "next"
    /\ \E n \in DOMAIN recycler.read :
        recycler' = [recycler EXCEPT !.step = "count", !.tenant = n]
    /\ UNCHANGED <<row, sts, task, poller, unseen>>

\* An error skips the cluster until the next pass.
CountedMutant(n) == {t \in ActiveTasks(n) : task[t] = "PENDING"}
Counted(n) == ActiveTasks(n)
CountActiveTasks ==
    /\ recycler.step = "count"
    /\ \/ /\ Recycle(IF Counted(recycler.tenant) # {} THEN "busy" ELSE "unused")
          /\ unseen' = {t \in unseen : TaskTenant[t] # recycler.tenant}
       \/ RecycleNext /\ UNCHANGED unseen
    /\ UNCHANGED <<row, sts, task, poller>>

\* Clear idle_since (an error is only logged), and see whether to renew.
ClearIdle ==
    /\ recycler.step = "busy"
    /\ \/ Current.idle # Null /\ row' = [row EXCEPT ![recycler.tenant].idle = Null]
       \/ UNCHANGED row
    /\ IF IsExpired(Current) \/ IsNearBoundary(Current) THEN Recycle("renew") ELSE RecycleNext
    /\ UNCHANGED <<sts, task, poller, unseen>>

\* One billing cycle is added to the boundary the row holds now, and no more
\* than one however long ago that was; an error is only logged.
Renewed(due) == IF due = Floor THEN Floor..0 ELSE {due + Cycle}
RenewBilling ==
    /\ recycler.step = "renew"
    /\ \/ \E due \in Renewed(row[recycler.tenant].due) :
            row' = [row EXCEPT ![recycler.tenant].due = due]
       \/ UNCHANGED row
    /\ RecycleNext
    /\ UNCHANGED <<sts, task, poller, unseen>>

\* Start the idle timer (an error is only logged), and see whether the cluster
\* has been idle for long enough and is close to its next payment.
TerminateDueMutant(r) == IsIdleExpired(r) /\ IsNearBoundary(r) /\ ~IsExpired(r)
TerminateDue(r) == IsIdleExpired(r) /\ (IsNearBoundary(r) \/ IsExpired(r))
StartIdle ==
    /\ recycler.step = "unused"
    /\ \/ Current.idle = Null /\ row' = [row EXCEPT ![recycler.tenant].idle = 0]
       \/ UNCHANGED row
    /\ IF TerminateDue([Current EXCEPT !.idle = IF @ = Null THEN 0 ELSE @])
       THEN Recycle("destroy") ELSE RecycleNext
    /\ UNCHANGED <<sts, task, poller, unseen>>

\* The tasks are not counted again.
DestroyCluster ==
    /\ recycler.step = "destroy"
    /\ \/ /\ sts' = [sts EXCEPT ![ClusterName[recycler.tenant]] = NoTenant]
          /\ Recycle("terminate")
       \/ RecycleNext /\ UNCHANGED sts
    /\ UNCHANGED <<row, task, poller, unseen>>

\* After an error the next pass destroys and terminates again.
TerminateCluster ==
    /\ recycler.step = "terminate"
    /\ row' \in {row, [row EXCEPT ![recycler.tenant].status = "TERMINATED"]}
    /\ RecycleNext
    /\ UNCHANGED <<sts, task, poller, unseen>>

\* The server stops, in the middle of both loops, and is started again.
Restart ==
    /\ poller' = [step |-> "idle", tenant |-> NoTenant, tasks |-> {}]
    /\ recycler' = [step |-> "idle", tenant |-> NoTenant, read |-> [n \in {} |-> row[n]]]
    /\ UNCHANGED <<row, sts, task, unseen>>

-----------------------------------------------------------------------------
NewRow == [status |-> "ABSENT", due |-> Cycle, idle |-> Null]
Init ==
    /\ row = [n \in Tenants |-> NewRow]
    /\ sts = [name \in Names |-> NoTenant]
    /\ task = [t \in Tasks |-> "ENDED"]
    /\ poller = [step |-> "idle", tenant |-> NoTenant, tasks |-> {}]
    /\ recycler = [step |-> "idle", tenant |-> NoTenant, read |-> [n \in {} |-> NewRow]]
    /\ unseen = {}

Poll ==
    \/ PollTenant \/ GetOrCreateActiveCluster \/ ProvisionCluster \/ ScaleCluster
    \/ GetByTenant \/ MarkActive \/ MarkTasksStatus \/ ProvisionFailed
Pass ==
    \/ RecycleTenant \/ CountActiveTasks \/ ClearIdle \/ RenewBilling
    \/ StartIdle \/ DestroyCluster \/ TerminateCluster

Next ==
    \/ \E t \in Tasks : SubmitTask(t) \/ EndTask(t)
    \/ GetPendingTaskList \/ Poll
    \/ GetActiveClusterList \/ Pass
    \/ Tick \/ Restart

Spec == Init /\ [][Next]_vars

\* Both loops keep ticking and time goes on.  No call fails, and no restart
\* comes, every time: a step that is reached again and again for a tenant
\* succeeds again and again.
Fairness ==
    /\ WF_vars(Tick) /\ WF_vars(Poll) /\ WF_vars(Pass)
    /\ WF_vars(GetPendingTaskList) /\ WF_vars(GetActiveClusterList)
    /\ \A n \in Tenants :
        /\ SF_vars(PollTenant /\ poller'.tenant = n)
        /\ SF_vars(poller.tenant = n /\ GetOrCreateActiveCluster)
        /\ SF_vars(poller.tenant = n /\ ProvisionCluster)
        /\ SF_vars(poller.tenant = n /\ ScaleCluster)
        /\ SF_vars(poller.tenant = n /\ GetByTenant)
        /\ SF_vars(poller.tenant = n /\ MarkActive)
        /\ SF_vars(poller.tenant = n /\ MarkTasksStatus /\ task' # task)
        /\ SF_vars(RecycleTenant /\ recycler'.tenant = n)
        /\ SF_vars(recycler.tenant = n /\ CountActiveTasks /\ recycler'.step \in {"busy", "unused"})
        /\ SF_vars(recycler.tenant = n /\ StartIdle /\ (Current.idle = Null => row' # row))
        /\ SF_vars(recycler.tenant = n /\ DestroyCluster /\ recycler'.step = "terminate")
        /\ SF_vars(recycler.tenant = n /\ TerminateCluster /\ row' # row)
LiveSpec == Spec /\ Fairness

-----------------------------------------------------------------------------
(* Properties *)

\* Types of the two tables, of Kubernetes and of the two loops; a clusters row
\* is never older than its billing arithmetic (RenewBilling) can make it.
TypeOK ==
    /\ row \in [Tenants -> Row]
    /\ sts \in [Names -> Tenants \cup {NoTenant}]
    /\ task \in [Tasks -> {"PENDING", "WAITING_FOR_AGENTS", "ENDED"}]
    /\ poller \in [step : {"idle", "next", "cluster", "provision", "scale", "get", "activate", "mark"},
                   tenant : Tenants \cup {NoTenant}, tasks : SUBSET Tasks]
    /\ recycler \in [step : {"idle", "next", "count", "busy", "renew", "unused", "destroy", "terminate"},
                     tenant : Tenants \cup {NoTenant},
                     read : UNION {[ns -> Row] : ns \in SUBSET Tenants}]
    /\ unseen \subseteq Tasks

\* When RecycleClusters is about to delete a tenant's StatefulSet, the only
\* active tasks of the tenant are those submitted after it counted them.
DestroysOnlyUnseen ==
    recycler.step = "destroy" => ActiveTasks(recycler.tenant) \subseteq unseen

\* RecycleClusters decides on rows it has read at the start of the pass.  As long
\* as a row is still to do, nobody else has moved its billing boundary or taken
\* it out of ACTIVE, so neither a renewal nor a termination rests on a stale one.
ReadStaysCurrent ==
    \A n \in DOMAIN recycler.read :
        row[n].status = "ACTIVE" /\ row[n].due = recycler.read[n].due

\* A tenant that stops submitting tasks is not kept on an ACTIVE cluster for
\* ever: the idle timer, the billing boundary and the retries of RecycleClusters
\* bring its row to TERMINATED, whatever fails or crashes on the way.
IdleActiveReclaimed ==
    \A n \in Tenants : <>[](ActiveTasks(n) = {}) => <>[](row[n].status # "ACTIVE")

\* PollPendingTasks does not leave a task PENDING for ever, although the
\* recycler may delete the StatefulSet under it between any two of its calls,
\* unless the tenant names a backend that is not registered.
PendingEventuallyScheduled ==
    \A t \in Tasks : TaskTenant[t] \in Registered => (task[t] = "PENDING" ~> task[t] # "PENDING")

\* README.md: WAITING_FOR_AGENTS means that the agent pods are being brought
\* up.  With both loops at rest, a waiting task's tenant has a StatefulSet.
WaitingHasCluster ==
    poller.step = "idle" /\ recycler.step = "idle" =>
        \A t \in Tasks : task[t] = "WAITING_FOR_AGENTS" => sts[ClusterName[TaskTenant[t]]] # NoTenant

\* ensure_cluster.go: after ProvisionCluster the resources of the given tenant
\* exist, so the StatefulSet it leaves behind runs that tenant's agents.
ProvisionsForTenant ==
    [][ProvisionCluster => sts'[ClusterName[poller.tenant]] = poller.tenant]_vars
=============================================================================
