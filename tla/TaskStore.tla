----------------------------- MODULE TaskStore -----------------------------
(***************************************************************************)
(* The task and shard tables of the orchestrator, and every service call   *)
(* that changes them (internal/service/task_service, internal/orm), at the *)
(* granularity of single SQL statements.                                   *)
(*                                                                         *)
(* A worker is a goroutine running one service call: a control-stream      *)
(* handler, a GraphQL request, a timer callback or a background loop.  The *)
(* table variables hold the committed rows.  A transaction's own writes    *)
(* stay in its worker's call record until the step that commits, and the   *)
(* row locks it holds follow from its program counter (HoldsTask and       *)
(* HoldsShard).  PostgreSQL runs the transactions at READ COMMITTED: every *)
(* statement reads the rows committed when it runs, and an UPDATE that     *)
(* meets a locked row waits and then re-evaluates its WHERE clause.        *)
(***************************************************************************)
EXTENDS Naturals, Sequences

CONSTANTS
    Tasks,       \* task ids, numbered in created_at order
    Shards,      \* shard ids, numbered in (task created_at, script_name) order
    TaskOf,      \* the task of each shard
    Agents,
    NoAgent,     \* assigned_agent_id IS NULL
    TaskTenant,  \* tenant (with its backend) of each task
    AgentTenant, \* tenant (with its backend) each agent registered for
    HookTasks,   \* tasks submitted with a completion hook URL
    Workers,     \* goroutines
    MaxRetries   \* retries of LeaseNextShard (100 in the code)

ASSUME StoreAssumption ==
    /\ Tasks \subseteq Nat \ {0}
    /\ Shards \subseteq Nat \ {0}
    /\ TaskOf \in [Shards -> Tasks]
    /\ \A t \in Tasks : \E s \in Shards : TaskOf[s] = t
    /\ \A s, r \in Shards : s < r => TaskOf[s] <= TaskOf[r]
    /\ NoAgent \notin Agents
    /\ HookTasks \subseteq Tasks
    /\ MaxRetries \in Nat \ {0}

VARIABLES
    taskStatus,  \* tasks.status, ABSENT before SubmitTask
    shardStatus, \* task_shards.status
    agentOf,     \* task_shards.assigned_agent_id
    started,     \* shards whose started_at is set
    hooks,       \* payload statuses handed to the hook dispatcher, per task
    notices,     \* CancelShard notifications handed to the control plane
    pc,          \* next statement of each worker
    call         \* local variables of each worker's service call

vars == <<taskStatus, shardStatus, agentOf, started, hooks, notices, pc, call>>
tables == <<taskStatus, shardStatus, agentOf, started>>
outputs == <<hooks, notices>>

Terminal == {"SUCCEEDED", "FAILED", "CANCELLED"}
Leasable == {"WAITING_FOR_AGENTS", "QUEUED", "RUNNING"}
TaskStatus == {"ABSENT", "PENDING"} \cup Leasable \cup Terminal
Active == {"LEASED", "RUNNING"}
ShardStatus == {"ABSENT", "QUEUED"} \cup Active \cup Terminal

ShardsOf(t) == {s \in Shards : TaskOf[s] = t}

\* A shard row as a SELECT returned it.
Row == [id : Shards, status : Active, agent : Agents]
Rows(S) == {[id |-> s, status |-> shardStatus[s], agent |-> agentOf[s]] : s \in S}

Call == [agent : Agents \cup {NoAgent},   \* agent the call acts for
         shard : Shards \cup {0},
         task  : Tasks \cup {0},
         want  : {"", "RUNNING", "SUCCEEDED", "FAILED"}, \* reported shard status
         seen  : {""} \cup TaskStatus \cup ShardStatus, \* status read or decided
         from  : SUBSET Active,           \* status guard of a rollback
         rows  : SUBSET Row,              \* shards still to process
         tasks : SUBSET Tasks,            \* tasks still to mark, or promoted
         tries : 0..(MaxRetries - 1)]

NoCall == [agent |-> NoAgent, shard |-> 0, task |-> 0, want |-> "", seen |-> "",
           from |-> {}, rows |-> {}, tasks |-> {}, tries |-> 0]

Steps == {"select", "load", "promote", "take", "assigned",
          "read", "lock", "mark", "recompute", "commit",
          "cancelTask", "cancelShards", "dispatch", "notify",
          "readTask", "rollback", "sweep", "cleanup", "poll"}

-----------------------------------------------------------------------------
(* Row locks. *)

\* Task rows locked at step p of call c: SELECT ... FOR UPDATE in a report, the UPDATE of a
\* cancellation, the promotion in a lease.
LocksTask(p, c, t) ==
    \/ p \in {"mark", "recompute", "commit", "cancelShards"} /\ c.task = t
    \/ p \in {"select", "load", "promote", "take"} /\ t \in c.tasks
HoldsTask(w, t) == LocksTask(pc[w], call[w], t)

\* Shard rows locked by w: the UPDATE of a report that has not committed.
HoldsShard(w, s) == pc[w] \in {"recompute", "commit"} /\ call[w].shard = s

TaskFree(w, t) == \A v \in Workers \ {w} : ~HoldsTask(v, t)
ShardFree(w, s) == \A v \in Workers \ {w} : ~HoldsShard(v, s)

-----------------------------------------------------------------------------
(* Control of one worker's call. *)

Begin(w, step, c) ==
    /\ pc[w] = "idle"
    /\ pc' = [pc EXCEPT ![w] = step]
    /\ call' = [call EXCEPT ![w] = c]

Goto(w, step, c) ==
    /\ pc' = [pc EXCEPT ![w] = step]
    /\ call' = [call EXCEPT ![w] = c]

Return(w) == Goto(w, "idle", NoCall)

\* Go on with the rows still to process, or return.
Loop(w, step, c) == IF c.rows = {} THEN Return(w) ELSE Goto(w, step, c)

\* The request is cancelled, the database fails or the process dies: the open
\* transaction is rolled back and the rest of the call never runs.
Abort(w) == pc[w] # "idle" /\ Return(w) /\ UNCHANGED <<tables, outputs>>

-----------------------------------------------------------------------------
(* SubmitTask and the poller of pending tasks. *)

SubmitTask(t) ==
    /\ taskStatus[t] = "ABSENT"
    /\ \A u \in Tasks : u < t => taskStatus[u] # "ABSENT"
    /\ taskStatus' = [taskStatus EXCEPT ![t] = "PENDING"]
    /\ shardStatus' = [s \in Shards |->
                         IF TaskOf[s] = t THEN "QUEUED" ELSE shardStatus[s]]
    /\ UNCHANGED <<agentOf, started, outputs, pc, call>>

PollPendingTasks(w) ==
    LET pending == {t \in Tasks : taskStatus[t] = "PENDING"}
    IN  /\ pending # {}
        /\ Begin(w, "poll", [NoCall EXCEPT !.tasks = pending])
        /\ UNCHANGED <<tables, outputs>>

\* The pending tasks of one tenant, taken from the list read earlier.
Group(w, t) == {u \in call[w].tasks : TaskTenant[u] = TaskTenant[t]}

PollDone(w, group) ==
    LET rest == call[w].tasks \ group
    IN  IF rest = {} THEN Return(w)
        ELSE Goto(w, "poll", [call[w] EXCEPT !.tasks = rest])

Markable(t) == taskStatus[t] = "PENDING"

MarkTasksStatus(w, t) ==
    LET group == Group(w, t)
        marked == {u \in group : Markable(u)}
    IN  /\ pc[w] = "poll" /\ t \in call[w].tasks
        /\ \A u \in marked : TaskFree(w, u)
        /\ taskStatus' = [u \in Tasks |-> IF u \in marked THEN "WAITING_FOR_AGENTS"
                                          ELSE taskStatus[u]]
        /\ PollDone(w, group)
        /\ UNCHANGED <<shardStatus, agentOf, started, outputs>>

\* Provisioning failed: the group stays PENDING with last_error set.
ProvisionFailed(w, t) ==
    /\ pc[w] = "poll" /\ t \in call[w].tasks
    /\ PollDone(w, Group(w, t))
    /\ UNCHANGED <<tables, outputs>>

-----------------------------------------------------------------------------
(* LeaseNextShard. *)

LeaseNextShard(w, a) ==
    /\ Begin(w, "select", [NoCall EXCEPT !.agent = a])
    /\ UNCHANGED <<tables, outputs>>

LeaseCandidate(a, s) ==
    /\ shardStatus[s] = "QUEUED"
    /\ taskStatus[TaskOf[s]] \in Leasable
    /\ TaskTenant[TaskOf[s]] = AgentTenant[a]

LeaseSelect(w) ==
    LET found == {s \in Shards : LeaseCandidate(call[w].agent, s)}
    IN  /\ pc[w] = "select"
        /\ \/ found = {} /\ Return(w)
           \/ \E s \in found :
                /\ \A r \in found : s <= r
                /\ Goto(w, "load", [call[w] EXCEPT !.shard = s, !.task = TaskOf[s]])
        /\ UNCHANGED <<tables, outputs>>

\* The loop of the transaction: another try, or the retries are exhausted.
LeaseRetryMutant(w) == Goto(w, "select", call[w])
LeaseRetry(w) ==
    IF call[w].tries + 1 = MaxRetries THEN Return(w)
    ELSE Goto(w, "select", [call[w] EXCEPT !.tries = @ + 1])

LeaseLoad(w) ==
    LET c == call[w]
        status == IF c.task \in c.tasks THEN "QUEUED" ELSE taskStatus[c.task]
    IN  /\ pc[w] = "load"
        /\ CASE status = "WAITING_FOR_AGENTS" -> Goto(w, "promote", c)
             [] status \in {"QUEUED", "RUNNING"} ->
                  Goto(w, "take", [c EXCEPT !.seen = status])
             [] OTHER -> LeaseRetry(w)
        /\ UNCHANGED <<tables, outputs>>

LeasePromoteMutant(w) ==
    /\ pc[w] = "promote"
    /\ Goto(w, "take", [call[w] EXCEPT !.seen = "QUEUED"])
    /\ UNCHANGED <<tables, outputs>>
LeasePromote(w) ==
    LET c == call[w]
        promoted == IF taskStatus[c.task] = "WAITING_FOR_AGENTS" THEN {c.task} ELSE {}
    IN  /\ pc[w] = "promote"
        /\ TaskFree(w, c.task)
        /\ Goto(w, "take", [c EXCEPT !.seen = "QUEUED", !.tasks = @ \cup promoted])
        /\ UNCHANGED <<tables, outputs>>

LeaseTake(w) ==
    LET c == call[w]
    IN  /\ pc[w] = "take"
        /\ ShardFree(w, c.shard)
        /\ IF shardStatus[c.shard] = "QUEUED"
           THEN /\ shardStatus' = [shardStatus EXCEPT ![c.shard] = "LEASED"]
                /\ agentOf' = [agentOf EXCEPT ![c.shard] = c.agent]
                /\ taskStatus' = [t \in Tasks |-> IF t \in c.tasks THEN "QUEUED"
                                                  ELSE taskStatus[t]]
                /\ Goto(w, "assigned", [c EXCEPT !.tasks = {}, !.tries = 0])
           ELSE /\ LeaseRetry(w)
                /\ UNCHANGED <<shardStatus, agentOf, taskStatus>>
        /\ UNCHANGED <<started, outputs>>

\* TryAssignShard: the assignment is sent, or its deferred rollback runs.
AssignSent(w) ==
    pc[w] = "assigned" /\ Return(w) /\ UNCHANGED <<tables, outputs>>

RollbackAssignedShard(w) ==
    /\ pc[w] = "assigned"
    /\ Goto(w, "rollback", [call[w] EXCEPT !.from = {"LEASED"}])
    /\ UNCHANGED <<tables, outputs>>

-----------------------------------------------------------------------------
(* ReportShardStatus and RecomputeTaskStatus. *)

\* The status a shard must have for a report to be made and applied.
Required(status) == IF status = "RUNNING" THEN "LEASED" ELSE "RUNNING"

\* transitionStatus: the status guard of an UPDATE on one shard.
MayTransitionMutant(s, from) == shardStatus[s] \in from \cup {"FAILED"}
MayTransition(s, from) == shardStatus[s] \in from

Owns(a, s) == TaskTenant[TaskOf[s]] = AgentTenant[a]

\* LoadValidatedShard, outside any transaction.
Validated(a, s) ==
    /\ shardStatus[s] # "ABSENT"
    /\ agentOf[s] = a \/ shardStatus[s] \in Terminal
    /\ Owns(a, s)

\* HandleShardStarted, HandleShardResultReady, HandleShardFailed: the shard is
\* validated and, in the required status, reported.
ReportShardStatus(w, a, s, status) ==
    /\ Validated(a, s)
    /\ shardStatus[s] = Required(status)
    /\ Begin(w, "read", [NoCall EXCEPT !.agent = a, !.shard = s,
                                       !.task = TaskOf[s], !.want = status])
    /\ UNCHANGED <<tables, outputs>>

\* The unlocked read of the shard.
ReportRead(w) ==
    LET c == call[w]
    IN  /\ pc[w] = "read"
        /\ Goto(w, "lock", [c EXCEPT !.seen = shardStatus[c.shard]])
        /\ UNCHANGED <<tables, outputs>>

ReportLockTaskMutant(w) ==
    /\ pc[w] = "lock"
    /\ IF taskStatus[call[w].task] = "CANCELLED" THEN Return(w)
       ELSE Goto(w, "mark", [call[w] EXCEPT !.seen = ""])
    /\ UNCHANGED <<tables, outputs>>

\* SELECT ... FOR UPDATE of the task.  A success read as already recorded
\* returns nil, a cancelled task is an error.
ReportLockTask(w) ==
    LET c == call[w]
        duplicate == c.want = "SUCCEEDED" /\ c.seen = "SUCCEEDED"
    IN  /\ pc[w] = "lock"
        /\ TaskFree(w, c.task)
        /\ IF duplicate \/ taskStatus[c.task] = "CANCELLED"
           THEN Return(w) ELSE Goto(w, "mark", [c EXCEPT !.seen = ""])
        /\ UNCHANGED <<tables, outputs>>

\* MarkRunning, MarkSucceeded, MarkFailed.
ReportMarkShard(w) ==
    LET c == call[w]
        allowed == MayTransition(c.shard, {Required(c.want)})
    IN  /\ pc[w] = "mark"
        /\ ShardFree(w, c.shard)
        /\ \/ ~allowed /\ Return(w)
           \/ allowed /\ c.want = "RUNNING" /\ Goto(w, "commit", [c EXCEPT !.seen = "RUNNING"])
           \/ allowed /\ c.want # "RUNNING" /\ Goto(w, "recompute", c)
        /\ UNCHANGED <<tables, outputs>>

\* The counts of active and failed shards, the transaction's own write included.
Verdict(c) ==
    LET now(s) == IF s = c.shard THEN c.want ELSE shardStatus[s]
    IN  IF \/ taskStatus[c.task] \in {"SUCCEEDED", "FAILED"}
           \/ \E s \in ShardsOf(c.task) : now(s) \notin Terminal
        THEN ""
        ELSE IF \E s \in ShardsOf(c.task) : now(s) = "FAILED" THEN "FAILED" ELSE "SUCCEEDED"

RecomputeTaskStatus(w) ==
    LET c == call[w]
    IN  /\ pc[w] = "recompute"
        /\ IF taskStatus[c.task] = "CANCELLED" THEN Return(w)
           ELSE Goto(w, "commit", [c EXCEPT !.seen = Verdict(c)])
        /\ UNCHANGED <<tables, outputs>>

\* newCompletionHookPayload: nil without a hook URL.
HasHook(t) == t \in HookTasks

\* The guarded UPDATE of the task and the commit.  A task cancelled meanwhile
\* fails the transaction; one already settled keeps its status and fires no hook.
ReportCommit(w) ==
    LET c == call[w]
        current == taskStatus[c.task]
        settled == c.seen \in Terminal /\ current \notin Terminal
    IN  /\ pc[w] = "commit"
        /\ IF c.seen # "" /\ current = "CANCELLED"
           THEN Return(w) /\ UNCHANGED tables
           ELSE /\ shardStatus' = [shardStatus EXCEPT ![c.shard] = c.want]
                /\ started' = IF c.want = "RUNNING" THEN started \cup {c.shard} ELSE started
                /\ taskStatus' = IF settled \/ c.seen = "RUNNING"
                                 THEN [taskStatus EXCEPT ![c.task] = c.seen]
                                 ELSE taskStatus
                /\ IF settled /\ HasHook(c.task)
                   THEN Goto(w, "dispatch", c) ELSE Return(w)
                /\ UNCHANGED agentOf
        /\ UNCHANGED outputs

-----------------------------------------------------------------------------
(* CancelTask, the completion hook and the cancellation notices. *)

\* The task is read and the agents to notify are collected before the
\* transaction.
CancelTask(w, t) ==
    LET running == {s \in ShardsOf(t) : shardStatus[s] \in Active}
    IN  /\ taskStatus[t] # "ABSENT"
        /\ Begin(w, "cancelTask", [NoCall EXCEPT !.task = t, !.rows = Rows(running)])
        /\ UNCHANGED <<tables, outputs>>

CancelTaskByIdMutant(w) ==
    /\ pc[w] = "cancelTask"
    /\ TaskFree(w, call[w].task)
    /\ Goto(w, "cancelShards", [call[w] EXCEPT !.seen = "CANCELLED"])
    /\ UNCHANGED <<tables, outputs>>
CancelErrorIgnoredMutant(w) ==
    LET c == call[w]
    IN  /\ pc[w] = "cancelTask"
        /\ TaskFree(w, c.task)
        /\ IF taskStatus[c.task] \in Terminal THEN Loop(w, "notify", c)
           ELSE Goto(w, "cancelShards", [c EXCEPT !.seen = "CANCELLED"])
        /\ UNCHANGED <<tables, outputs>>
CancelTaskById(w) ==
    LET c == call[w]
    IN  /\ pc[w] = "cancelTask"
        /\ TaskFree(w, c.task)
        /\ IF taskStatus[c.task] \in Terminal THEN Return(w)
           ELSE Goto(w, "cancelShards", [c EXCEPT !.seen = "CANCELLED"])
        /\ UNCHANGED <<tables, outputs>>

OpenShardsMutant(t) == {s \in ShardsOf(t) : shardStatus[s] \in Active}
OpenShards(t) == {s \in ShardsOf(t) : shardStatus[s] \notin Terminal}

CancelTaskShardsByTaskId(w) ==
    LET c == call[w]
        open == OpenShards(c.task)
    IN  /\ pc[w] = "cancelShards"
        /\ \A s \in open : ShardFree(w, s)
        /\ taskStatus' = [taskStatus EXCEPT ![c.task] = "CANCELLED"]
        /\ shardStatus' = [s \in Shards |-> IF s \in open THEN "CANCELLED" ELSE shardStatus[s]]
        /\ agentOf' = [s \in Shards |-> IF s \in open THEN NoAgent ELSE agentOf[s]]
        /\ started' = started \ open
        /\ IF HasHook(c.task) THEN Goto(w, "dispatch", c) ELSE Loop(w, "notify", c)
        /\ UNCHANGED outputs

DispatchCompletionHook(w) ==
    LET c == call[w]
    IN  /\ pc[w] = "dispatch"
        /\ hooks' = [hooks EXCEPT ![c.task] = Append(@, c.seen)]
        /\ Loop(w, "notify", c)
        /\ UNCHANGED <<tables, notices>>

NotifyCancelShard(w) ==
    LET c == call[w]
    IN  /\ pc[w] = "notify"
        /\ \E r \in c.rows :
             /\ notices' = notices \cup {<<r.agent, r.id>>}
             /\ Loop(w, "notify", [c EXCEPT !.rows = @ \ {r}])
        /\ UNCHANGED <<tables, hooks>>

-----------------------------------------------------------------------------
(* Rollbacks of leased and running shards. *)

\* RollbackOrphanShardsForAgent: the list is read, then each shard is rolled
\* back if it still has the status that was read.
RollbackOrphanShardsForAgent(w, a) ==
    LET active == {s \in Shards : shardStatus[s] \in Active /\ agentOf[s] = a}
    IN  /\ active # {}
        /\ Begin(w, "sweep", [NoCall EXCEPT !.agent = a, !.rows = Rows(active)])
        /\ UNCHANGED <<tables, outputs>>

WrongStatusMutant(s) ==
    /\ shardStatus' = [shardStatus EXCEPT ![s] = "PENDING"]
    /\ agentOf' = [agentOf EXCEPT ![s] = NoAgent]
KeepsAgentMutant(s) ==
    shardStatus' = [shardStatus EXCEPT ![s] = "QUEUED"] /\ UNCHANGED agentOf
RollbackToQueued(s) ==
    /\ shardStatus' = [shardStatus EXCEPT ![s] = "QUEUED"]
    /\ agentOf' = [agentOf EXCEPT ![s] = NoAgent]

SweepShard(w) ==
    LET c == call[w]
    IN  /\ pc[w] = "sweep"
        /\ \E r \in c.rows :
             /\ ShardFree(w, r.id)
             /\ IF MayTransition(r.id, {r.status})
                THEN RollbackToQueued(r.id) ELSE UNCHANGED <<shardStatus, agentOf>>
             /\ Loop(w, "sweep", [c EXCEPT !.rows = @ \ {r}])
        /\ UNCHANGED <<taskStatus, started, outputs>>

\* RollbackTimedOutShard: validation, then the unlocked read of the task.
RollbackTimedOutShard(w, a, s) ==
    /\ Validated(a, s)
    /\ Begin(w, "readTask", [NoCall EXCEPT !.agent = a, !.shard = s])
    /\ UNCHANGED <<tables, outputs>>

ReadTask(w) ==
    LET c == call[w]
    IN  /\ pc[w] = "readTask"
        /\ Goto(w, "rollback", [c EXCEPT !.seen = taskStatus[TaskOf[c.shard]], !.from = Active])
        /\ UNCHANGED <<tables, outputs>>

\* CleanupOrphanShards: active shards whose agent is not among the registered
\* ones and whose started_at is set and older than the threshold.
CleanupOrphanShards(w, registered, old) ==
    LET orphans == {s \in old : shardStatus[s] \in Active /\ agentOf[s] \notin registered}
    IN  /\ old \subseteq started
        /\ orphans # {}
        /\ Begin(w, "cleanup", [NoCall EXCEPT !.rows = Rows(orphans)])
        /\ UNCHANGED <<tables, outputs>>

CleanupShard(w) ==
    LET c == call[w]
    IN  /\ pc[w] = "cleanup"
        /\ \E r \in c.rows :
             Goto(w, "rollback", [c EXCEPT !.shard = r.id, !.from = Active, !.rows = @ \ {r},
                                           !.seen = taskStatus[TaskOf[r.id]]])
        /\ UNCHANGED <<tables, outputs>>

\* The task status the caller of RollbackShardWithTask passed in.
WasWaitingMutant(c) == TRUE
WasWaiting(c) == c.seen = "WAITING_FOR_AGENTS"

\* One transaction: RollbackToQueued and, if the task was read as
\* WAITING_FOR_AGENTS, RollbackTaskToWaiting.
RollbackShardWithTask(w) ==
    LET c == call[w]
        t == TaskOf[c.shard]
        waiting == WasWaiting(c)
    IN  /\ pc[w] = "rollback"
        /\ ShardFree(w, c.shard)
        /\ waiting => TaskFree(w, t)
        /\ IF MayTransition(c.shard, c.from)
           THEN /\ RollbackToQueued(c.shard)
                /\ taskStatus' = IF waiting /\ taskStatus[t] = "QUEUED"
                                 THEN [taskStatus EXCEPT ![t] = "WAITING_FOR_AGENTS"]
                                 ELSE taskStatus
           ELSE UNCHANGED <<shardStatus, agentOf, taskStatus>>
        /\ Loop(w, "cleanup", c)
        /\ UNCHANGED <<started, outputs>>

-----------------------------------------------------------------------------
Init ==
    /\ taskStatus = [t \in Tasks |-> "ABSENT"]
    /\ shardStatus = [s \in Shards |-> "ABSENT"]
    /\ agentOf = [s \in Shards |-> NoAgent]
    /\ started = {}
    /\ hooks = [t \in Tasks |-> <<>>]
    /\ notices = {}
    /\ pc = [w \in Workers |-> "idle"]
    /\ call = [w \in Workers |-> NoCall]

\* The calls the environment starts.
Start(w) ==
    \/ PollPendingTasks(w)
    \/ \E a \in Agents :
         \/ LeaseNextShard(w, a)
         \/ RollbackOrphanShardsForAgent(w, a)
         \/ \E s \in Shards : RollbackTimedOutShard(w, a, s)
         \/ \E s \in Shards, status \in {"RUNNING", "SUCCEEDED", "FAILED"} :
              ReportShardStatus(w, a, s, status)
    \/ \E t \in Tasks : CancelTask(w, t)
    \/ \E registered \in SUBSET Agents, old \in SUBSET Shards :
         CleanupOrphanShards(w, registered, old)

\* The next statement of a call that is under way.
Continue(w) ==
    \/ \E t \in Tasks : MarkTasksStatus(w, t) \/ ProvisionFailed(w, t)
    \/ LeaseSelect(w) \/ LeaseLoad(w) \/ LeasePromote(w) \/ LeaseTake(w)
    \/ AssignSent(w) \/ RollbackAssignedShard(w)
    \/ ReportRead(w) \/ ReportLockTask(w) \/ ReportMarkShard(w)
    \/ RecomputeTaskStatus(w) \/ ReportCommit(w)
    \/ CancelTaskById(w) \/ CancelTaskShardsByTaskId(w)
    \/ DispatchCompletionHook(w) \/ NotifyCancelShard(w)
    \/ SweepShard(w) \/ ReadTask(w) \/ CleanupShard(w) \/ RollbackShardWithTask(w)

Next ==
    \/ \E t \in Tasks : SubmitTask(t)
    \/ \E w \in Workers : Start(w) \/ Continue(w) \/ Abort(w)

Spec == Init /\ [][Next]_vars

\* Fairness: a call that can go on does.  A worker waiting for a row lock is
\* disabled while the row is held, so weak fairness would let it starve;
\* PostgreSQL grants a row lock to its waiters in arrival order.  Every
\* statement moves pc or call.
LiveSpec == Spec /\ \A w \in Workers : SF_<<pc, call>>(pc[w] # "idle" /\ Continue(w))

-----------------------------------------------------------------------------
(* Properties. *)

\* Every column and every local variable holds a value of its type.
TypeOK ==
    /\ taskStatus \in [Tasks -> TaskStatus]
    /\ shardStatus \in [Shards -> ShardStatus]
    /\ agentOf \in [Shards -> Agents \cup {NoAgent}]
    /\ started \subseteq Shards
    /\ hooks \in [Tasks -> Seq(Terminal)]
    /\ notices \subseteq Agents \X Shards
    /\ pc \in [Workers -> Steps \cup {"idle"}]
    /\ call \in [Workers -> Call]

\* A task settled by RecomputeTaskStatus or CancelTask agrees with its shards:
\* SUCCEEDED means every script succeeded, FAILED that all ended and one failed,
\* CANCELLED that no shard is left to run.
SettledTaskConsistent ==
    \A t \in Tasks :
        /\ taskStatus[t] = "SUCCEEDED" =>
             \A s \in ShardsOf(t) : shardStatus[s] = "SUCCEEDED"
        /\ taskStatus[t] = "FAILED" =>
             /\ \A s \in ShardsOf(t) : shardStatus[s] \in {"SUCCEEDED", "FAILED"}
             /\ \E s \in ShardsOf(t) : shardStatus[s] = "FAILED"
        /\ taskStatus[t] = "CANCELLED" =>
             \A s \in ShardsOf(t) : shardStatus[s] \in Terminal

\* Two agents reporting the last two shards at once cannot both miss the
\* completion: when every shard has ended, the task has been settled.
NoMissedCompletion ==
    \A t \in Tasks :
        (\A s \in ShardsOf(t) : shardStatus[s] \in Terminal)
            => taskStatus[t] \in Terminal

\* LeaseNextShard promotes the task in the transaction that leases its shard,
\* so a task that is not yet QUEUED has handed out nothing.
UnleasedUntilPromoted ==
    \A t \in Tasks :
        taskStatus[t] \in {"PENDING", "WAITING_FOR_AGENTS"}
            => \A s \in ShardsOf(t) : shardStatus[s] = "QUEUED"

\* A leased or running shard names an agent of its own tenant and backend, and
\* a queued one names none, whichever rollbacks raced with the lease.
LeaseRecorded ==
    \A s \in Shards :
        /\ shardStatus[s] \in Active => agentOf[s] \in Agents /\ Owns(agentOf[s], s)
        /\ shardStatus[s] = "QUEUED" => agentOf[s] = NoAgent

\* The completion hook is dispatched at most once per task, only for a task
\* with a hook, and with the status the task keeps, although reports and a
\* cancellation race to settle the task and dispatch after their commit.
HookMatchesOutcome ==
    \A t \in Tasks :
        hooks[t] # <<>> =>
            /\ t \in HookTasks
            /\ taskStatus[t] \in Terminal
            /\ hooks[t] = <<taskStatus[t]>>

\* CancelTask notifies agents from a list read before its transaction; still
\* no agent is told to stop a shard unless the shard's task is cancelled.
CancelNoticeIsSafe ==
    \A n \in notices : taskStatus[TaskOf[n[2]]] = "CANCELLED"

Rank(status) ==
    CASE status = "ABSENT" -> 0 [] status = "PENDING" -> 1
      [] status = "WAITING_FOR_AGENTS" -> 2 [] status = "QUEUED" -> 3
      [] status = "RUNNING" -> 4 [] OTHER -> 5

\* A task only advances: no late report, promotion, poller pass or rollback
\* moves it back (RollbackTaskToWaiting included) or changes a settled status.
TaskAdvances ==
    \A t \in Tasks :
        taskStatus'[t] # taskStatus[t] => Rank(taskStatus[t]) < Rank(taskStatus'[t])

\* A shard whose result was accepted, or that was cancelled, is never leased,
\* rolled back or reported again.
ShardStaysEnded ==
    \A s \in Shards : shardStatus[s] \in {"SUCCEEDED", "CANCELLED"} => shardStatus'[s] = shardStatus[s]

\* No step of any call undoes what another has recorded: tasks only advance, and
\* the shards that succeeded or were cancelled stay so.
NothingIsUndone == [][TaskAdvances /\ ShardStaysEnded]_vars

Lifecycle == INSTANCE TaskLifecycle
                 WITH task <- taskStatus, shard <- shardStatus, sent <- hooks

\* The service calls act on the tables as if they ran one at a time: whatever
\* their statements, locks, retries and failures interleave to is a behaviour of
\* TaskLifecycle, where each change is one step.
ActsAtomically == Lifecycle!Spec

\* The rows the next statement of w's call has to lock.
NeededTasks(w) ==
    {t \in Tasks : \/ pc[w] = "poll" /\ t \in call[w].tasks /\ Markable(t)
                   \/ pc[w] \in {"promote", "lock", "cancelTask"} /\ t = call[w].task}
NeededShards(w) ==
    {s \in Shards : \/ pc[w] \in {"take", "mark", "rollback"} /\ s = call[w].shard
                    \/ pc[w] = "cancelShards" /\ s \in OpenShards(call[w].task)
                    \/ pc[w] = "sweep" /\ \E r \in call[w].rows : s = r.id}

Holds(w) == (\E t \in Tasks : HoldsTask(w, t)) \/ (\E s \in Shards : HoldsShard(w, s))
WaitsFor(w, v) ==
    v # w /\ (\/ \E t \in NeededTasks(w) : HoldsTask(v, t)
              \/ \E s \in NeededShards(w) : HoldsShard(v, s))

\* A call that holds a row lock never waits for another: reports, leases and
\* cancellations lock a task before its shards, so whoever holds a shard holds
\* its task.  RollbackShardWithTask, which would lock the shard first, never
\* goes on to the task.
NoLockCycle ==
    \A v \in Workers : /\ Holds(v) => \A w \in Workers : ~WaitsFor(v, w)
                       /\ pc[v] = "rollback" => ~WasWaiting(call[v])

\* The statements a call has before it at most, without the next rows of its
\* loop and without a retry.
StepsLeft(p) ==
    CASE p = "read" -> 6 [] p = "lock" -> 5 [] p = "mark" -> 4
      [] p \in {"recompute", "select", "cancelTask"} -> 3
      [] p \in {"commit", "load", "cancelShards", "assigned", "readTask"} -> 2
      [] p \in {"dispatch", "promote", "rollback"} -> 1 [] OTHER -> 0

Leasing(p) == p \in {"select", "load", "promote", "take"}

\* A statement ends the call or the loop of LeaseNextShard, or begins the next of
\* a bounded number of tries, or leaves fewer rows or groups to process, or brings
\* the call closer to the end of its turn.
Progresses(w) ==
    LET p == pc[w]
        c == call[w]
        q == pc'[w]
        d == call'[w]
    IN  \/ q = "idle"
        \/ Leasing(p) /\ ~Leasing(q)
        \/ /\ Leasing(p) <=> Leasing(q)
           /\ \/ d.tries > c.tries
              \/ /\ d.tries = c.tries
                 /\ \/ d.rows # c.rows /\ d.rows \subseteq c.rows
                    \/ /\ d.rows = c.rows
                       /\ \/ StepsLeft(q) < StepsLeft(p)
                          \/ p = "poll" /\ q = "poll" /\ d.tasks # c.tasks /\ d.tasks \subseteq c.tasks

\* No call goes round in circles, whatever the other calls write between its
\* statements: what a call has left only shrinks.
Moves(w) == pc'[w] # pc[w] \/ call'[w] # call[w]
CallsShrink == [][\A w \in Workers : pc[w] # "idle" /\ Moves(w) => Progresses(w)]_vars

\* Every call returns: no two transactions wait for each other's row locks
\* (tasks are locked before their shards), and the retry loop of
\* LeaseNextShard ends.
EveryCallReturns == \A w \in Workers : pc[w] # "idle" ~> pc[w] = "idle"

\* What the API documentation promises: a task with a hook URL that reached a
\* terminal status has its completion hook sent.  The code dispatches after
\* the commit and keeps no record of a hook still to be sent.
HookEventuallySent ==
    \A t \in HookTasks : taskStatus[t] \in Terminal ~> hooks[t] # <<>>

-----------------------------------------------------------------------------
(* The inductive invariant behind the properties. *)

Unpromoted == {"ABSENT", "PENDING", "WAITING_FOR_AGENTS"}

\* A shard row and the row of its task exist together and are cancelled together.
ShardRowOK(s) ==
    /\ shardStatus[s] = "ABSENT" => taskStatus[TaskOf[s]] = "ABSENT" /\ agentOf[s] = NoAgent
    /\ taskStatus[TaskOf[s]] = "ABSENT" => shardStatus[s] = "ABSENT"
    /\ shardStatus[s] = "CANCELLED" => taskStatus[TaskOf[s]] = "CANCELLED"

\* What the rows say between transactions.
TablesOK ==
    /\ SettledTaskConsistent
    /\ NoMissedCompletion
    /\ UnleasedUntilPromoted
    /\ LeaseRecorded
    /\ \A s \in Shards : ShardRowOK(s)

\* A decision taken from the counts is still right when it is committed.
VerdictOK(c) ==
    LET others == ShardsOf(c.task) \ {c.shard}
    IN  \/ c.seen = "RUNNING" /\ c.want = "RUNNING"
        \/ /\ c.seen = "" /\ c.want # "RUNNING"
           /\ \E s \in others : shardStatus[s] \notin Terminal
        \/ /\ c.seen = "FAILED" /\ c.want # "RUNNING"
           /\ \A s \in others : shardStatus[s] \in {"SUCCEEDED", "FAILED"}
           /\ c.want = "FAILED" \/ \E s \in others : shardStatus[s] = "FAILED"
        \/ /\ c.seen = "SUCCEEDED" /\ c.want = "SUCCEEDED"
           /\ \A s \in others : shardStatus[s] = "SUCCEEDED"

ReportOK(p, c) ==
    /\ p \in {"read", "lock", "mark", "recompute", "commit"} =>
         /\ c.shard \in Shards /\ c.task = TaskOf[c.shard]
         /\ c.want # "" /\ c.rows = {}
         /\ taskStatus[c.task] # "ABSENT"
    /\ p \in {"recompute", "commit"} => shardStatus[c.shard] = Required(c.want)
    /\ p = "recompute" => c.want # "RUNNING"
    /\ p = "commit" => VerdictOK(c)

\* A lease that promoted a task still holds it, and takes that task's shard.
LeaseOK(p, c) ==
    /\ p \in {"select", "load", "promote", "take"} => c.agent \in Agents
    /\ p \in {"load", "promote", "take"} =>
         /\ c.shard \in Shards /\ c.task = TaskOf[c.shard] /\ Owns(c.agent, c.shard)
         /\ taskStatus[c.task] \notin {"ABSENT", "PENDING"}
    /\ p \in {"select", "load", "promote"} => c.tasks = {}
    /\ p = "take" =>
         \/ c.tasks = {} /\ taskStatus[c.task] \notin Unpromoted
         \/ c.tasks = {c.task} /\ taskStatus[c.task] = "WAITING_FOR_AGENTS"
    /\ p \in {"take", "assigned"} => c.shard \in Shards /\ c.seen # "WAITING_FOR_AGENTS"

\* A rollback never finds the task of its shard waiting: RollbackTaskToWaiting
\* is never reached.
RollbackOK(p, c) ==
    /\ \A r \in c.rows : taskStatus[TaskOf[r.id]] \notin Unpromoted
    /\ p = "readTask" => c.shard \in Shards /\ taskStatus[TaskOf[c.shard]] \notin Unpromoted
    /\ p = "rollback" => c.shard \in Shards /\ c.seen # "WAITING_FOR_AGENTS"

CancelOK(p, c) ==
    /\ p \in {"cancelTask", "cancelShards", "dispatch", "notify"} =>
         /\ c.task \in Tasks
         /\ \A r \in c.rows : TaskOf[r.id] = c.task
    /\ p = "cancelTask" => taskStatus[c.task] # "ABSENT"
    /\ p = "cancelShards" =>
         c.seen = "CANCELLED" /\ taskStatus[c.task] \notin Terminal \cup {"ABSENT"}
    /\ p = "dispatch" =>
         /\ c.task \in HookTasks /\ hooks[c.task] = <<>>
         /\ c.seen \in Terminal /\ taskStatus[c.task] = c.seen
         /\ c.rows # {} => c.seen = "CANCELLED"
    /\ p = "notify" => taskStatus[c.task] = "CANCELLED"

CallOK(p, c) == ReportOK(p, c) /\ LeaseOK(p, c) /\ RollbackOK(p, c) /\ CancelOK(p, c)

\* Row locks are exclusive, and only one worker settles a task.
Exclusive ==
    \A v, w \in Workers :
        v # w => /\ \A t \in Tasks : ~(HoldsTask(v, t) /\ HoldsTask(w, t))
                 /\ pc[v] = "dispatch" /\ pc[w] = "dispatch" => call[v].task # call[w].task

\* The inductive invariant: the tables agree with each other and every call in
\* progress agrees with the tables, as far as its locks protect what it read.
IndInv ==
    /\ TypeOK
    /\ TablesOK
    /\ HookMatchesOutcome
    /\ CancelNoticeIsSafe
    /\ Exclusive
    /\ \A w \in Workers : CallOK(pc[w], call[w])
=============================================================================
