------------------------ MODULE TaskLifecycleProofs ------------------------
(***************************************************************************)
(* TaskStore implements TaskLifecycle: under the inductive invariant, each *)
(* statement that writes a table or sends a hook is a step of the abstract *)
(* specification, and every other statement changes nothing it sees.       *)
(***************************************************************************)
EXTENDS TaskStoreProofs

\* The statements that write neither a status nor a hook.
LEMMA UnseenStep ==
    ASSUME NEW w \in Workers,
           \/ Start(w) \/ Abort(w)
           \/ \E t \in Tasks : ProvisionFailed(w, t)
           \/ LeaseSelect(w) \/ LeaseLoad(w) \/ LeasePromote(w)
           \/ AssignSent(w) \/ RollbackAssignedShard(w)
           \/ ReportRead(w) \/ ReportLockTask(w) \/ ReportMarkShard(w) \/ RecomputeTaskStatus(w)
           \/ CancelTaskById(w) \/ NotifyCancelShard(w) \/ ReadTask(w) \/ CleanupShard(w)
    PROVE  UNCHANGED Lifecycle!vars
<1> USE DEF Lifecycle!vars, tables, outputs
<1>1. CASE Start(w) \/ Abort(w) \/ \E t \in Tasks : ProvisionFailed(w, t)
  BY <1>1, Zenon DEF Start, Abort, PollPendingTasks, LeaseNextShard, ReportShardStatus, CancelTask,
              RollbackOrphanShardsForAgent, RollbackTimedOutShard, CleanupOrphanShards, ProvisionFailed
<1>2. CASE LeaseSelect(w) \/ LeaseLoad(w) \/ LeasePromote(w) \/ AssignSent(w) \/ RollbackAssignedShard(w)
  BY <1>2, Zenon DEF LeaseSelect, LeaseLoad, LeasePromote, AssignSent, RollbackAssignedShard
<1>3. CASE ReportRead(w) \/ ReportLockTask(w) \/ ReportMarkShard(w) \/ RecomputeTaskStatus(w)
  BY <1>3, Zenon DEF ReportRead, ReportLockTask, ReportMarkShard, RecomputeTaskStatus
<1>4. CASE CancelTaskById(w) \/ NotifyCancelShard(w) \/ ReadTask(w) \/ CleanupShard(w)
  BY <1>4, Zenon DEF CancelTaskById, NotifyCancelShard, ReadTask, CleanupShard
<1> QED
  BY <1>1, <1>2, <1>3, <1>4, Zenon

\* A shard that is queued, leased or running belongs to a task that has not settled.
LEMMA OpenTask ==
    ASSUME IndInv, NEW s \in Shards, shardStatus[s] \in {"QUEUED"} \cup Active
    PROVE  taskStatus[TaskOf[s]] \notin Terminal \cup {"ABSENT"}
<1>1. TaskOf[s] \in Tasks /\ s \in ShardsOf(TaskOf[s])
  BY StoreFacts, SMTT(30) DEF ShardsOf
<1>2. shardStatus[s] \notin Terminal \cup {"ABSENT"}
  BY DEF Active, Terminal
<1>3. taskStatus[TaskOf[s]] # "ABSENT"
  BY <1>2, Zenon DEF IndInv, TablesOK, ShardRowOK
<1>4. taskStatus[TaskOf[s]] \notin Terminal
  BY <1>1, <1>2, SMTT(30) DEF IndInv, TablesOK, SettledTaskConsistent, Terminal
<1> QED
  BY <1>3, <1>4

\* A lease is one step: it takes a queued shard of a task that has not settled.
LEMMA LeaseRefines ==
    ASSUME IndInv, NEW w \in Workers, LeaseTake(w)
    PROVE  [Lifecycle!Next]_(Lifecycle!vars)
<1> DEFINE c == call[w]  s == c.shard
<1>1. CASE shardStatus[s] # "QUEUED"
  BY <1>1, Zenon DEF LeaseTake, Lifecycle!vars, outputs
<1>2. CASE shardStatus[s] = "QUEUED"
  <2>1. /\ pc[w] = "take" /\ UNCHANGED hooks
        /\ shardStatus' = [shardStatus EXCEPT ![s] = "LEASED"]
        /\ taskStatus' = [t \in Tasks |-> IF t \in c.tasks THEN "QUEUED" ELSE taskStatus[t]]
    BY <1>2, Zenon DEF LeaseTake, outputs
  <2>2. LeaseOK("take", c)
    BY <2>1, Zenon DEF IndInv, CallOK
  <2>3. /\ s \in Shards /\ c.task = TaskOf[s]
        /\ \/ c.tasks = {} /\ taskStatus[c.task] \notin Unpromoted
           \/ c.tasks = {c.task} /\ taskStatus[c.task] = "WAITING_FOR_AGENTS"
    BY <2>2, Zenon DEF LeaseOK
  <2>4. taskStatus[TaskOf[s]] \notin Terminal \cup {"ABSENT"}
    BY <1>2, <2>3, OpenTask
  <2>5. taskStatus \in [Tasks -> TaskStatus] /\ TaskOf[s] \in Tasks
    BY <2>3, StoreFacts DEF IndInv, TypeOK
  <2>6. taskStatus[TaskOf[s]] \in {"WAITING_FOR_AGENTS", "QUEUED", "RUNNING"}
    <3>1. taskStatus[TaskOf[s]] \in TaskStatus /\ taskStatus[TaskOf[s]] # "PENDING"
      BY <2>3, <2>5, ZenonT(30) DEF Unpromoted
    <3> QED
      BY <2>4, <3>1 DEF TaskStatus, Leasable, Terminal
  <2>7. taskStatus' = [taskStatus EXCEPT ![TaskOf[s]] = IF @ = "RUNNING" THEN @ ELSE "QUEUED"]
    <3>1. CASE c.tasks = {} /\ taskStatus[c.task] \notin Unpromoted
      BY <2>1, <2>3, <2>5, <2>6, <3>1, Zenon DEF Unpromoted
    <3>2. CASE c.tasks = {c.task} /\ taskStatus[c.task] = "WAITING_FOR_AGENTS"
      BY <2>1, <2>3, <2>5, <3>2, Zenon
    <3> QED
      BY <2>3, <3>1, <3>2
  <2>8. Lifecycle!Lease(s)
    BY <1>2, <2>1, <2>6, <2>7, Zenon DEF Lifecycle!Lease
  <2> QED
    BY <2>3, <2>8, Zenon DEF Lifecycle!Next
<1> QED
  BY <1>1, <1>2

\* A rollback that finds its shard active is one step; RollbackTaskToWaiting is not reached.
LEMMA RollbackRefines ==
    ASSUME IndInv, NEW w \in Workers, SweepShard(w) \/ RollbackShardWithTask(w)
    PROVE  [Lifecycle!Next]_(Lifecycle!vars)
<1>1. call[w] \in Call /\ CallOK(pc[w], call[w])
  BY Zenon DEF IndInv, TypeOK
<1>2. /\ UNCHANGED <<taskStatus, hooks>>
      /\ \/ UNCHANGED shardStatus
         \/ \E s \in Shards : shardStatus[s] \in Active /\ shardStatus' = [shardStatus EXCEPT ![s] = "QUEUED"]
  <2>1. CASE SweepShard(w)
    <3>1. PICK r \in call[w].rows : IF MayTransition(r.id, {r.status})
                                    THEN RollbackToQueued(r.id) ELSE UNCHANGED <<shardStatus, agentOf>>
      BY <2>1, Zenon DEF SweepShard
    <3>2. r.status \in Active /\ r.id \in Shards
      BY <1>1, <3>1, ZenonT(30) DEF Call, Row
    <3>3. UNCHANGED <<taskStatus, hooks>>
      BY <2>1, Zenon DEF SweepShard, outputs
    <3> QED
      BY <3>1, <3>2, <3>3 DEF MayTransition, RollbackToQueued
  <2>2. CASE RollbackShardWithTask(w)
    <3>1. call[w].from \subseteq Active
      BY <1>1, Zenon DEF Call
    <3>2. pc[w] = "rollback" /\ UNCHANGED hooks
      BY <2>2, Zenon DEF RollbackShardWithTask, outputs
    <3>3. call[w].shard \in Shards /\ ~WasWaiting(call[w])
      BY <1>1, <3>2, Zenon DEF CallOK, RollbackOK, WasWaiting
    <3>4. UNCHANGED taskStatus
      BY <2>2, <3>3, Zenon DEF RollbackShardWithTask
    <3>5. \/ UNCHANGED shardStatus
          \/ /\ MayTransition(call[w].shard, call[w].from)
             /\ shardStatus' = [shardStatus EXCEPT ![call[w].shard] = "QUEUED"]
      BY <2>2, Zenon DEF RollbackShardWithTask, RollbackToQueued
    <3> QED
      BY <3>1, <3>2, <3>3, <3>4, <3>5, Zenon DEF MayTransition
  <2> QED
    BY <2>1, <2>2
<1>3. ASSUME NEW s \in Shards, shardStatus[s] \in Active, shardStatus' = [shardStatus EXCEPT ![s] = "QUEUED"]
      PROVE  Lifecycle!Next
  <2>1. Lifecycle!PutBack(s)
    BY <1>2, <1>3 DEF Lifecycle!PutBack, Active
  <2> QED
    BY <2>1, Zenon DEF Lifecycle!Next
<1> QED
  BY <1>2, <1>3, Zenon DEF Lifecycle!vars

\* A report commits in one step: a start, or the end of a shard together with what it decides.
LEMMA CommitRefines ==
    ASSUME IndInv, NEW w \in Workers, ReportCommit(w)
    PROVE  [Lifecycle!Next]_(Lifecycle!vars)
<1> DEFINE c == call[w]  s == c.shard  t == TaskOf[s]
           others == ShardsOf(t) \ {s}
           settled == c.seen \in Terminal
<1>1. pc[w] = "commit" /\ UNCHANGED hooks
  BY Zenon DEF ReportCommit, outputs
<1>2. ReportOK("commit", c)
  BY <1>1, Zenon DEF IndInv, CallOK
<1>3. s \in Shards /\ c.task = t /\ shardStatus[s] = Required(c.want) /\ VerdictOK(c)
  BY <1>2, Zenon DEF ReportOK
<1>4. shardStatus[s] \in Active
  BY <1>3 DEF Required, Active
<1>5. taskStatus[t] \notin Terminal \cup {"ABSENT"}
  BY <1>3, <1>4, OpenTask, Zenon
<1>6. taskStatus \in [Tasks -> TaskStatus] /\ t \in Tasks /\ s \in ShardsOf(t)
  BY <1>3, StoreFacts DEF IndInv, TypeOK, ShardsOf
<1>7. /\ shardStatus' = [shardStatus EXCEPT ![s] = c.want]
      /\ taskStatus' = IF settled \/ c.seen = "RUNNING"
                       THEN [taskStatus EXCEPT ![t] = c.seen] ELSE taskStatus
  <2>1. taskStatus[c.task] # "CANCELLED" /\ taskStatus[c.task] \notin Terminal
    BY <1>3, <1>5, Zenon DEF Terminal
  <2> QED
    BY <1>3, <2>1, Zenon DEF ReportCommit
<1>8. CASE c.want = "RUNNING"
  <2>1. c.seen = "RUNNING" /\ shardStatus[s] = "LEASED"
    BY <1>3, <1>8, Zenon DEF VerdictOK, Required
  <2>2. taskStatus[t] \notin {"PENDING", "WAITING_FOR_AGENTS"}
    BY <1>6, <2>1, Zenon DEF IndInv, TablesOK, UnleasedUntilPromoted
  <2>3. taskStatus[t] \in TaskStatus
    BY <1>6
  <2>4. taskStatus[t] \in {"QUEUED", "RUNNING"}
    BY <1>5, <2>2, <2>3 DEF TaskStatus, Leasable, Terminal
  <2>5. Lifecycle!Start(s)
    BY <1>1, <1>7, <1>8, <2>1, <2>4, Zenon DEF Lifecycle!Start
  <2> QED
    BY <1>3, <2>5, Zenon DEF Lifecycle!Next
<1>9. CASE c.want # "RUNNING"
  <2>1. shardStatus[s] = "RUNNING" /\ c.want \in {"SUCCEEDED", "FAILED"}
    <3>1. c \in Call /\ c.want # ""
      BY <1>2, Zenon DEF IndInv, TypeOK, ReportOK
    <3> QED
      BY <1>3, <1>9, <3>1, Zenon DEF Call, Required
  <2> DEFINE last == \A r \in others : shardStatus[r] \in Terminal
             failed == c.want = "FAILED" \/ \E r \in others : shardStatus[r] = "FAILED"
  <2>2. \/ c.seen = "" /\ ~last
        \/ c.seen = "FAILED" /\ last /\ failed
        \/ c.seen = "SUCCEEDED" /\ last /\ ~failed
    <3>1. others = ShardsOf(c.task) \ {s}
      BY <1>3
    <3>2. CASE c.seen = ""
      BY <1>3, <3>1, <3>2, Zenon DEF VerdictOK
    <3>3. CASE c.seen = "FAILED"
      BY <1>3, <3>1, <3>3, Zenon DEF VerdictOK, Terminal
    <3>4. CASE c.seen = "SUCCEEDED"
      BY <1>3, <3>1, <3>4, Zenon DEF VerdictOK, Terminal
    <3> QED
      BY <1>3, <1>9, <3>2, <3>3, <3>4, Zenon DEF VerdictOK
  <2>3. taskStatus' = IF last THEN [taskStatus EXCEPT ![t] = IF failed THEN "FAILED" ELSE "SUCCEEDED"]
                      ELSE taskStatus
    <3> HIDE DEF last, failed
    <3> QED
      BY <1>7, <2>2, Zenon DEF Terminal
  <2>4. Lifecycle!ShardsOf(t) = ShardsOf(t) /\ Lifecycle!Settled = Terminal
    BY DEF Lifecycle!ShardsOf, ShardsOf, Lifecycle!Settled, Terminal
  <2>5. Lifecycle!End(s, c.want)
    BY <1>1, <1>5, <1>7, <2>1, <2>3, <2>4, Zenon DEF Lifecycle!End
  <2> QED
    BY <1>3, <2>1, <2>5, Zenon DEF Lifecycle!Next
<1> QED
  BY <1>8, <1>9

\* A cancellation takes the task and its open shards in one step.
LEMMA CancelRefines ==
    ASSUME IndInv, NEW w \in Workers, CancelTaskShardsByTaskId(w)
    PROVE  [Lifecycle!Next]_(Lifecycle!vars)
<1> DEFINE t == call[w].task
<1>1. CancelOK("cancelShards", call[w])
  BY Zenon DEF IndInv, CallOK, CancelTaskShardsByTaskId
<1>2. t \in Tasks /\ taskStatus[t] \notin Terminal \cup {"ABSENT"}
  BY <1>1, Zenon DEF CancelOK
<1>3. /\ taskStatus' = [taskStatus EXCEPT ![t] = "CANCELLED"] /\ UNCHANGED hooks
      /\ shardStatus' = [s \in Shards |-> IF s \in OpenShards(t) THEN "CANCELLED" ELSE shardStatus[s]]
  BY Zenon DEF CancelTaskShardsByTaskId, outputs
<1>4. \A s \in Shards : s \in OpenShards(t) <=> TaskOf[s] = t /\ shardStatus[s] \notin Terminal
  BY DEF OpenShards, ShardsOf
<1>5. shardStatus' = [s \in Shards |-> IF TaskOf[s] = t /\ shardStatus[s] \notin Terminal
                                       THEN "CANCELLED" ELSE shardStatus[s]]
  BY <1>3, <1>4, Zenon
<1>6. Lifecycle!Settled = Terminal
  BY DEF Lifecycle!Settled, Terminal
<1>7. Lifecycle!Cancel(t)
  BY <1>2, <1>3, <1>5, <1>6, Zenon DEF Lifecycle!Cancel
<1> QED
  BY <1>2, <1>7, Zenon DEF Lifecycle!Next

\* A hook is sent once, with the status of the task.
LEMMA DispatchRefines ==
    ASSUME IndInv, NEW w \in Workers, DispatchCompletionHook(w)
    PROVE  [Lifecycle!Next]_(Lifecycle!vars)
<1> DEFINE c == call[w]  t == c.task
<1>1. CancelOK("dispatch", c)
  BY Zenon DEF IndInv, CallOK, DispatchCompletionHook
<1>2. /\ t \in HookTasks /\ hooks[t] = <<>>
      /\ c.seen \in Terminal /\ taskStatus[t] = c.seen
  BY <1>1, Zenon DEF CancelOK
<1>3. hooks' = [hooks EXCEPT ![t] = Append(@, c.seen)] /\ UNCHANGED <<taskStatus, shardStatus>>
  BY Zenon DEF DispatchCompletionHook, tables
<1>4. Append(hooks[t], c.seen) = <<taskStatus[t]>>
  BY <1>2, SMTT(30) DEF Terminal
<1>5. hooks' = [hooks EXCEPT ![t] = <<taskStatus[t]>>]
  BY <1>3, <1>4, Zenon
<1>6. Lifecycle!Settled = Terminal
  BY DEF Lifecycle!Settled, Terminal
<1>7. Lifecycle!Notify(t)
  BY <1>2, <1>3, <1>5, <1>6, Zenon DEF Lifecycle!Notify
<1> QED
  BY <1>2, <1>7, Zenon DEF Lifecycle!Next

\* Submitting a task, and marking the tasks of a group.
LEMMA SubmitRefines ==
    ASSUME NEW t \in Tasks, SubmitTask(t) \/ \E w \in Workers : MarkTasksStatus(w, t)
    PROVE  [Lifecycle!Next]_(Lifecycle!vars)
<1>1. CASE SubmitTask(t)
  <2>1. Lifecycle!Submit(t)
    BY <1>1, Zenon DEF SubmitTask, Lifecycle!Submit, outputs
  <2> QED
    BY <2>1, Zenon DEF Lifecycle!Next
<1>2. ASSUME NEW w \in Workers, MarkTasksStatus(w, t)
      PROVE  Lifecycle!Next
  <2> DEFINE marked == {u \in Group(w, t) : Markable(u)}
             T == marked \cap Tasks
  <2>1. /\ taskStatus' = [u \in Tasks |-> IF u \in marked THEN "WAITING_FOR_AGENTS" ELSE taskStatus[u]]
        /\ UNCHANGED <<shardStatus, hooks>>
    BY <1>2, Zenon DEF MarkTasksStatus, outputs
  <2>2. taskStatus' = [u \in Tasks |-> IF u \in T THEN "WAITING_FOR_AGENTS" ELSE taskStatus[u]]
    BY <2>1, Zenon
  <2>3. \A u \in T : taskStatus[u] = "PENDING"
    BY DEF Markable
  <2>4. Lifecycle!Provision(T)
    BY <2>1, <2>2, <2>3, Zenon DEF Lifecycle!Provision
  <2>5. T \in SUBSET Tasks
    OBVIOUS
  <2> QED
    BY <2>4, <2>5, Zenon DEF Lifecycle!Next
<1> QED
  BY <1>1, <1>2, Zenon

\* Whatever the statements, locks, retries and failures of the service calls interleave to, the
\* tables and the hooks change as in TaskLifecycle.
THEOREM Refinement == Spec => ActsAtomically
<1>1. Init => Lifecycle!Init
  BY DEF Init, Lifecycle!Init
<1>2. IndInv /\ [Next]_vars => [Lifecycle!Next]_(Lifecycle!vars)
  <2>1. CASE UNCHANGED vars
    BY <2>1 DEF vars, Lifecycle!vars
  <2>2. ASSUME IndInv, NEW w \in Workers, Continue(w)
        PROVE  [Lifecycle!Next]_(Lifecycle!vars)
    <3>1. CASE \E t \in Tasks : MarkTasksStatus(w, t)
      BY <3>1, SubmitRefines, Zenon
    <3>2. CASE LeaseTake(w) \/ ReportCommit(w) \/ SweepShard(w) \/ RollbackShardWithTask(w)
      BY <2>2, <3>2, LeaseRefines, CommitRefines, RollbackRefines, Zenon
    <3>3. CASE CancelTaskShardsByTaskId(w) \/ DispatchCompletionHook(w)
      BY <2>2, <3>3, CancelRefines, DispatchRefines, Zenon
    <3> QED
      BY <2>2, <3>1, <3>2, <3>3, UnseenStep, Zenon DEF Continue
  <2>3. ASSUME IndInv, Next
        PROVE  [Lifecycle!Next]_(Lifecycle!vars)
    BY <2>2, <2>3, SubmitRefines, UnseenStep, Zenon DEF Next
  <2> QED
    BY <2>1, <2>3, Zenon
<1> QED
  BY <1>1, <1>2, Inductive, PTL DEF Spec, ActsAtomically, Lifecycle!Spec
=============================================================================
