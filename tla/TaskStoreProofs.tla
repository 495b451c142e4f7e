--------------------------- MODULE TaskStoreProofs ---------------------------
(***************************************************************************)
(* Proofs about TaskStore, for any number of tasks, shards, agents and     *)
(* concurrent service calls: IndInv is inductive, and the safety           *)
(* properties follow from it.                                              *)
(***************************************************************************)
EXTENDS TaskStore, TLAPS

\* What most steps use of the assumptions; the order of the ids is cited where it matters.
LEMMA StoreFacts ==
    /\ TaskOf \in [Shards -> Tasks] /\ 0 \notin Tasks /\ 0 \notin Shards
    /\ NoAgent \notin Agents /\ HookTasks \subseteq Tasks /\ MaxRetries \in Nat \ {0}
BY StoreAssumption

USE StoreFacts

\* Only worker w moved.
Frame(w) ==
    /\ pc' = [pc EXCEPT ![w] = pc'[w]]
    /\ call' = [call EXCEPT ![w] = call'[w]]

\* The empty call record is a call record.
LEMMA NoCallType == NoCall \in Call /\ NoCall.rows = {}
BY DEF NoCall, Call

\* A jump of worker w leaves the other workers where they are.
LEMMA GotoFrame ==
    ASSUME TypeOK, NEW w \in Workers, NEW p, NEW c, Goto(w, p, c)
    PROVE  Frame(w) /\ pc'[w] = p /\ call'[w] = c
BY DEF TypeOK, Goto, Frame

\* Going on with the rows still to process, or returning, leaves the other workers where they are.
LEMMA LoopFrame ==
    ASSUME TypeOK, NEW w \in Workers, NEW p, NEW c \in Call, Loop(w, p, c)
    PROVE  /\ Frame(w) /\ call'[w] \in Call
           /\ \/ pc'[w] = "idle" /\ call'[w].rows = {}
              \/ pc'[w] = p /\ call'[w] = c /\ c.rows # {}
<1>1. CASE c.rows = {}
  <2>1. Goto(w, "idle", NoCall)
    BY <1>1 DEF Loop, Return
  <2> QED
    BY <2>1, GotoFrame, NoCallType
<1>2. CASE c.rows # {}
  <2>1. Goto(w, p, c)
    BY <1>2 DEF Loop
  <2> QED
    BY <1>2, <2>1, GotoFrame
<1> QED
  BY <1>1, <1>2

\* A jump of one worker to a step of the program keeps the types of pc and call.
LEMMA FrameType ==
    ASSUME TypeOK, NEW w \in Workers, Frame(w), pc'[w] \in Steps \cup {"idle"}, call'[w] \in Call
    PROVE  pc' \in [Workers -> Steps \cup {"idle"}] /\ call' \in [Workers -> Call]
<1>1. pc \in [Workers -> Steps \cup {"idle"}] /\ call \in [Workers -> Call]
  BY DEF TypeOK
<1> QED
  BY <1>1 DEF Frame

\* A shard row that is kept, ended, queued without an agent or given to an agent that may own it
\* keeps the record of leases.
LEMMA RecordKept ==
    ASSUME LeaseRecorded,
           \A s \in Shards :
             \/ shardStatus'[s] = shardStatus[s] /\ agentOf'[s] = agentOf[s]
             \/ shardStatus'[s] \in Terminal
             \/ shardStatus'[s] = "QUEUED" /\ agentOf'[s] = NoAgent
             \/ shardStatus'[s] = "LEASED" /\ agentOf'[s] \in Agents /\ Owns(agentOf'[s], s)
    PROVE  LeaseRecorded'
<1> SUFFICES ASSUME NEW s \in Shards
             PROVE  /\ shardStatus'[s] \in Active =>
                         agentOf'[s] \in Agents /\ TaskTenant[TaskOf[s]] = AgentTenant[agentOf'[s]]
                    /\ shardStatus'[s] = "QUEUED" => agentOf'[s] = NoAgent
  BY DEF LeaseRecorded, Owns
<1>1. /\ shardStatus[s] \in Active => agentOf[s] \in Agents /\ Owns(agentOf[s], s)
      /\ shardStatus[s] = "QUEUED" => agentOf[s] = NoAgent
  BY Zenon DEF LeaseRecorded
<1> QED
  BY <1>1 DEF Owns, Active, Terminal

\* The initial state, before any task is submitted, satisfies the invariant.
LEMMA InitInductive == Init => IndInv
<1> SUFFICES ASSUME Init PROVE IndInv
  OBVIOUS
<1>1. TypeOK
  BY NoCallType DEF Init, TypeOK, TaskStatus, ShardStatus
<1>2. TablesOK
  <2>1. \A t \in Tasks : \E s \in Shards : TaskOf[s] = t
    BY StoreAssumption, Zenon
  <2>2. NoMissedCompletion
    BY <2>1 DEF Init, NoMissedCompletion, ShardsOf, Terminal
  <2>3. SettledTaskConsistent /\ UnleasedUntilPromoted
    BY DEF Init, SettledTaskConsistent, UnleasedUntilPromoted
  <2>4. LeaseRecorded /\ \A s \in Shards : ShardRowOK(s)
    BY DEF Init, LeaseRecorded, Active, ShardRowOK
  <2> QED
    BY <2>2, <2>3, <2>4 DEF TablesOK
<1>3. HookMatchesOutcome /\ CancelNoticeIsSafe
  BY DEF Init, HookMatchesOutcome, CancelNoticeIsSafe
<1>4. Exclusive
  BY DEF Init, Exclusive, HoldsTask, LocksTask
<1>5. ASSUME NEW w \in Workers PROVE CallOK(pc[w], call[w])
  BY NoCallType DEF Init, CallOK, ReportOK, LeaseOK, RollbackOK, CancelOK
<1> QED
  BY <1>1, <1>2, <1>3, <1>4, <1>5 DEF IndInv

-----------------------------------------------------------------------------
(* Steps that only move a worker: the tables and the outputs stay. *)

\* A step of one worker that writes nothing keeps the invariant if the worker's new call agrees with
\* the tables and takes only locks that are free.
LEMMA QuietStep ==
    ASSUME IndInv, NEW w \in Workers, NEW p \in Steps \cup {"idle"}, p # "dispatch",
           NEW c \in Call, CallOK(p, c),
           \A v \in Workers \ {w}, t \in Tasks : LocksTask(p, c, t) => ~HoldsTask(v, t),
           Goto(w, p, c), UNCHANGED <<tables, outputs>>
    PROVE  IndInv'
<1> USE DEF tables, outputs
<1>1. TypeOK'
  BY DEF IndInv, TypeOK, Goto
<1>2. ASSUME NEW v \in Workers \ {w} PROVE pc'[v] = pc[v] /\ call'[v] = call[v]
  BY DEF Goto, IndInv, TypeOK
<1>3. pc'[w] = p /\ call'[w] = c
  BY DEF Goto, IndInv, TypeOK
<1>4. TablesOK' /\ HookMatchesOutcome' /\ CancelNoticeIsSafe'
  BY DEF IndInv, TablesOK, ShardRowOK, SettledTaskConsistent, NoMissedCompletion, UnleasedUntilPromoted,
         LeaseRecorded, Owns, HookMatchesOutcome, CancelNoticeIsSafe
<1>5. ASSUME NEW v \in Workers PROVE CallOK(pc[v], call[v])'
  <2>1. PICK q, d : q = pc'[v] /\ d = call'[v] /\ CallOK(q, d)
    BY <1>2, <1>3 DEF IndInv
  <2>2. ReportOK(pc[v], call[v])'
    BY <2>1, Zenon DEF CallOK, ReportOK, VerdictOK
  <2>3. LeaseOK(pc[v], call[v])'
    BY <2>1 DEF CallOK, LeaseOK, Owns
  <2>4. RollbackOK(pc[v], call[v])'
    BY <2>1 DEF CallOK, RollbackOK
  <2>5. CancelOK(pc[v], call[v])'
    BY <2>1 DEF CallOK, CancelOK
  <2> QED
    BY <2>2, <2>3, <2>4, <2>5 DEF CallOK
<1>6. Exclusive'
  <2>1. ASSUME NEW v \in Workers \ {w}, NEW t \in Tasks PROVE HoldsTask(v, t)' = HoldsTask(v, t)
    BY <1>2 DEF HoldsTask, LocksTask
  <2>2. ASSUME NEW t \in Tasks PROVE HoldsTask(w, t)' = LocksTask(p, c, t)
    BY <1>3 DEF HoldsTask, LocksTask
  <2> QED
    BY <1>2, <1>3, <2>1, <2>2 DEF IndInv, Exclusive
<1> QED
  BY <1>1, <1>4, <1>5, <1>6 DEF IndInv

\* Returning, normally or because the call was cut short.
LEMMA ReturnStep ==
    ASSUME IndInv, NEW w \in Workers, Return(w), UNCHANGED <<tables, outputs>>
    PROVE  IndInv'
<1>1. CallOK("idle", NoCall)
  BY NoCallType DEF CallOK, ReportOK, LeaseOK, RollbackOK, CancelOK
<1>2. \A t \in Tasks : ~LocksTask("idle", NoCall, t)
  BY DEF LocksTask
<1> QED
  BY <1>1, <1>2, NoCallType, QuietStep, Zenon DEF Return

\* A step outside the transactions that hold a task row takes no lock.
LEMMA FreeStep ==
    ASSUME IndInv, NEW w \in Workers,
           NEW p \in Steps \ {"dispatch", "mark", "recompute", "commit", "cancelShards"},
           NEW c \in Call, CallOK(p, c), p = "take" => c.tasks = {},
           Goto(w, p, c), UNCHANGED <<tables, outputs>>
    PROVE  IndInv'
<1>1. \A t \in Tasks : ~LocksTask(p, c, t)
  BY DEF LocksTask, CallOK, LeaseOK
<1> QED
  BY <1>1, QuietStep

\* The poller reads the pending tasks, or drops a group it could not provision.
LEMMA PollStep ==
    ASSUME IndInv, NEW w \in Workers,
           PollPendingTasks(w) \/ \E t \in Tasks : ProvisionFailed(w, t)
    PROVE  IndInv'
<1>1. call[w] \in Call /\ RollbackOK(pc[w], call[w])
  BY DEF IndInv, TypeOK, CallOK
<1>2. CASE PollPendingTasks(w)
  <2> DEFINE c == [NoCall EXCEPT !.tasks = {u \in Tasks : taskStatus[u] = "PENDING"}]
  <2>1. c \in Call /\ c.rows = {}
    BY NoCallType, Zenon DEF Call, NoCall
  <2>2. CallOK("poll", c)
    BY <2>1 DEF CallOK, ReportOK, LeaseOK, RollbackOK, CancelOK
  <2> QED
    BY <1>2, <2>1, <2>2, FreeStep, Zenon DEF PollPendingTasks, Begin, Goto, Steps
<1>3. ASSUME NEW t \in Tasks, ProvisionFailed(w, t)
      PROVE  IndInv'
  <2> DEFINE c == [call[w] EXCEPT !.tasks = call[w].tasks \ Group(w, t)]
  <2>1. c \in Call /\ c.rows = call[w].rows
    BY <1>1, Zenon DEF Call
  <2>2. CallOK("poll", c)
    BY <1>1, <2>1 DEF CallOK, ReportOK, LeaseOK, RollbackOK, CancelOK
  <2>3. CASE Return(w)
    BY <1>3, <2>3, ReturnStep DEF ProvisionFailed
  <2>4. CASE Goto(w, "poll", c)
    BY <1>3, <2>1, <2>2, <2>4, FreeStep DEF ProvisionFailed, Steps
  <2> QED
    BY <1>3, <2>3, <2>4 DEF ProvisionFailed, PollDone
<1> QED
  BY <1>2, <1>3

\* Another try of the lease, or the end of the retries.
LEMMA RetryStep ==
    ASSUME IndInv, NEW w \in Workers, pc[w] \in {"load", "take"}, call[w].tasks = {},
           LeaseRetry(w), UNCHANGED <<tables, outputs>>
    PROVE  IndInv'
<1> DEFINE d == call[w]
           c == [d EXCEPT !.tries = @ + 1]
<1>1. d \in Call /\ CallOK(pc[w], d)
  BY DEF IndInv, TypeOK
<1>2. CASE Return(w)
  BY <1>2, ReturnStep
<1>3. CASE d.tries + 1 # MaxRetries /\ Goto(w, "select", c)
  <2>1. d.tries \in 0..(MaxRetries - 1) /\ MaxRetries \in Nat
    BY <1>1, Zenon, StoreAssumption DEF Call
  <2>2. d.tries + 1 \in 0..(MaxRetries - 1)
    BY <1>3, <2>1
  <2>3. c \in Call /\ c.rows = d.rows /\ c.agent = d.agent /\ c.tasks = d.tasks
    BY <1>1, <2>2, Zenon DEF Call
  <2>4. CallOK("select", c)
    BY <1>1, <2>3, Zenon DEF CallOK, ReportOK, LeaseOK, RollbackOK, CancelOK
  <2> QED
    BY <1>3, <2>3, <2>4, FreeStep DEF Steps
<1> QED
  BY <1>2, <1>3 DEF LeaseRetry

\* LeaseNextShard up to the UPDATE of the shard.  The promotion locks a task
\* that no other transaction holds.
LEMMA LeaseQuietStep ==
    ASSUME IndInv, NEW w \in Workers,
           \/ \E a \in Agents : LeaseNextShard(w, a)
           \/ LeaseSelect(w) \/ LeaseLoad(w) \/ LeasePromote(w)
           \/ AssignSent(w) \/ RollbackAssignedShard(w)
    PROVE  IndInv'
<1> DEFINE d == call[w]
<1>1. d \in Call /\ CallOK(pc[w], d)
  BY DEF IndInv, TypeOK
<1>2. ASSUME NEW a \in Agents, LeaseNextShard(w, a)
      PROVE  IndInv'
  <2> DEFINE c == [NoCall EXCEPT !.agent = a]
  <2>1. c \in Call /\ c.rows = {} /\ c.agent = a /\ c.tasks = {}
    BY NoCallType, Zenon DEF Call, NoCall
  <2>2. CallOK("select", c)
    BY <2>1 DEF CallOK, ReportOK, LeaseOK, RollbackOK, CancelOK
  <2> QED
    BY <1>2, <2>1, <2>2, FreeStep, Zenon DEF LeaseNextShard, Begin, Goto, Steps
<1>3. CASE LeaseSelect(w)
  <2>1. CASE Return(w)
    BY <1>3, <2>1, ReturnStep, Zenon DEF LeaseSelect
  <2>2. ASSUME NEW s \in Shards, LeaseCandidate(d.agent, s),
               Goto(w, "load", [d EXCEPT !.shard = s, !.task = TaskOf[s]])
        PROVE  IndInv'
    <3> DEFINE c == [d EXCEPT !.shard = s, !.task = TaskOf[s]]
    <3>1. /\ c \in Call /\ c.rows = d.rows /\ c.agent = d.agent /\ c.tasks = d.tasks
          /\ c.shard = s /\ c.task = TaskOf[s]
      BY <1>1, Zenon DEF Call
    <3>2. CallOK("load", c)
      BY <1>1, <1>3, <2>2, <3>1, Zenon DEF LeaseSelect, LeaseCandidate, Leasable, Owns,
                                    CallOK, ReportOK, LeaseOK, RollbackOK, CancelOK
    <3> QED
      BY <1>3, <2>2, <3>1, <3>2, FreeStep, Zenon DEF LeaseSelect, Steps
  <2> QED
    BY <1>3, <2>1, <2>2, Zenon DEF LeaseSelect
<1>4. CASE LeaseLoad(w)
  <2>1. pc[w] = "load" /\ d.tasks = {} /\ d.task \in Tasks /\ UNCHANGED <<tables, outputs>>
    BY <1>1, <1>4 DEF LeaseLoad, CallOK, LeaseOK
  <2>2. CASE Goto(w, "promote", d)
    <3>1. CallOK("promote", d)
      BY <1>1, <2>1 DEF CallOK, ReportOK, LeaseOK, RollbackOK, CancelOK
    <3> QED
      BY <1>1, <2>1, <2>2, <3>1, FreeStep, SMTT(30) DEF Steps
  <2>3. CASE /\ taskStatus[d.task] \in {"QUEUED", "RUNNING"}
             /\ Goto(w, "take", [d EXCEPT !.seen = taskStatus[d.task]])
    <3> DEFINE c == [d EXCEPT !.seen = taskStatus[d.task]]
    <3>1. /\ c \in Call /\ c.rows = d.rows /\ c.agent = d.agent /\ c.tasks = d.tasks
          /\ c.shard = d.shard /\ c.task = d.task
      BY <1>1, <2>3, Zenon DEF Call, TaskStatus, Leasable
    <3>2. CallOK("take", c)
      BY <1>1, <2>1, <2>3, <3>1 DEF CallOK, ReportOK, LeaseOK, Unpromoted, RollbackOK, CancelOK, Owns
    <3> QED
      BY <2>1, <2>3, <3>1, <3>2, FreeStep, Zenon DEF Steps
  <2>4. CASE LeaseRetry(w)
    BY <2>1, <2>4, RetryStep
  <2> QED
    BY <1>4, <2>1, <2>2, <2>3, <2>4 DEF LeaseLoad
<1>5. CASE LeasePromote(w)
  <2> DEFINE waits == taskStatus[d.task] = "WAITING_FOR_AGENTS"
             c == [d EXCEPT !.seen = "QUEUED",
                            !.tasks = @ \cup (IF waits THEN {d.task} ELSE {})]
  <2>1. pc[w] = "promote" /\ d.tasks = {} /\ d.task \in Tasks /\ d.shard \in Shards
    BY <1>1, <1>5 DEF LeasePromote, CallOK, LeaseOK
  <2>2. /\ c \in Call /\ c.rows = d.rows /\ c.agent = d.agent
        /\ c.tasks = (IF waits THEN {d.task} ELSE {})
        /\ c.shard = d.shard /\ c.task = d.task
    BY <1>1, <2>1, Zenon DEF Call, TaskStatus, Leasable
  <2>3. CallOK("take", c)
    BY <1>1, <2>1, <2>2 DEF CallOK, ReportOK, LeaseOK, Owns, Unpromoted, RollbackOK, CancelOK
  <2>4. \A v \in Workers \ {w}, t \in Tasks : LocksTask("take", c, t) => ~HoldsTask(v, t)
    BY <1>5, <2>2 DEF LeasePromote, TaskFree, LocksTask
  <2> QED
    BY <1>5, <2>2, <2>3, <2>4, QuietStep DEF LeasePromote, Steps
<1>6. CASE AssignSent(w)
  BY <1>6, ReturnStep DEF AssignSent
<1>7. CASE RollbackAssignedShard(w)
  <2> DEFINE c == [d EXCEPT !.from = {"LEASED"}]
  <2>1. c \in Call /\ c.rows = d.rows /\ c.shard = d.shard /\ c.seen = d.seen
    BY <1>1, Zenon DEF Call, Active
  <2>2. CallOK("rollback", c)
    BY <1>1, <1>7, <2>1 DEF RollbackAssignedShard, CallOK, ReportOK, LeaseOK, RollbackOK, CancelOK
  <2> QED
    BY <1>7, <2>1, <2>2, FreeStep DEF RollbackAssignedShard, Steps
<1> QED
  BY <1>2, <1>3, <1>4, <1>5, <1>6, <1>7

\* The counts of RecomputeTaskStatus decide right: while the shard's row is
\* locked and the task is not settled, the verdict fits the other shards.
LEMMA VerdictRight ==
    ASSUME IndInv, NEW w \in Workers, pc[w] = "recompute",
           taskStatus[call[w].task] # "CANCELLED",
           NEW c \in Call, c.seen = Verdict(call[w]), c.want = call[w].want,
           c.shard = call[w].shard, c.task = call[w].task
    PROVE  VerdictOK(c)
<1> DEFINE d == call[w]
           others == ShardsOf(d.task) \ {d.shard}
<1>1. /\ d \in Call /\ d.shard \in Shards /\ d.task = TaskOf[d.shard] /\ d.task \in Tasks
      /\ d.want \in {"SUCCEEDED", "FAILED"} /\ shardStatus[d.shard] = "RUNNING"
  BY ZenonT(30) DEF IndInv, TypeOK, CallOK, ReportOK, Required, Call
<1>2. d.shard \in ShardsOf(d.task)
  BY <1>1 DEF ShardsOf
<1>3. taskStatus[d.task] \notin {"SUCCEEDED", "FAILED"}
  BY <1>1, <1>2, Zenon DEF IndInv, TablesOK, SettledTaskConsistent
<1>4. \A s \in others : shardStatus[s] # "CANCELLED"
  BY <1>1 DEF IndInv, TablesOK, ShardRowOK, ShardsOf
<1> DEFINE now(s) == IF s = d.shard THEN d.want ELSE shardStatus[s]
<1>5. CASE \E s \in ShardsOf(d.task) : now(s) \notin Terminal
  <2>1. c.seen = ""
    BY <1>3, <1>5, Zenon DEF Verdict
  <2>2. \E s \in others : shardStatus[s] \notin Terminal
    BY <1>1, <1>5 DEF Terminal
  <2> QED
    BY <1>1, <2>1, <2>2, Zenon DEF VerdictOK
<1>6. CASE /\ ~(\E s \in ShardsOf(d.task) : now(s) \notin Terminal)
           /\ \E s \in ShardsOf(d.task) : now(s) = "FAILED"
  <2>1. c.seen = "FAILED"
    BY <1>3, <1>6, Zenon DEF Verdict
  <2>2. \A s \in others : shardStatus[s] \in {"SUCCEEDED", "FAILED"}
    BY <1>4, <1>6 DEF Terminal
  <2>3. d.want = "FAILED" \/ \E s \in others : shardStatus[s] = "FAILED"
    BY <1>6
  <2> QED
    BY <1>1, <2>1, <2>2, <2>3 DEF VerdictOK
<1>7. CASE /\ ~(\E s \in ShardsOf(d.task) : now(s) \notin Terminal)
           /\ ~(\E s \in ShardsOf(d.task) : now(s) = "FAILED")
  <2>1. c.seen = "SUCCEEDED"
    BY <1>3, <1>7, Zenon DEF Verdict
  <2>2. \A s \in others : shardStatus[s] = "SUCCEEDED"
    BY <1>4, <1>7 DEF Terminal
  <2>3. d.want = "SUCCEEDED"
    BY <1>1, <1>2, <1>7
  <2> QED
    BY <1>1, <2>1, <2>2, <2>3 DEF VerdictOK
<1> QED
  BY <1>5, <1>6, <1>7

\* ReportShardStatus up to the UPDATE of the task.
LEMMA ReportQuietStep ==
    ASSUME IndInv, NEW w \in Workers,
           \/ \E a \in Agents, s \in Shards, status \in {"RUNNING", "SUCCEEDED", "FAILED"} :
                ReportShardStatus(w, a, s, status)
           \/ ReportRead(w) \/ ReportLockTask(w)
           \/ ReportMarkShard(w) \/ RecomputeTaskStatus(w)
    PROVE  IndInv'
<1> DEFINE d == call[w]
<1>1. d \in Call /\ CallOK(pc[w], d)
  BY DEF IndInv, TypeOK
<1>2. ASSUME NEW a \in Agents, NEW s \in Shards, NEW status \in {"RUNNING", "SUCCEEDED", "FAILED"},
             ReportShardStatus(w, a, s, status)
      PROVE  IndInv'
  <2> DEFINE c == [NoCall EXCEPT !.agent = a, !.shard = s, !.task = TaskOf[s], !.want = status]
  <2>1. /\ c \in Call /\ c.rows = {} /\ c.shard = s /\ c.task = TaskOf[s] /\ c.want = status
    BY NoCallType, Zenon, StoreAssumption DEF Call, NoCall
  <2>2. taskStatus[TaskOf[s]] # "ABSENT"
    BY <1>2, Zenon DEF ReportShardStatus, Validated, IndInv, TablesOK, ShardRowOK
  <2>3. CallOK("read", c)
    BY <2>1, <2>2, Zenon DEF CallOK, ReportOK, LeaseOK, RollbackOK, CancelOK
  <2> QED
    BY <1>2, <2>1, <2>3, FreeStep, Zenon DEF ReportShardStatus, Begin, Goto, Steps
<1>3. CASE ReportRead(w)
  <2> DEFINE c == [d EXCEPT !.seen = shardStatus[d.shard]]
  <2>1. shardStatus[d.shard] \in ShardStatus
    BY <1>1, <1>3, Zenon DEF ReportRead, CallOK, ReportOK, IndInv, TypeOK
  <2>2. c \in Call /\ c.rows = d.rows /\ c.shard = d.shard /\ c.task = d.task /\ c.want = d.want
    BY <1>1, <2>1, Zenon DEF Call
  <2>3. CallOK("lock", c)
    BY <1>1, <1>3, <2>2, Zenon DEF ReportRead, CallOK, ReportOK, LeaseOK, RollbackOK, CancelOK
  <2> QED
    BY <1>3, <2>2, <2>3, FreeStep DEF ReportRead, Steps
<1>4. CASE ReportLockTask(w)
  <2> DEFINE c == [d EXCEPT !.seen = ""]
  <2>1. CASE Return(w)
    BY <1>4, <2>1, ReturnStep, Zenon DEF ReportLockTask
  <2>2. CASE Goto(w, "mark", c)
    <3>1. c \in Call /\ c.rows = d.rows /\ c.shard = d.shard /\ c.task = d.task /\ c.want = d.want
      BY <1>1, Zenon DEF Call
    <3>2. CallOK("mark", c)
      BY <1>1, <1>4, <3>1, Zenon DEF ReportLockTask, CallOK, ReportOK, LeaseOK, RollbackOK, CancelOK
    <3>3. \A v \in Workers \ {w}, t \in Tasks : LocksTask("mark", c, t) => ~HoldsTask(v, t)
      BY <1>4, <3>1, Zenon DEF ReportLockTask, TaskFree, LocksTask
    <3> QED
      BY <1>4, <2>2, <3>1, <3>2, <3>3, QuietStep, Zenon DEF ReportLockTask, Steps
  <2> QED
    BY <1>4, <2>1, <2>2, Zenon DEF ReportLockTask
<1>5. ASSUME NEW p \in {"commit", "recompute"}, NEW c \in Call, Goto(w, p, c),
             pc[w] \in {"mark", "recompute"}, c.task = d.task, CallOK(p, c),
             UNCHANGED <<tables, outputs>>
      PROVE  IndInv'
  <2>1. \A t \in Tasks : LocksTask(p, c, t) => HoldsTask(w, t)
    BY <1>5 DEF LocksTask, HoldsTask
  <2>2. \A v \in Workers \ {w}, t \in Tasks : LocksTask(p, c, t) => ~HoldsTask(v, t)
    BY <2>1 DEF IndInv, Exclusive
  <2> QED
    BY <1>5, <2>2, QuietStep DEF Steps
<1>6. CASE ReportMarkShard(w)
  <2>1. CASE Return(w)
    BY <1>6, <2>1, ReturnStep DEF ReportMarkShard
  <2>2. CASE MayTransition(d.shard, {Required(d.want)}) /\ d.want = "RUNNING"
             /\ Goto(w, "commit", [d EXCEPT !.seen = "RUNNING"])
    <3> DEFINE c == [d EXCEPT !.seen = "RUNNING"]
    <3>1. /\ c \in Call /\ c.rows = d.rows /\ c.shard = d.shard /\ c.task = d.task
          /\ c.want = d.want /\ c.seen = "RUNNING"
      BY <1>1, Zenon DEF Call, TaskStatus, Leasable
    <3>2. VerdictOK(c) /\ shardStatus[c.shard] = Required(c.want)
      BY <2>2, <3>1 DEF VerdictOK, MayTransition
    <3>3. CallOK("commit", c)
      BY <1>1, <1>6, <3>1, <3>2, Zenon DEF ReportMarkShard, CallOK, ReportOK, LeaseOK, RollbackOK,
                                           CancelOK
    <3> QED
      BY <1>5, <1>6, <2>2, <3>1, <3>3, Zenon DEF ReportMarkShard
  <2>3. CASE MayTransition(d.shard, {Required(d.want)}) /\ d.want # "RUNNING"
             /\ Goto(w, "recompute", d)
    <3>1. CallOK("recompute", d)
      BY <1>1, <1>6, <2>3, Zenon DEF ReportMarkShard, MayTransition, CallOK, ReportOK, LeaseOK,
                              RollbackOK, CancelOK
    <3> QED
      BY <1>1, <1>5, <1>6, <2>3, <3>1 DEF ReportMarkShard
  <2> QED
    BY <1>6, <2>1, <2>2, <2>3 DEF ReportMarkShard
<1>7. CASE RecomputeTaskStatus(w)
  <2> DEFINE c == [d EXCEPT !.seen = Verdict(d)]
  <2>1. CASE Return(w)
    BY <1>7, <2>1, ReturnStep DEF RecomputeTaskStatus
  <2>2. CASE taskStatus[d.task] # "CANCELLED" /\ Goto(w, "commit", c)
    <3>1. Verdict(d) \in {"", "FAILED", "SUCCEEDED"}
      BY DEF Verdict
    <3>2. /\ c \in Call /\ c.rows = d.rows /\ c.shard = d.shard /\ c.task = d.task
          /\ c.want = d.want /\ c.seen = Verdict(d)
      BY <1>1, <3>1, Zenon DEF Call, TaskStatus, Terminal
    <3>3. VerdictOK(c)
      BY <1>7, <2>2, <3>2, VerdictRight, Zenon DEF RecomputeTaskStatus
    <3>4. CallOK("commit", c)
      BY <1>1, <1>7, <3>2, <3>3, Zenon DEF RecomputeTaskStatus, CallOK, ReportOK, LeaseOK,
                                    RollbackOK, CancelOK
    <3> QED
      BY <1>5, <1>7, <2>2, <3>2, <3>4, Zenon DEF RecomputeTaskStatus
  <2> QED
    BY <1>7, <2>1, <2>2 DEF RecomputeTaskStatus
<1> QED
  BY <1>2, <1>3, <1>4, <1>6, <1>7

\* The rows a SELECT of active shards returns: they name agents, and their
\* tasks have been promoted.
LEMMA ActiveRows ==
    ASSUME IndInv, NEW S \in SUBSET Shards, \A s \in S : shardStatus[s] \in Active
    PROVE  /\ Rows(S) \in SUBSET Row
           /\ \A r \in Rows(S) : r.id \in S /\ taskStatus[TaskOf[r.id]] \notin Unpromoted
<1>1. ASSUME NEW s \in S
      PROVE  /\ [id |-> s, status |-> shardStatus[s], agent |-> agentOf[s]] \in Row
             /\ taskStatus[TaskOf[s]] \notin Unpromoted
  <2>1. agentOf[s] \in Agents
    BY DEF IndInv, TablesOK, LeaseRecorded
  <2>2. shardStatus[s] \notin {"QUEUED", "ABSENT"} /\ TaskOf[s] \in Tasks
    BY StoreAssumption DEF Active
  <2>3. s \in ShardsOf(TaskOf[s])
    BY DEF ShardsOf
  <2> QED
    BY <2>1, <2>2, <2>3, Zenon DEF IndInv, TablesOK, ShardRowOK, UnleasedUntilPromoted, Unpromoted, Row
<1> QED
  BY <1>1 DEF Rows

\* A shard an agent may time out belongs to a task that has been promoted.
LEMMA ValidatedPromoted ==
    ASSUME IndInv, NEW a \in Agents, NEW s \in Shards, Validated(a, s)
    PROVE  taskStatus[TaskOf[s]] \notin Unpromoted
<1>1. s \in ShardsOf(TaskOf[s]) /\ TaskOf[s] \in Tasks
  BY StoreAssumption DEF ShardsOf
<1>2. shardStatus[s] # "QUEUED"
  BY StoreAssumption DEF Validated, IndInv, TablesOK, LeaseRecorded, Terminal
<1> QED
  BY <1>1, <1>2, Zenon DEF Validated, IndInv, TablesOK, ShardRowOK, UnleasedUntilPromoted, Unpromoted

\* CancelTask up to the UPDATE of the shards.
LEMMA CancelQuietStep ==
    ASSUME IndInv, NEW w \in Workers,
           (\E t \in Tasks : CancelTask(w, t)) \/ CancelTaskById(w)
    PROVE  IndInv'
<1> DEFINE d == call[w]
<1>1. d \in Call /\ CallOK(pc[w], d)
  BY DEF IndInv, TypeOK
<1>2. ASSUME NEW t \in Tasks, CancelTask(w, t)
      PROVE  IndInv'
  <2> DEFINE S == {s \in ShardsOf(t) : shardStatus[s] \in Active}
             c == [NoCall EXCEPT !.task = t, !.rows = Rows(S)]
  <2>1. S \in SUBSET Shards /\ \A s \in S : shardStatus[s] \in Active /\ TaskOf[s] = t
    BY DEF ShardsOf
  <2>2. /\ Rows(S) \in SUBSET Row
        /\ \A r \in Rows(S) : TaskOf[r.id] = t /\ taskStatus[TaskOf[r.id]] \notin Unpromoted
    <3> HIDE DEF S
    <3> QED
      BY <2>1, ActiveRows, Zenon
  <2>3. c \in Call /\ c.rows = Rows(S) /\ c.task = t
    <3> HIDE DEF S
    <3> QED
      BY <2>2, NoCallType, Zenon DEF Call, NoCall
  <2>4. CallOK("cancelTask", c)
    <3>1. taskStatus[t] # "ABSENT"
      BY <1>2, Zenon DEF CancelTask
    <3> HIDE DEF c
    <3> QED
      BY <2>2, <2>3, <3>1 DEF CallOK, ReportOK, LeaseOK, RollbackOK, CancelOK
  <2>5. Goto(w, "cancelTask", c) /\ UNCHANGED <<tables, outputs>>
    BY <1>2, Zenon DEF CancelTask, Begin, Goto
  <2> QED
    BY <2>3, <2>4, <2>5, FreeStep DEF Steps
<1>3. CASE CancelTaskById(w)
  <2> DEFINE c == [d EXCEPT !.seen = "CANCELLED"]
  <2>1. CASE Return(w)
    BY <1>3, <2>1, ReturnStep DEF CancelTaskById
  <2>2. CASE taskStatus[d.task] \notin Terminal /\ Goto(w, "cancelShards", c)
    <3>1. c \in Call /\ c.rows = d.rows /\ c.task = d.task /\ c.seen = "CANCELLED"
      BY <1>1, Zenon DEF Call, TaskStatus, Terminal
    <3>2. CallOK("cancelShards", c)
      BY <1>1, <1>3, <2>2, <3>1 DEF CancelTaskById, CallOK, ReportOK, LeaseOK, RollbackOK, CancelOK
    <3>3. \A v \in Workers \ {w}, u \in Tasks : LocksTask("cancelShards", c, u) => ~HoldsTask(v, u)
      BY <1>3, <3>1 DEF CancelTaskById, TaskFree, LocksTask
    <3> QED
      BY <1>3, <2>2, <3>1, <3>2, <3>3, QuietStep DEF CancelTaskById, Steps
  <2> QED
    BY <1>3, <2>1, <2>2 DEF CancelTaskById
<1> QED
  BY <1>2, <1>3

\* The reads of the rollbacks.
LEMMA RollbackQuietStep ==
    ASSUME IndInv, NEW w \in Workers,
           \/ \E a \in Agents : \/ RollbackOrphanShardsForAgent(w, a)
                              \/ \E s \in Shards : RollbackTimedOutShard(w, a, s)
           \/ \E registered \in SUBSET Agents, old \in SUBSET Shards :
                CleanupOrphanShards(w, registered, old)
           \/ ReadTask(w) \/ CleanupShard(w)
    PROVE  IndInv'
<1> DEFINE d == call[w]
<1>1. d \in Call /\ CallOK(pc[w], d)
  BY DEF IndInv, TypeOK
<1>2. ASSUME NEW p \in {"sweep", "cleanup"}, NEW c \in Call, NEW S \in SUBSET Shards,
             \A r \in S : shardStatus[r] \in Active, c.rows = Rows(S),
             Goto(w, p, c), UNCHANGED <<tables, outputs>>
      PROVE  IndInv'
  <2>1. \A r \in Rows(S) : taskStatus[TaskOf[r.id]] \notin Unpromoted
    BY <1>2, ActiveRows
  <2>2. CallOK(p, c)
    BY <1>2, <2>1, Zenon DEF CallOK, ReportOK, LeaseOK, RollbackOK, CancelOK
  <2> QED
    BY <1>2, <2>2, FreeStep DEF Steps
<1>3. ASSUME NEW a \in Agents, RollbackOrphanShardsForAgent(w, a)
      PROVE  IndInv'
  <2> DEFINE S == {r \in Shards : shardStatus[r] \in Active /\ agentOf[r] = a}
             c == [NoCall EXCEPT !.agent = a, !.rows = Rows(S)]
  <2>1. Goto(w, "sweep", c) /\ UNCHANGED <<tables, outputs>>
    BY <1>3, Zenon DEF RollbackOrphanShardsForAgent, Begin, Goto
  <2>2. S \in SUBSET Shards /\ \A r \in S : shardStatus[r] \in Active
    OBVIOUS
  <2> HIDE DEF S
  <2>3. c \in Call /\ c.rows = Rows(S)
    BY <2>2, ActiveRows, NoCallType, Zenon DEF Call, NoCall
  <2> QED
    BY <1>2, <2>1, <2>2, <2>3, Zenon
<1>4. ASSUME NEW a \in Agents, NEW s \in Shards, RollbackTimedOutShard(w, a, s)
      PROVE  IndInv'
  <2> DEFINE c == [NoCall EXCEPT !.agent = a, !.shard = s]
  <2>1. c \in Call /\ c.rows = {} /\ c.shard = s
    BY NoCallType, Zenon DEF Call, NoCall
  <2>2. taskStatus[TaskOf[s]] \notin Unpromoted
    BY <1>4, ValidatedPromoted, Zenon DEF RollbackTimedOutShard
  <2>3. CallOK("readTask", c)
    BY <2>1, <2>2 DEF CallOK, ReportOK, LeaseOK, RollbackOK, CancelOK
  <2> QED
    BY <1>4, <2>1, <2>3, FreeStep, Zenon DEF RollbackTimedOutShard, Begin, Goto, Steps
<1>5. ASSUME NEW registered \in SUBSET Agents, NEW old \in SUBSET Shards,
             CleanupOrphanShards(w, registered, old)
      PROVE  IndInv'
  <2> DEFINE S == {r \in old : shardStatus[r] \in Active /\ agentOf[r] \notin registered}
             c == [NoCall EXCEPT !.rows = Rows(S)]
  <2>1. Goto(w, "cleanup", c) /\ UNCHANGED <<tables, outputs>>
    BY <1>5 DEF CleanupOrphanShards, Begin, Goto
  <2>2. S \in SUBSET Shards /\ \A r \in S : shardStatus[r] \in Active
    BY Zenon
  <2> HIDE DEF S
  <2>3. c \in Call /\ c.rows = Rows(S)
    BY <2>2, ActiveRows, NoCallType, Zenon DEF Call, NoCall
  <2> QED
    BY <1>2, <2>1, <2>2, <2>3, Zenon
<1>6. CASE ReadTask(w)
  <2> DEFINE c == [d EXCEPT !.seen = taskStatus[TaskOf[d.shard]], !.from = Active]
  <2>1. pc[w] = "readTask" /\ d.shard \in Shards /\ taskStatus[TaskOf[d.shard]] \notin Unpromoted
    BY <1>1, <1>6 DEF ReadTask, CallOK, RollbackOK
  <2>2. taskStatus[TaskOf[d.shard]] \in TaskStatus
    BY <2>1, Zenon, StoreAssumption DEF IndInv, TypeOK
  <2>3. /\ c \in Call /\ c.rows = d.rows /\ c.shard = d.shard
        /\ c.seen = taskStatus[TaskOf[d.shard]]
    BY <1>1, <2>2, Zenon DEF Call
  <2>4. CallOK("rollback", c)
    <3> HIDE DEF c
    <3> QED
      BY <1>1, <2>1, <2>3, Zenon DEF CallOK, ReportOK, LeaseOK, RollbackOK, CancelOK, Unpromoted
  <2> QED
    BY <1>6, <2>3, <2>4, FreeStep DEF ReadTask, Steps
<1>7. CASE CleanupShard(w)
  <2>1. PICK r \in d.rows :
          Goto(w, "rollback", [d EXCEPT !.shard = r.id, !.from = Active, !.rows = @ \ {r},
                                        !.seen = taskStatus[TaskOf[r.id]]])
    BY <1>7, Zenon DEF CleanupShard
  <2> DEFINE c == [d EXCEPT !.shard = r.id, !.from = Active, !.rows = @ \ {r},
                            !.seen = taskStatus[TaskOf[r.id]]]
  <2>2. r.id \in Shards /\ taskStatus[TaskOf[r.id]] \notin Unpromoted
    BY <1>1, Zenon DEF Call, Row, CallOK, RollbackOK
  <2>3. taskStatus[TaskOf[r.id]] \in TaskStatus
    BY <2>2, Zenon, StoreAssumption DEF IndInv, TypeOK
  <2>4. /\ c \in Call /\ c.rows \subseteq d.rows /\ c.shard = r.id
        /\ c.seen = taskStatus[TaskOf[r.id]]
    BY <1>1, <2>2, <2>3, Zenon DEF Call
  <2>5. CallOK("rollback", c)
    <3> HIDE DEF c
    <3> QED
      BY <1>1, <2>2, <2>4, Zenon DEF CallOK, ReportOK, LeaseOK, RollbackOK, CancelOK, Unpromoted
  <2> QED
    BY <1>7, <2>1, <2>4, <2>5, FreeStep, Zenon DEF CleanupShard, Steps
<1> QED
  BY <1>3, <1>4, <1>5, <1>6, <1>7

-----------------------------------------------------------------------------
(* Steps that write the tables or the outputs. *)

\* What every step does to the tasks, as far as a call may rely on it.
Advance ==
    \A t \in Tasks :
        /\ taskStatus[t] \notin Unpromoted => taskStatus'[t] \notin Unpromoted
        /\ taskStatus[t] \notin {"ABSENT", "PENDING"} => taskStatus'[t] \notin {"ABSENT", "PENDING"}
        /\ taskStatus[t] # "ABSENT" => taskStatus'[t] # "ABSENT"
        /\ taskStatus[t] \in Terminal => taskStatus'[t] = taskStatus[t]

\* A step of another worker leaves alone what v's locks protect.
Respects(v) ==
    /\ \A t \in Tasks : HoldsTask(v, t) =>
         /\ taskStatus'[t] = taskStatus[t]
         /\ \A s \in ShardsOf(t) :
              /\ shardStatus[s] \in Terminal => shardStatus'[s] = shardStatus[s]
              /\ shardStatus[s] \notin Terminal => shardStatus'[s] \notin Terminal
    /\ \A s \in Shards : HoldsShard(v, s) => shardStatus'[s] = shardStatus[s]
    /\ pc[v] = "dispatch" => hooks'[call[v].task] = hooks[call[v].task]

\* A locked task exists, and a locked shard is active and its task locked.
LEMMA Held ==
    ASSUME IndInv, NEW v \in Workers
    PROVE  /\ \A t \in Tasks : HoldsTask(v, t) => taskStatus[t] # "ABSENT"
           /\ \A s \in Shards : HoldsShard(v, s) =>
                HoldsTask(v, TaskOf[s]) /\ shardStatus[s] \in Active
<1>1. CallOK(pc[v], call[v]) /\ call[v] \in Call
  BY DEF IndInv, TypeOK
<1>2. ASSUME NEW t \in Tasks, HoldsTask(v, t) PROVE taskStatus[t] # "ABSENT"
  BY <1>1, <1>2, Zenon DEF HoldsTask, LocksTask, CallOK, ReportOK, LeaseOK, CancelOK, Terminal
<1>3. ASSUME NEW s \in Shards, HoldsShard(v, s)
      PROVE  HoldsTask(v, TaskOf[s]) /\ shardStatus[s] \in Active
  BY <1>1, <1>3, Zenon DEF HoldsShard, HoldsTask, LocksTask, CallOK, ReportOK, Required, Active
<1> QED
  BY <1>2, <1>3

\* A call in progress stays right under a step that respects its locks.
LEMMA StableCall ==
    ASSUME IndInv, NEW v \in Workers, pc'[v] = pc[v], call'[v] = call[v], Advance, Respects(v)
    PROVE  CallOK(pc[v], call[v])'
<1> DEFINE d == call[v]
<1>1. CallOK(pc[v], d) /\ d \in Call
  BY DEF IndInv, TypeOK
<1>2. \A s \in Shards : TaskOf[s] \in Tasks
  BY StoreAssumption
<1>3. ReportOK(pc[v], call[v])'
  <2>1. CASE pc[v] \in {"read", "lock", "mark"}
    BY <1>1, <1>2, <2>1, Zenon DEF CallOK, ReportOK, Advance
  <2>2. CASE pc[v] \in {"recompute", "commit"}
    <3>1. /\ d.shard \in Shards /\ d.task = TaskOf[d.shard] /\ d.task \in Tasks /\ d.want # ""
          /\ d.rows = {} /\ shardStatus[d.shard] = Required(d.want)
          /\ taskStatus[d.task] # "ABSENT"
      BY <1>1, <1>2, <2>2, Zenon DEF CallOK, ReportOK
    <3>2. HoldsTask(v, d.task) /\ HoldsShard(v, d.shard)
      BY <2>2 DEF HoldsTask, LocksTask, HoldsShard
    <3>3. shardStatus'[d.shard] = shardStatus[d.shard] /\ taskStatus'[d.task] = taskStatus[d.task]
      BY <3>1, <3>2, Zenon DEF Respects
    <3>4. \A s \in ShardsOf(d.task) :
            /\ shardStatus[s] \in Terminal => shardStatus'[s] = shardStatus[s]
            /\ shardStatus[s] \notin Terminal => shardStatus'[s] \notin Terminal
      BY <3>1, <3>2, Zenon DEF Respects
    <3>5. ASSUME VerdictOK(d) PROVE VerdictOK(call[v])'
      BY <3>4, <3>5, Zenon DEF VerdictOK, Terminal
    <3> QED
      BY <1>1, <2>2, <3>1, <3>3, <3>5, Zenon DEF CallOK, ReportOK, Required
  <2>3. CASE pc[v] \notin {"read", "lock", "mark", "recompute", "commit"}
    BY <2>3, Zenon DEF ReportOK
  <2> QED
    BY <2>1, <2>2, <2>3
<1>4. LeaseOK(pc[v], call[v])'
  <2>1. CASE pc[v] = "take"
    <3>1. d.shard \in Shards /\ d.task = TaskOf[d.shard] /\ d.task \in Tasks
      BY <1>1, <1>2, <2>1, Zenon DEF CallOK, LeaseOK
    <3>2. d.tasks = {d.task} => taskStatus'[d.task] = taskStatus[d.task]
      BY <2>1, <3>1, Zenon DEF Respects, HoldsTask, LocksTask
    <3> QED
      BY <1>1, <2>1, <3>1, <3>2, Zenon DEF CallOK, LeaseOK, Owns, Advance
  <2>2. CASE pc[v] # "take"
    BY <1>1, <1>2, <2>2, Zenon DEF CallOK, LeaseOK, Owns, Advance
  <2> QED
    BY <2>1, <2>2
<1>5. RollbackOK(pc[v], call[v])'
  <2>1. \A r \in d.rows : r.id \in Shards
    BY <1>1, Zenon DEF Call, Row
  <2>2. \A s \in Shards : taskStatus[TaskOf[s]] \notin Unpromoted
                           => taskStatus'[TaskOf[s]] \notin Unpromoted
    BY <1>2 DEF Advance
  <2> QED
    BY <1>1, <2>1, <2>2, Zenon DEF CallOK, RollbackOK
<1>6. CancelOK(pc[v], call[v])'
  <2>1. CASE pc[v] = "cancelShards"
    <3>1. d.task \in Tasks /\ HoldsTask(v, d.task)
      BY <1>1, <2>1 DEF CallOK, CancelOK, HoldsTask, LocksTask
    <3>2. taskStatus'[d.task] = taskStatus[d.task]
      BY <3>1, Zenon DEF Respects
    <3> QED
      BY <1>1, <2>1, <3>2, SMTT(30) DEF CallOK, CancelOK
  <2>2. CASE pc[v] = "dispatch"
    BY <1>1, <2>2, ZenonT(30) DEF CallOK, CancelOK, Advance, Respects
  <2>3. CASE pc[v] \notin {"cancelShards", "dispatch"}
    BY <1>1, <2>3 DEF CallOK, CancelOK, Advance, Terminal
  <2> QED
    BY <2>1, <2>2, <2>3
<1> QED
  BY <1>3, <1>4, <1>5, <1>6 DEF CallOK

\* A step of worker w that leaves w outside any transaction with locks.
LEMMA TableStep ==
    ASSUME IndInv, NEW w \in Workers, Frame(w), TypeOK', TablesOK', HookMatchesOutcome',
           CancelNoticeIsSafe', CallOK(pc[w], call[w])', Advance,
           \A v \in Workers \ {w} : Respects(v),
           \A t \in Tasks : ~HoldsTask(w, t)',
           \A v \in Workers \ {w} :
              pc'[w] = "dispatch" /\ pc[v] = "dispatch" => call[v].task # call'[w].task
    PROVE  IndInv'
<1>1. ASSUME NEW v \in Workers \ {w} PROVE pc'[v] = pc[v] /\ call'[v] = call[v]
  BY SMTT(30) DEF Frame, IndInv, TypeOK
<1>2. ASSUME NEW v \in Workers PROVE CallOK(pc[v], call[v])'
  BY <1>1, StableCall
<1>3. Exclusive'
  <2>1. ASSUME NEW v \in Workers \ {w}, NEW t \in Tasks PROVE HoldsTask(v, t)' = HoldsTask(v, t)
    BY <1>1 DEF HoldsTask, LocksTask
  <2> QED
    BY <1>1, <2>1 DEF IndInv, Exclusive
<1> QED
  BY <1>2, <1>3 DEF IndInv

\* Hooks and notices already out stay right: their tasks are settled.
LEMMA OutputsKept ==
    ASSUME IndInv, Advance, UNCHANGED outputs
    PROVE  HookMatchesOutcome' /\ CancelNoticeIsSafe'
<1>1. hooks' = hooks /\ notices' = notices
  BY DEF outputs
<1>2. ASSUME NEW t \in Tasks, hooks[t] # <<>>
      PROVE  /\ taskStatus'[t] = taskStatus[t] /\ taskStatus[t] \in Terminal
             /\ t \in HookTasks /\ hooks[t] = <<taskStatus[t]>>
  BY <1>2 DEF IndInv, HookMatchesOutcome, Advance
<1>3. HookMatchesOutcome'
  BY <1>1, <1>2, Zenon DEF HookMatchesOutcome
<1>4. ASSUME NEW n \in notices PROVE taskStatus'[TaskOf[n[2]]] = "CANCELLED"
  <2>1. TaskOf[n[2]] \in Tasks
    BY Zenon, StoreAssumption DEF IndInv, TypeOK
  <2>2. taskStatus[TaskOf[n[2]]] = "CANCELLED"
    BY DEF IndInv, CancelNoticeIsSafe
  <2> QED
    BY <2>1, <2>2, Zenon DEF Advance, Terminal
<1>5. CancelNoticeIsSafe'
  BY <1>1, <1>4 DEF CancelNoticeIsSafe
<1> QED
  BY <1>3, <1>5

\* A new task arrives with all its shards queued; no call can know of it yet.
LEMMA SubmitStep ==
    ASSUME IndInv, NEW t \in Tasks, SubmitTask(t)
    PROVE  IndInv'
<1> USE DEF outputs
<1>1. TypeOK /\ TablesOK /\ taskStatus[t] = "ABSENT"
  BY DEF IndInv, SubmitTask
<1>2. TypeOK'
  BY <1>1 DEF TypeOK, SubmitTask, TaskStatus, ShardStatus
<1>3. /\ taskStatus'[t] = "PENDING" /\ \A u \in Tasks \ {t} : taskStatus'[u] = taskStatus[u]
      /\ \A s \in Shards : TaskOf[s] = t =>
           shardStatus[s] = "ABSENT" /\ agentOf[s] = NoAgent /\ shardStatus'[s] = "QUEUED"
      /\ \A s \in Shards : TaskOf[s] # t => shardStatus'[s] = shardStatus[s]
      /\ agentOf' = agentOf /\ pc' = pc /\ call' = call
  BY <1>1 DEF TypeOK, TablesOK, ShardRowOK, SubmitTask
<1>4. TablesOK'
  <2>1. SettledTaskConsistent'
    BY <1>1, <1>3 DEF TablesOK, SettledTaskConsistent, ShardsOf
  <2>2. NoMissedCompletion'
    BY <1>1, <1>3, StoreAssumption DEF TablesOK, NoMissedCompletion, ShardsOf, Terminal
  <2>3. UnleasedUntilPromoted'
    BY <1>1, <1>3 DEF TablesOK, UnleasedUntilPromoted, ShardsOf
  <2>4. LeaseRecorded'
    BY <1>1, <1>3 DEF TablesOK, LeaseRecorded, Owns, Active
  <2>5. ASSUME NEW s \in Shards
        PROVE  ShardRowOK(s)'
    <3>1. TaskOf[s] \in Tasks
      BY StoreAssumption
    <3>2. CASE TaskOf[s] = t
      BY <1>3, <3>2 DEF ShardRowOK
    <3>3. CASE TaskOf[s] # t
      <4>1. ShardRowOK(s)
        BY <1>1 DEF TablesOK
      <4> QED
        BY <1>3, <3>1, <3>3, <4>1, Zenon DEF ShardRowOK
    <3> QED
      BY <3>2, <3>3
  <2> QED
    BY <2>1, <2>2, <2>3, <2>4, <2>5 DEF TablesOK
<1>5. Advance
  BY <1>1, <1>3 DEF Advance, Unpromoted, Terminal
<1>6. HookMatchesOutcome' /\ CancelNoticeIsSafe'
  BY <1>5, OutputsKept DEF SubmitTask, outputs
<1>7. ASSUME NEW v \in Workers PROVE Respects(v)
  <2>1. \A u \in Tasks : HoldsTask(v, u) => u # t
    BY <1>1, Held
  <2>2. \A s \in Shards : HoldsShard(v, s) => TaskOf[s] # t
    BY <2>1, Held, StoreAssumption
  <2>3. hooks' = hooks
    BY DEF SubmitTask
  <2> QED
    BY <1>3, <2>1, <2>2, <2>3 DEF Respects, ShardsOf
<1>8. Exclusive'
  BY <1>3 DEF IndInv, Exclusive, HoldsTask, LocksTask
<1>9. ASSUME NEW v \in Workers PROVE CallOK(pc[v], call[v])'
  BY <1>3, <1>5, <1>7, StableCall
<1> QED
  BY <1>2, <1>4, <1>6, <1>8, <1>9 DEF IndInv

\* Going on with a list, or returning, leaves worker w without locks.
LEMMA ListStep ==
    ASSUME IndInv, Advance, NEW w \in Workers, NEW p \in {"sweep", "cleanup", "poll"},
           NEW c \in Call, c.rows \subseteq call[w].rows, Return(w) \/ Goto(w, p, c)
    PROVE  /\ Frame(w) /\ pc'[w] \in {p, "idle"} /\ call'[w] \in Call
           /\ pc' \in [Workers -> Steps \cup {"idle"}] /\ call' \in [Workers -> Call]
           /\ CallOK(pc[w], call[w])' /\ \A t \in Tasks : ~HoldsTask(w, t)'
<1>1. TypeOK
  BY DEF IndInv
<1>2. Frame(w) /\ pc'[w] \in {p, "idle"} /\ call'[w] \in Call /\ call'[w].rows \subseteq call[w].rows
  <2>1. CASE Return(w)
    BY <1>1, <2>1, GotoFrame, NoCallType DEF Return
  <2>2. CASE Goto(w, p, c)
    BY <1>1, <2>2, GotoFrame
  <2> QED
    BY <2>1, <2>2
<1>3. pc' \in [Workers -> Steps \cup {"idle"}] /\ call' \in [Workers -> Call]
  BY <1>1, <1>2, FrameType, Zenon DEF Steps
<1>4. ASSUME NEW r \in call'[w].rows PROVE taskStatus'[TaskOf[r.id]] \notin Unpromoted
  <2>1. r \in call[w].rows
    BY <1>2
  <2>2. call[w].rows \in SUBSET Row /\ RollbackOK(pc[w], call[w])
    BY Zenon DEF IndInv, TypeOK, CallOK, Call
  <2>3. r.id \in Shards /\ TaskOf[r.id] \in Tasks
    BY <2>1, <2>2, Zenon, StoreAssumption DEF Row
  <2>4. taskStatus[TaskOf[r.id]] \notin Unpromoted
    BY <2>1, <2>2 DEF RollbackOK
  <2> QED
    BY <2>3, <2>4, Zenon DEF Advance
<1>5. CallOK(pc[w], call[w])'
  BY <1>2, <1>4, Zenon DEF CallOK, ReportOK, LeaseOK, RollbackOK, CancelOK
<1>6. \A t \in Tasks : ~HoldsTask(w, t)'
  BY <1>2 DEF HoldsTask, LocksTask
<1> QED
  BY <1>2, <1>3, <1>5, <1>6

\* The poller marks pending tasks of its list that no transaction holds.
LEMMA MarkStep ==
    ASSUME IndInv, NEW w \in Workers, NEW t \in Tasks, MarkTasksStatus(w, t)
    PROVE  IndInv'
<1> DEFINE marked == {u \in Group(w, t) : Markable(u)}
<1>1. TypeOK /\ TablesOK /\ call[w] \in Call
  BY DEF IndInv, TypeOK
<1>2. /\ \A u \in Tasks : u \in marked => /\ taskStatus[u] = "PENDING" /\ TaskFree(w, u)
                                          /\ taskStatus'[u] = "WAITING_FOR_AGENTS"
      /\ \A u \in Tasks : u \notin marked => taskStatus'[u] = taskStatus[u]
      /\ shardStatus' = shardStatus /\ agentOf' = agentOf /\ started' = started
      /\ UNCHANGED outputs /\ taskStatus' \in [Tasks -> TaskStatus]
  BY <1>1 DEF MarkTasksStatus, Markable, TypeOK, TaskStatus, Leasable
<1> HIDE DEF marked
<1>3. Advance
  BY <1>2, SMTT(30) DEF Advance, Unpromoted, Terminal
<1>4. /\ Frame(w) /\ pc'[w] \in {"poll", "idle"}
      /\ pc' \in [Workers -> Steps \cup {"idle"}] /\ call' \in [Workers -> Call]
      /\ CallOK(pc[w], call[w])' /\ \A u \in Tasks : ~HoldsTask(w, u)'
  <2> DEFINE c == [call[w] EXCEPT !.tasks = call[w].tasks \ Group(w, t)]
  <2>1. c \in Call /\ c.rows \subseteq call[w].rows
    BY <1>1, ZenonT(30) DEF Call
  <2>2. Return(w) \/ Goto(w, "poll", c)
    BY DEF MarkTasksStatus, PollDone
  <2> HIDE DEF c
  <2> QED
    BY <1>3, <2>1, <2>2, ListStep
<1>5. TypeOK'
  BY <1>1, <1>2, <1>4 DEF TypeOK, outputs
<1>6. TablesOK'
  <2>1. SettledTaskConsistent' /\ NoMissedCompletion' /\ UnleasedUntilPromoted'
    BY <1>1, <1>2 DEF TablesOK, SettledTaskConsistent, NoMissedCompletion, UnleasedUntilPromoted,
                      ShardsOf, Terminal
  <2>2. LeaseRecorded'
    BY <1>1, <1>2 DEF TablesOK, LeaseRecorded, Owns
  <2>3. ASSUME NEW s \in Shards PROVE ShardRowOK(s)'
    <3>1. ShardRowOK(s) /\ TaskOf[s] \in Tasks
      BY <1>1, StoreAssumption DEF TablesOK
    <3> QED
      BY <1>2, <3>1, Zenon DEF ShardRowOK
  <2> QED
    BY <2>1, <2>2, <2>3 DEF TablesOK
<1>7. ASSUME NEW v \in Workers \ {w} PROVE Respects(v)
  <2>1. \A u \in Tasks : HoldsTask(v, u) => u \notin marked
    BY <1>2 DEF TaskFree
  <2> QED
    BY <1>2, <2>1 DEF Respects, outputs
<1> QED
  BY <1>2, <1>3, <1>4, <1>5, <1>6, <1>7, OutputsKept, TableStep, Zenon

\* A rollback of an active shard keeps the tables in agreement.
LEMMA RolledBack ==
    ASSUME IndInv, NEW s \in Shards, shardStatus[s] \in Active, RollbackToQueued(s),
           taskStatus' = taskStatus
    PROVE  /\ TablesOK' /\ shardStatus' \in [Shards -> ShardStatus]
           /\ agentOf' \in [Shards -> Agents \cup {NoAgent}]
<1>1. TypeOK /\ TablesOK
  BY DEF IndInv
<1>2. /\ shardStatus'[s] = "QUEUED" /\ agentOf'[s] = NoAgent
      /\ \A r \in Shards \ {s} : shardStatus'[r] = shardStatus[r] /\ agentOf'[r] = agentOf[r]
      /\ shardStatus' \in [Shards -> ShardStatus] /\ agentOf' \in [Shards -> Agents \cup {NoAgent}]
  BY <1>1 DEF RollbackToQueued, TypeOK, ShardStatus
<1>3. shardStatus[s] \notin Terminal \cup {"QUEUED", "ABSENT"}
  BY DEF Active, Terminal
<1>4. SettledTaskConsistent' /\ NoMissedCompletion' /\ UnleasedUntilPromoted'
  BY <1>1, <1>2, <1>3 DEF TablesOK, SettledTaskConsistent, NoMissedCompletion,
                          UnleasedUntilPromoted, ShardsOf, Terminal
<1>5. LeaseRecorded'
  BY <1>1, <1>2, RecordKept DEF TablesOK
<1>6. ASSUME NEW r \in Shards PROVE ShardRowOK(r)'
  <2>1. ShardRowOK(r) /\ ShardRowOK(s)
    BY <1>1 DEF TablesOK
  <2> QED
    BY <1>2, <1>3, <2>1 DEF ShardRowOK
<1> QED
  BY <1>2, <1>4, <1>5, <1>6 DEF TablesOK

\* A rollback of a shard no other transaction has written, or one that finds nothing to roll back.
LEMMA QueuedStep ==
    ASSUME IndInv, NEW w \in Workers, NEW s \in Shards, ShardFree(w, s),
           \/ shardStatus[s] \in Active /\ RollbackToQueued(s)
           \/ UNCHANGED <<shardStatus, agentOf>>,
           taskStatus' = taskStatus, UNCHANGED <<started, outputs>>,
           NEW p \in {"sweep", "cleanup"}, NEW c \in Call, c.rows \subseteq call[w].rows,
           Return(w) \/ Goto(w, p, c)
    PROVE  IndInv'
<1>1. TypeOK /\ TablesOK
  BY Zenon DEF IndInv
<1>2. Advance
  BY Zenon DEF Advance
<1>3. /\ Frame(w) /\ pc'[w] \in {p, "idle"}
      /\ pc' \in [Workers -> Steps \cup {"idle"}] /\ call' \in [Workers -> Call]
      /\ CallOK(pc[w], call[w])' /\ \A t \in Tasks : ~HoldsTask(w, t)'
  <2>1. p \in {"sweep", "cleanup", "poll"}
    BY SMTT(30)
  <2> QED
    BY <1>2, <2>1, ListStep, ZenonT(30)
<1>4. /\ TablesOK' /\ shardStatus' \in [Shards -> ShardStatus]
      /\ agentOf' \in [Shards -> Agents \cup {NoAgent}]
  <2>1. CASE shardStatus[s] \in Active /\ RollbackToQueued(s)
    BY <2>1, RolledBack
  <2>2. CASE UNCHANGED <<shardStatus, agentOf>>
    <3>1. SettledTaskConsistent' /\ NoMissedCompletion' /\ UnleasedUntilPromoted' /\ LeaseRecorded'
      BY <1>1, <2>2 DEF TablesOK, SettledTaskConsistent, NoMissedCompletion,
                        UnleasedUntilPromoted, LeaseRecorded
    <3>2. \A r \in Shards : ShardRowOK(r)'
      BY <1>1, <2>2 DEF TablesOK, ShardRowOK
    <3> QED
      BY <1>1, <2>2, <3>1, <3>2 DEF TypeOK, TablesOK
  <2> QED
    BY <2>1, <2>2
<1>5. TypeOK'
  BY <1>1, <1>3, <1>4, Zenon DEF TypeOK, outputs
<1>6. ASSUME NEW v \in Workers \ {w} PROVE Respects(v)
  <2>1. /\ \A r \in Shards \ {s} : shardStatus'[r] = shardStatus[r]
        /\ \/ shardStatus'[s] = shardStatus[s]
           \/ shardStatus[s] \notin Terminal /\ shardStatus'[s] \notin Terminal
    <3>1. CASE shardStatus[s] \in Active /\ RollbackToQueued(s)
      BY <1>1, <3>1, SMTT(30) DEF RollbackToQueued, TypeOK, Active, Terminal
    <3>2. CASE UNCHANGED <<shardStatus, agentOf>>
      BY <3>2
    <3> QED
      BY <3>1, <3>2
  <2>2. ~HoldsShard(v, s)
    BY DEF ShardFree
  <2> QED
    BY <2>1, <2>2, Zenon DEF Respects, ShardsOf, outputs
<1> QED
  BY <1>2, <1>3, <1>4, <1>5, <1>6, OutputsKept, TableStep, Zenon

\* One shard of the list of RollbackOrphanShardsForAgent.
LEMMA SweepStep ==
    ASSUME IndInv, NEW w \in Workers, SweepShard(w)
    PROVE  IndInv'
<1>1. call[w] \in Call
  BY DEF IndInv, TypeOK
<1>2. PICK r \in call[w].rows :
        /\ ShardFree(w, r.id)
        /\ IF MayTransition(r.id, {r.status})
           THEN RollbackToQueued(r.id) ELSE UNCHANGED <<shardStatus, agentOf>>
        /\ Loop(w, "sweep", [call[w] EXCEPT !.rows = @ \ {r}])
  BY Zenon DEF SweepShard
<1> DEFINE c == [call[w] EXCEPT !.rows = @ \ {r}]
<1>3. r.id \in Shards /\ r.status \in Active
  BY <1>1, <1>2, Zenon DEF Call, Row
<1>4. c \in Call /\ c.rows \subseteq call[w].rows
  BY <1>1, Zenon DEF Call
<1>5. Return(w) \/ Goto(w, "sweep", c)
  BY <1>2 DEF Loop
<1>6. \/ shardStatus[r.id] \in Active /\ RollbackToQueued(r.id)
      \/ UNCHANGED <<shardStatus, agentOf>>
  BY <1>2, <1>3 DEF MayTransition
<1> HIDE DEF c
<1> QED
  BY <1>2, <1>3, <1>4, <1>5, <1>6, QueuedStep DEF SweepShard, outputs

\* RollbackShardWithTask never touches the task: the task it read was not waiting.
LEMMA RollbackStep ==
    ASSUME IndInv, NEW w \in Workers, RollbackShardWithTask(w)
    PROVE  IndInv'
<1>1. /\ call[w] \in Call /\ call[w].shard \in Shards
      /\ call[w].from \subseteq Active /\ ~WasWaiting(call[w])
  BY Zenon DEF IndInv, TypeOK, CallOK, RollbackOK, RollbackShardWithTask, WasWaiting, Call
<1>2. taskStatus' = taskStatus
  BY <1>1 DEF RollbackShardWithTask
<1>3. \/ shardStatus[call[w].shard] \in Active /\ RollbackToQueued(call[w].shard)
      \/ UNCHANGED <<shardStatus, agentOf>>
  BY <1>1, SMTT(30) DEF RollbackShardWithTask, MayTransition
<1>4. Return(w) \/ Goto(w, "cleanup", call[w])
  BY SMTT(30) DEF RollbackShardWithTask, Loop
<1> QED
  BY <1>1, <1>2, <1>3, <1>4, QueuedStep, Zenon DEF RollbackShardWithTask, outputs

\* Handing the hook to the dispatcher: the first one for its task, with the status it keeps.
LEMMA DispatchStep ==
    ASSUME IndInv, NEW w \in Workers, DispatchCompletionHook(w)
    PROVE  IndInv'
<1> DEFINE d == call[w]
<1>1. TypeOK /\ TablesOK /\ d \in Call /\ CallOK(pc[w], d) /\ pc[w] = "dispatch"
  BY SMTT(30) DEF IndInv, TypeOK, DispatchCompletionHook
<1>2. /\ d.task \in Tasks /\ d.task \in HookTasks /\ hooks[d.task] = <<>>
      /\ d.seen \in Terminal /\ taskStatus[d.task] = d.seen
      /\ d.rows # {} => d.seen = "CANCELLED"
      /\ \A r \in d.rows : TaskOf[r.id] = d.task
      /\ \A r \in d.rows : taskStatus[TaskOf[r.id]] \notin Unpromoted
  BY <1>1, Zenon DEF CallOK, CancelOK, RollbackOK
<1>3. /\ taskStatus' = taskStatus /\ shardStatus' = shardStatus /\ agentOf' = agentOf
      /\ started' = started /\ notices' = notices
      /\ hooks' = [hooks EXCEPT ![d.task] = Append(@, d.seen)]
  BY SMTT(30) DEF DispatchCompletionHook, tables
<1>4. hooks'[d.task] = <<d.seen>> /\ \A t \in Tasks \ {d.task} : hooks'[t] = hooks[t]
  BY <1>1, <1>2, <1>3 DEF TypeOK
<1>5. /\ Frame(w) /\ pc'[w] \in {"idle", "notify"} /\ call'[w] \in Call
      /\ pc'[w] = "idle" => call'[w].rows = {}
      /\ pc'[w] = "notify" => call'[w] = d /\ d.rows # {}
  <2>1. Loop(w, "notify", d)
    BY DEF DispatchCompletionHook
  <2> HIDE DEF d
  <2> QED
    BY <1>1, <2>1, LoopFrame
<1>6. TypeOK'
  <2>1. hooks' \in [Tasks -> Seq(Terminal)]
    BY <1>1, <1>2, <1>3 DEF TypeOK
  <2>2. pc' \in [Workers -> Steps \cup {"idle"}] /\ call' \in [Workers -> Call]
    BY <1>1, <1>5, FrameType, Zenon DEF Steps
  <2> QED
    BY <1>1, <1>3, <2>1, <2>2, SMTT(30) DEF TypeOK
<1>7. TablesOK' /\ CancelNoticeIsSafe'
  <2>1. SettledTaskConsistent' /\ NoMissedCompletion' /\ UnleasedUntilPromoted' /\ LeaseRecorded'
    BY <1>1, <1>3 DEF TablesOK, SettledTaskConsistent, NoMissedCompletion,
                      UnleasedUntilPromoted, LeaseRecorded
  <2>2. \A r \in Shards : ShardRowOK(r)'
    BY <1>1, <1>3 DEF TablesOK, ShardRowOK
  <2>3. CancelNoticeIsSafe'
    BY <1>3 DEF IndInv, CancelNoticeIsSafe
  <2> QED
    BY <2>1, <2>2, <2>3, SMTT(30) DEF TablesOK
<1>8. HookMatchesOutcome'
  BY <1>2, <1>3, <1>4, Zenon DEF IndInv, HookMatchesOutcome
<1>9. CallOK(pc[w], call[w])'
  <2>1. CASE pc'[w] = "idle"
    BY <1>5, <2>1, ZenonT(30) DEF CallOK, ReportOK, LeaseOK, RollbackOK, CancelOK
  <2>2. CASE pc'[w] = "notify"
    BY <1>2, <1>3, <1>5, <2>2, ZenonT(30) DEF CallOK, ReportOK, LeaseOK, RollbackOK, CancelOK
  <2> QED
    BY <1>5, <2>1, <2>2
<1>10. ASSUME NEW v \in Workers \ {w} PROVE Respects(v)
  <2>1. pc[v] = "dispatch" => call[v].task # d.task /\ call[v].task \in Tasks
    BY <1>1, ZenonT(30) DEF IndInv, Exclusive, CallOK, CancelOK
  <2> QED
    BY <1>3, <1>4, <2>1, Zenon DEF Respects
<1>11. Advance /\ \A t \in Tasks : ~HoldsTask(w, t)'
  BY <1>3, <1>5, Zenon DEF Advance, HoldsTask, LocksTask
<1> HIDE DEF d
<1> QED
  BY <1>5, <1>6, <1>7, <1>8, <1>9, <1>10, <1>11, TableStep, SMTT(30)

\* One notice of the list of CancelTask.
LEMMA NotifyStep ==
    ASSUME IndInv, NEW w \in Workers, NotifyCancelShard(w)
    PROVE  IndInv'
<1> DEFINE d == call[w]
<1>1. TypeOK /\ TablesOK /\ d \in Call /\ CallOK(pc[w], d) /\ pc[w] = "notify"
  BY DEF IndInv, TypeOK, NotifyCancelShard
<1>2. PICK r \in d.rows : /\ notices' = notices \cup {<<r.agent, r.id>>}
                          /\ Loop(w, "notify", [d EXCEPT !.rows = @ \ {r}])
  BY ZenonT(30) DEF NotifyCancelShard
<1> DEFINE c == [d EXCEPT !.rows = @ \ {r}]
<1>3. /\ d.task \in Tasks /\ taskStatus[d.task] = "CANCELLED"
      /\ \A q \in d.rows : TaskOf[q.id] = d.task
      /\ \A q \in d.rows : taskStatus[TaskOf[q.id]] \notin Unpromoted
  BY <1>1, Zenon DEF CallOK, CancelOK, RollbackOK
<1>4. r.id \in Shards /\ r.agent \in Agents /\ TaskOf[r.id] = d.task
  BY <1>1, <1>3, Zenon DEF Call, Row
<1>5. /\ taskStatus' = taskStatus /\ shardStatus' = shardStatus /\ agentOf' = agentOf
      /\ started' = started /\ hooks' = hooks
  BY DEF NotifyCancelShard, tables
<1>6. c \in Call /\ c.task = d.task /\ c.rows \subseteq d.rows
  BY <1>1, Zenon DEF Call
<1>7. /\ Frame(w) /\ pc'[w] \in {"idle", "notify"} /\ call'[w] \in Call
      /\ pc'[w] = "idle" => call'[w].rows = {}
      /\ pc'[w] = "notify" => call'[w].task = d.task /\ call'[w].rows \subseteq d.rows
  <2>1. Return(w) \/ Goto(w, "notify", c)
    BY <1>2 DEF Loop
  <2> HIDE DEF c, d
  <2>2. CASE Return(w)
    BY <1>1, <2>2, GotoFrame, NoCallType DEF Return
  <2>3. CASE Goto(w, "notify", c)
    BY <1>1, <1>6, <2>3, GotoFrame
  <2> QED
    BY <2>1, <2>2, <2>3
<1>8. TypeOK'
  <2>1. pc' \in [Workers -> Steps \cup {"idle"}] /\ call' \in [Workers -> Call]
    BY <1>1, <1>7, FrameType, Zenon DEF Steps
  <2> QED
    BY <1>1, <1>2, <1>4, <1>5, <2>1 DEF TypeOK
<1>9. TablesOK' /\ HookMatchesOutcome'
  <2>1. SettledTaskConsistent' /\ NoMissedCompletion' /\ UnleasedUntilPromoted' /\ LeaseRecorded'
    BY <1>1, <1>5 DEF TablesOK, SettledTaskConsistent, NoMissedCompletion,
                      UnleasedUntilPromoted, LeaseRecorded
  <2>2. \A s \in Shards : ShardRowOK(s)'
    BY <1>1, <1>5 DEF TablesOK, ShardRowOK
  <2>3. HookMatchesOutcome'
    BY <1>5 DEF IndInv, HookMatchesOutcome
  <2> QED
    BY <2>1, <2>2, <2>3 DEF TablesOK
<1>10. CancelNoticeIsSafe'
  <2>1. ASSUME NEW n \in notices' PROVE taskStatus'[TaskOf[n[2]]] = "CANCELLED"
    <3>1. CASE n \in notices
      BY <1>5, <3>1 DEF IndInv, CancelNoticeIsSafe
    <3>2. CASE n = <<r.agent, r.id>>
      BY <1>3, <1>4, <1>5, <3>2, SMTT(30)
    <3> QED
      BY <1>2, <3>1, <3>2
  <2> QED
    BY <2>1 DEF CancelNoticeIsSafe
<1>11. CallOK(pc[w], call[w])'
  <2>1. CASE pc'[w] = "idle"
    BY <1>7, <2>1, Zenon DEF CallOK, ReportOK, LeaseOK, RollbackOK, CancelOK
  <2>2. CASE pc'[w] = "notify"
    BY <1>3, <1>5, <1>7, <2>2, ZenonT(30) DEF CallOK, ReportOK, LeaseOK, RollbackOK, CancelOK
  <2> QED
    BY <1>7, <2>1, <2>2
<1>12. Advance /\ \A t \in Tasks : ~HoldsTask(w, t)'
  BY <1>5, <1>7, SMTT(30) DEF Advance, HoldsTask, LocksTask
<1>13. ASSUME NEW v \in Workers \ {w} PROVE Respects(v)
  BY <1>5 DEF Respects
<1> HIDE DEF c, d
<1> QED
  BY <1>7, <1>8, <1>9, <1>10, <1>11, <1>12, <1>13, TableStep, Zenon

\* The transaction of a lease commits: the task it promoted and the shard change together.
LEMMA LeaseTakeStep ==
    ASSUME IndInv, NEW w \in Workers, LeaseTake(w)
    PROVE  IndInv'
<1> DEFINE d == call[w]
<1> USE DEF outputs
<1>1. TypeOK /\ TablesOK /\ d \in Call /\ CallOK(pc[w], d) /\ pc[w] = "take" /\ ShardFree(w, d.shard)
  BY DEF IndInv, TypeOK, LeaseTake
<1>2. /\ d.agent \in Agents /\ d.shard \in Shards /\ d.task = TaskOf[d.shard] /\ d.task \in Tasks
      /\ Owns(d.agent, d.shard)
      /\ \/ d.tasks = {} /\ taskStatus[d.task] \notin Unpromoted
         \/ d.tasks = {d.task} /\ taskStatus[d.task] = "WAITING_FOR_AGENTS"
      /\ \A r \in d.rows : taskStatus[TaskOf[r.id]] \notin Unpromoted
  BY <1>1, Zenon, StoreAssumption DEF CallOK, LeaseOK, RollbackOK
<1>3. CASE shardStatus[d.shard] # "QUEUED"
  <2>1. d.tasks = {}
    <3>1. d.shard \in ShardsOf(d.task)
      BY <1>2, SMTT(30) DEF ShardsOf
    <3>2. taskStatus[d.task] # "WAITING_FOR_AGENTS"
      BY <1>1, <1>2, <1>3, <3>1, Zenon DEF TablesOK, UnleasedUntilPromoted
    <3> QED
      BY <1>2, <3>2
  <2>2. LeaseRetry(w) /\ UNCHANGED <<tables, outputs>>
    BY <1>3, SMTT(30) DEF LeaseTake, tables
  <2> QED
    BY <1>1, <2>1, <2>2, RetryStep, SMTT(30)
<1>4. CASE shardStatus[d.shard] = "QUEUED"
  <2> DEFINE c == [d EXCEPT !.tasks = {}, !.tries = 0]
  <2>1. /\ shardStatus' = [shardStatus EXCEPT ![d.shard] = "LEASED"]
        /\ agentOf' = [agentOf EXCEPT ![d.shard] = d.agent]
        /\ taskStatus' = [t \in Tasks |-> IF t \in d.tasks THEN "QUEUED" ELSE taskStatus[t]]
        /\ Goto(w, "assigned", c) /\ started' = started /\ hooks' = hooks /\ notices' = notices
    BY <1>4, SMTT(30) DEF LeaseTake
  <2>2. /\ shardStatus'[d.shard] = "LEASED" /\ agentOf'[d.shard] = d.agent
        /\ \A r \in Shards \ {d.shard} : shardStatus'[r] = shardStatus[r] /\ agentOf'[r] = agentOf[r]
        /\ taskStatus'[d.task] \notin Unpromoted
        /\ taskStatus'[d.task] # taskStatus[d.task] => taskStatus[d.task] = "WAITING_FOR_AGENTS"
                                                       /\ taskStatus'[d.task] = "QUEUED"
        /\ \A t \in Tasks \ {d.task} : taskStatus'[t] = taskStatus[t]
    BY <1>1, <1>2, <2>1, SMTT(30) DEF TypeOK, Unpromoted
  <2>3. Advance
    BY <2>2 DEF Advance, Unpromoted, Terminal
  <2>4. c \in Call /\ c.rows = d.rows /\ c.shard = d.shard /\ c.seen = d.seen
    <3>1. 0 \in 0..(MaxRetries - 1)
      BY StoreAssumption
    <3> QED
      BY <1>1, <3>1, Zenon DEF Call
  <2>5. /\ Frame(w) /\ pc'[w] = "assigned" /\ call'[w] \in Call /\ call'[w].shard = d.shard
        /\ call'[w].rows = d.rows /\ call'[w].seen = d.seen
    <3>1. Goto(w, "assigned", c)
      BY <2>1
    <3> HIDE DEF c, d
    <3>2. Frame(w) /\ pc'[w] = "assigned" /\ call'[w] = c
      BY <1>1, <3>1, GotoFrame
    <3> QED
      BY <2>4, <3>2
  <2>6. TypeOK'
    <3>1. pc' \in [Workers -> Steps \cup {"idle"}] /\ call' \in [Workers -> Call]
      BY <1>1, <2>5, FrameType, Zenon DEF Steps
    <3>2. /\ taskStatus' \in [Tasks -> TaskStatus] /\ shardStatus' \in [Shards -> ShardStatus]
          /\ agentOf' \in [Shards -> Agents \cup {NoAgent}]
      BY <1>1, <1>2, <2>1 DEF TypeOK, TaskStatus, Leasable, ShardStatus, Active
    <3> QED
      BY <1>1, <2>1, <3>1, <3>2, SMTT(30) DEF TypeOK
  <2>7. TablesOK'
    <3>1. taskStatus[d.task] \notin Terminal
      <4>1. d.shard \in ShardsOf(d.task) /\ shardStatus[d.shard] \notin Terminal
        BY <1>2, <1>4 DEF ShardsOf, Terminal
      <4>2. \A t \in Tasks : taskStatus[t] \in Terminal
                             => \A s \in ShardsOf(t) : shardStatus[s] \in Terminal
        BY <1>1 DEF TablesOK, SettledTaskConsistent, Terminal
      <4> QED
        BY <1>2, <4>1, <4>2, Zenon
    <3>2. taskStatus'[d.task] \notin Terminal \cup Unpromoted
      BY <2>2, <3>1 DEF Terminal
    <3>3. \A t \in Tasks : taskStatus'[t] \in Terminal \cup Unpromoted \/ taskStatus[t] \in Terminal
                           => taskStatus'[t] = taskStatus[t] /\ t # d.task
      BY <2>2, <3>1, <3>2
    <3>4. SettledTaskConsistent' /\ NoMissedCompletion'
      <4>1. \A t \in Tasks \ {d.task} : \A s \in ShardsOf(t) : shardStatus'[s] = shardStatus[s]
        BY <1>2, <2>2, SMTT(30) DEF ShardsOf
      <4>2. d.shard \in ShardsOf(d.task) /\ shardStatus'[d.shard] \notin Terminal
        BY <1>2, <2>2 DEF ShardsOf, Terminal
      <4>3. SettledTaskConsistent'
        <5> SUFFICES ASSUME NEW t \in Tasks, taskStatus'[t] \in Terminal
                     PROVE  SettledTaskConsistent!(t)'
          BY DEF SettledTaskConsistent, Terminal
        <5>1. t # d.task /\ taskStatus'[t] = taskStatus[t]
          BY <3>3, ZenonT(30)
        <5>2. SettledTaskConsistent!(t)
          BY <1>1, Zenon DEF TablesOK, SettledTaskConsistent
        <5> QED
          BY <4>1, <5>1, <5>2, Zenon DEF Terminal
      <4>4. NoMissedCompletion'
        <5> SUFFICES ASSUME NEW t \in Tasks, \A s \in ShardsOf(t) : shardStatus'[s] \in Terminal
                     PROVE  taskStatus'[t] \in Terminal
          BY DEF NoMissedCompletion, ShardsOf
        <5>1. t # d.task
          BY <4>2
        <5>2. \A s \in ShardsOf(t) : shardStatus[s] \in Terminal
          BY <4>1, <5>1
        <5> QED
          BY <1>1, <2>2, <5>1, <5>2, ZenonT(30) DEF TablesOK, NoMissedCompletion
      <4> QED
        BY <4>3, <4>4, SMTT(30)
    <3>5. UnleasedUntilPromoted'
      <4> SUFFICES ASSUME NEW t \in Tasks, taskStatus'[t] \in {"PENDING", "WAITING_FOR_AGENTS"},
                          NEW s \in ShardsOf(t)
                   PROVE  shardStatus'[s] = "QUEUED"
        BY DEF UnleasedUntilPromoted, ShardsOf
      <4>1. t # d.task /\ taskStatus'[t] = taskStatus[t]
        BY <3>3, SMTT(30) DEF Unpromoted
      <4>2. s \in Shards /\ s # d.shard
        BY <1>2, <4>1 DEF ShardsOf
      <4>3. shardStatus[s] = "QUEUED"
        BY <1>1, <4>1, SMTT(30) DEF TablesOK, UnleasedUntilPromoted
      <4> QED
        BY <2>2, <4>2, <4>3
    <3>6. LeaseRecorded'
      BY <1>1, <1>2, <2>2, RecordKept, Zenon DEF TablesOK
    <3>7. ASSUME NEW s \in Shards PROVE ShardRowOK(s)'
      <4>1. ShardRowOK(s) /\ TaskOf[s] \in Tasks
        BY <1>1, Zenon, StoreAssumption DEF TablesOK
      <4> QED
        BY <1>2, <2>2, <3>2, <4>1, Zenon DEF ShardRowOK, Unpromoted, Terminal
    <3> QED
      BY <3>4, <3>5, <3>6, <3>7 DEF TablesOK
  <2>8. CallOK(pc[w], call[w])' /\ \A t \in Tasks : ~HoldsTask(w, t)'
    <3>1. \A r \in d.rows : taskStatus'[TaskOf[r.id]] \notin Unpromoted
      <4>1. \A r \in d.rows : r.id \in Shards /\ TaskOf[r.id] \in Tasks
        BY <1>1, StoreAssumption, ZenonT(30) DEF Call, Row
      <4> QED
        BY <1>2, <2>3, <4>1, Zenon DEF Advance
    <3>2. d.seen # "WAITING_FOR_AGENTS"
      BY <1>1, ZenonT(30) DEF CallOK, LeaseOK
    <3> QED
      BY <1>2, <2>5, <3>1, <3>2, Zenon DEF CallOK, ReportOK, LeaseOK, RollbackOK, CancelOK,
                                    HoldsTask, LocksTask
  <2>9. ASSUME NEW v \in Workers \ {w} PROVE Respects(v)
    <3>1. \A t \in Tasks : HoldsTask(v, t) => taskStatus'[t] = taskStatus[t]
      <4>1. \A t \in d.tasks : t \in Tasks /\ HoldsTask(w, t)
        BY <1>1, <1>2, Zenon DEF HoldsTask, LocksTask
      <4> QED
        BY <2>1, <4>1 DEF IndInv, Exclusive
    <3>2. ~HoldsShard(v, d.shard)
      BY <1>1, SMTT(30) DEF ShardFree
    <3> QED
      BY <1>2, <1>4, <2>1, <2>2, <3>1, <3>2 DEF Respects, ShardsOf, Terminal
  <2> HIDE DEF c, d
  <2> QED
    BY <2>1, <2>3, <2>5, <2>6, <2>7, <2>8, <2>9, OutputsKept, TableStep
<1> QED
  BY <1>3, <1>4

\* The transaction of CancelTask commits: the task and its open shards are cancelled together.
LEMMA CancelShardsStep ==
    ASSUME IndInv, NEW w \in Workers, CancelTaskShardsByTaskId(w)
    PROVE  IndInv'
<1> DEFINE d == call[w]
           open == OpenShards(d.task)
<1>1. /\ TypeOK /\ TablesOK /\ d \in Call /\ CallOK(pc[w], d) /\ pc[w] = "cancelShards"
      /\ hooks' = hooks /\ notices' = notices
  BY ZenonT(30) DEF IndInv, TypeOK, CancelTaskShardsByTaskId, outputs
<1>2. /\ d.task \in Tasks /\ d.seen = "CANCELLED"
      /\ taskStatus[d.task] \notin Terminal /\ taskStatus[d.task] # "ABSENT"
      /\ \A r \in d.rows : TaskOf[r.id] = d.task
      /\ \A r \in d.rows : taskStatus[TaskOf[r.id]] \notin Unpromoted
  BY <1>1 DEF CallOK, CancelOK, RollbackOK
<1>3. /\ taskStatus'[d.task] = "CANCELLED"
      /\ \A t \in Tasks \ {d.task} : taskStatus'[t] = taskStatus[t]
      /\ taskStatus' \in [Tasks -> TaskStatus] /\ started' \subseteq Shards
  BY <1>1, <1>2, Zenon DEF CancelTaskShardsByTaskId, TypeOK, TaskStatus, Terminal
<1>4. /\ \A s \in Shards : TaskOf[s] # d.task =>
           shardStatus'[s] = shardStatus[s] /\ agentOf'[s] = agentOf[s]
      /\ \A s \in Shards : TaskOf[s] = d.task =>
           \/ shardStatus'[s] = "CANCELLED"
           \/ shardStatus[s] \in Terminal /\ shardStatus'[s] = shardStatus[s]
      /\ shardStatus' \in [Shards -> ShardStatus] /\ agentOf' \in [Shards -> Agents \cup {NoAgent}]
  <2>1. /\ shardStatus' = [s \in Shards |-> IF s \in open THEN "CANCELLED" ELSE shardStatus[s]]
        /\ agentOf' = [s \in Shards |-> IF s \in open THEN NoAgent ELSE agentOf[s]]
    BY Zenon DEF CancelTaskShardsByTaskId
  <2>2. \A s \in Shards : s \in open <=> TaskOf[s] = d.task /\ shardStatus[s] \notin Terminal
    BY DEF OpenShards, ShardsOf
  <2> HIDE DEF open
  <2> QED
    BY <1>1, <2>1, <2>2, Zenon DEF TypeOK, ShardStatus, Terminal
<1>5. Advance
  BY <1>2, <1>3 DEF Advance, Unpromoted
<1>6. /\ Frame(w) /\ pc'[w] \in {"idle", "dispatch", "notify"} /\ call'[w] \in Call
      /\ pc'[w] = "idle" => call'[w].rows = {}
      /\ pc'[w] # "idle" => call'[w] = d
      /\ pc'[w] = "dispatch" => d.task \in HookTasks
  <2>1. CASE HasHook(d.task)
    <3>1. Goto(w, "dispatch", d)
      BY <2>1, SMTT(30) DEF CancelTaskShardsByTaskId
    <3>2. Frame(w) /\ pc'[w] = "dispatch" /\ call'[w] = d
      <4> HIDE DEF d, open
      <4> QED
        BY <1>1, <3>1, GotoFrame, SMTT(30)
    <3> HIDE DEF d, open
    <3> QED
      BY <1>1, <2>1, <3>2, ZenonT(30) DEF HasHook
  <2>2. CASE ~HasHook(d.task)
    <3>1. Loop(w, "notify", d)
      BY <2>2, SMTT(30) DEF CancelTaskShardsByTaskId
    <3>2. /\ Frame(w) /\ call'[w] \in Call
          /\ \/ pc'[w] = "idle" /\ call'[w].rows = {}
             \/ pc'[w] = "notify" /\ call'[w] = d /\ d.rows # {}
      <4> HIDE DEF d, open
      <4> QED
        BY <1>1, <3>1, LoopFrame, SMTT(30)
    <3> HIDE DEF d, open
    <3> QED
      BY <3>2, SMTT(30)
  <2> QED
    BY <2>1, <2>2, Zenon
<1>7. TypeOK'
  <2>1. pc' \in [Workers -> Steps \cup {"idle"}] /\ call' \in [Workers -> Call]
    BY <1>1, <1>6, FrameType, Zenon DEF Steps
  <2> QED
    BY <1>1, <1>3, <1>4, <2>1, SMTT(30) DEF TypeOK
<1> HIDE DEF open
<1>8. TablesOK'
  <2>1. \A s \in Shards : TaskOf[s] = d.task => shardStatus'[s] \in Terminal
    BY <1>4, SMTT(30) DEF Terminal
  <2>2. SettledTaskConsistent' /\ NoMissedCompletion' /\ UnleasedUntilPromoted'
    <3> HIDE DEF d
    <3>1. SettledTaskConsistent /\ NoMissedCompletion /\ UnleasedUntilPromoted
      BY <1>1, Zenon DEF TablesOK
    <3>2. SettledTaskConsistent'
      BY <1>3, <1>4, <2>1, <3>1 DEF SettledTaskConsistent, ShardsOf
    <3>3. NoMissedCompletion'
      BY <1>3, <1>4, <3>1 DEF NoMissedCompletion, ShardsOf, Terminal
    <3>4. UnleasedUntilPromoted'
      BY <1>3, <1>4, <3>1 DEF UnleasedUntilPromoted, ShardsOf
    <3> QED
      BY <3>2, <3>3, <3>4
  <2>3. LeaseRecorded'
    BY <1>1, <1>4, <2>1, RecordKept, Zenon DEF TablesOK
  <2>4. ASSUME NEW s \in Shards PROVE ShardRowOK(s)'
    <3>1. ShardRowOK(s) /\ TaskOf[s] \in Tasks
      BY <1>1, Zenon, StoreAssumption DEF TablesOK
    <3>2. CASE TaskOf[s] = d.task
      BY <1>3, <1>4, <2>1, <3>2, Zenon DEF ShardRowOK, Terminal
    <3>3. CASE TaskOf[s] # d.task
      BY <1>3, <1>4, <3>1, <3>3, Zenon DEF ShardRowOK
    <3> QED
      BY <3>2, <3>3
  <2> QED
    BY <2>2, <2>3, <2>4 DEF TablesOK
<1>9. hooks[d.task] = <<>>
  BY <1>2, Zenon DEF IndInv, HookMatchesOutcome
<1>10. CallOK(pc[w], call[w])' /\ \A t \in Tasks : ~HoldsTask(w, t)'
  <2>1. \A r \in d.rows : taskStatus'[TaskOf[r.id]] \notin Unpromoted
    BY <1>2, <1>3 DEF Unpromoted
  <2>2. CASE pc'[w] = "idle"
    BY <1>6, <2>2, Zenon DEF CallOK, ReportOK, LeaseOK, RollbackOK, CancelOK, HoldsTask, LocksTask
  <2>3. CASE pc'[w] = "dispatch"
    BY <1>1, <1>2, <1>3, <1>6, <1>9, <2>1, <2>3, ZenonT(30)
       DEF CallOK, ReportOK, LeaseOK, RollbackOK, CancelOK, HoldsTask, LocksTask, Terminal
  <2>4. CASE pc'[w] = "notify"
    BY <1>2, <1>3, <1>6, <2>1, <2>4, Zenon
       DEF CallOK, ReportOK, LeaseOK, RollbackOK, CancelOK, HoldsTask, LocksTask
  <2> QED
    BY <1>6, <2>2, <2>3, <2>4
<1>11. ASSUME NEW v \in Workers \ {w} PROVE Respects(v)
  <2>1. \A t \in Tasks : HoldsTask(v, t) => t # d.task
    <3>1. HoldsTask(w, d.task)
      BY <1>1 DEF HoldsTask, LocksTask
    <3> QED
      BY <1>2, <3>1, Zenon DEF IndInv, Exclusive
  <2>2. \A s \in Shards : HoldsShard(v, s) => TaskOf[s] # d.task
    BY <2>1, Held, StoreAssumption, ZenonT(30)
  <2> QED
    BY <1>1, <1>3, <1>4, <2>1, <2>2, Zenon DEF Respects, ShardsOf
<1>12. ASSUME NEW v \in Workers \ {w}, pc[v] = "dispatch" PROVE call[v].task # d.task
  BY <1>2, <1>12 DEF IndInv, CallOK, CancelOK
<1> HIDE DEF d
<1>13. HookMatchesOutcome' /\ CancelNoticeIsSafe'
  BY <1>1, <1>5, OutputsKept DEF outputs
<1> QED
  BY <1>5, <1>6, <1>7, <1>8, <1>10, <1>11, <1>12, <1>13, TableStep, SMTT(30)

\* The transaction of a report commits.  Its task was locked since before the shards were
\* counted, so the verdict still fits the rows.
LEMMA ReportCommitStep ==
    ASSUME IndInv, NEW w \in Workers, ReportCommit(w)
    PROVE  IndInv'
<1> DEFINE d == call[w]
<1> USE DEF outputs
<1>1. /\ TypeOK /\ TablesOK /\ d \in Call /\ CallOK(pc[w], d) /\ pc[w] = "commit"
      /\ hooks' = hooks /\ notices' = notices
  BY Zenon DEF IndInv, TypeOK, ReportCommit
<1>2. /\ d.shard \in Shards /\ d.task = TaskOf[d.shard] /\ d.task \in Tasks
      /\ d.want \in {"RUNNING", "SUCCEEDED", "FAILED"} /\ d.rows = {}
      /\ shardStatus[d.shard] = Required(d.want) /\ VerdictOK(d)
  BY <1>1, StoreAssumption, ZenonT(30) DEF CallOK, ReportOK, Call
<1>3. CASE d.seen # "" /\ taskStatus[d.task] = "CANCELLED"
  BY <1>3, ReturnStep, Zenon DEF ReportCommit
<1>4. CASE ~(d.seen # "" /\ taskStatus[d.task] = "CANCELLED")
  <2>1. taskStatus[d.task] \notin Terminal \cup Unpromoted
    <3>1. d.shard \in ShardsOf(d.task) /\ shardStatus[d.shard] \in Active
      BY <1>2, SMTT(30) DEF ShardsOf, Required, Active
    <3>2. \A t \in Tasks : taskStatus[t] \in Terminal
                           => \A s \in ShardsOf(t) : shardStatus[s] \in Terminal
      BY <1>1 DEF TablesOK, SettledTaskConsistent, Terminal
    <3>3. taskStatus[d.task] \notin Terminal
      BY <1>2, <3>1, <3>2, Zenon DEF Active, Terminal
    <3>4. shardStatus[d.shard] # "QUEUED" /\ shardStatus[d.shard] # "ABSENT"
      BY <3>1 DEF Active
    <3>5. taskStatus[d.task] \notin {"PENDING", "WAITING_FOR_AGENTS"}
      BY <1>1, <1>2, <3>1, <3>4, Zenon DEF TablesOK, UnleasedUntilPromoted
    <3>6. taskStatus[d.task] # "ABSENT"
      BY <1>1, <1>2, <3>4, Zenon DEF TablesOK, ShardRowOK
    <3> QED
      BY <3>3, <3>5, <3>6 DEF Unpromoted
  <2>2. d.seen \in {"", "RUNNING", "FAILED", "SUCCEEDED"} /\ (d.seen = "RUNNING" => d.want = "RUNNING")
    BY <1>2, Zenon DEF VerdictOK
  <2>3. /\ shardStatus' = [shardStatus EXCEPT ![d.shard] = d.want]
        /\ taskStatus' = IF d.seen # "" THEN [taskStatus EXCEPT ![d.task] = d.seen] ELSE taskStatus
        /\ agentOf' = agentOf /\ started' \subseteq Shards
    <3>1. d.seen # "" <=>
            (d.seen \in Terminal /\ taskStatus[d.task] \notin Terminal) \/ d.seen = "RUNNING"
      BY <2>1, <2>2, Zenon DEF Terminal
    <3>2. started' \subseteq Shards
      <4>1. started' = IF d.want = "RUNNING" THEN started \cup {d.shard} ELSE started
        BY <1>4, Zenon DEF ReportCommit
      <4> QED
        BY <1>1, <1>2, <4>1, Zenon DEF TypeOK
    <3> QED
      BY <1>4, <3>1, <3>2, Zenon DEF ReportCommit
  <2>4. /\ shardStatus'[d.shard] = d.want
        /\ \A s \in Shards \ {d.shard} : shardStatus'[s] = shardStatus[s]
        /\ \A t \in Tasks \ {d.task} : taskStatus'[t] = taskStatus[t]
        /\ taskStatus'[d.task] = IF d.seen # "" THEN d.seen ELSE taskStatus[d.task]
        /\ taskStatus'[d.task] \notin Unpromoted
    BY <1>1, <1>2, <2>1, <2>2, <2>3, Zenon DEF TypeOK, Unpromoted
  <2>5. Advance
    BY <2>1, <2>4, ZenonT(30) DEF Advance, Unpromoted
  <2>6. /\ Frame(w) /\ pc'[w] \in {"idle", "dispatch"} /\ call'[w] \in Call /\ call'[w].rows = {}
        /\ pc'[w] = "dispatch" => call'[w] = d /\ d.task \in HookTasks /\ d.seen \in Terminal
    <3>1. \/ Return(w)
          \/ Goto(w, "dispatch", d) /\ d.task \in HookTasks /\ d.seen \in Terminal
      BY <1>4, ZenonT(30) DEF ReportCommit, HasHook
    <3> HIDE DEF d
    <3>2. CASE Return(w)
      BY <1>1, <3>2, GotoFrame, NoCallType, SMTT(30) DEF Return
    <3>3. CASE Goto(w, "dispatch", d) /\ d.task \in HookTasks /\ d.seen \in Terminal
      <4>1. Frame(w) /\ pc'[w] = "dispatch" /\ call'[w] = d
        BY <1>1, <3>3, GotoFrame
      <4> QED
        BY <1>1, <1>2, <3>3, <4>1, SMTT(30)
    <3> QED
      BY <3>1, <3>2, <3>3
  <2>7. TypeOK'
    <3>1. pc' \in [Workers -> Steps \cup {"idle"}] /\ call' \in [Workers -> Call]
      BY <1>1, <2>6, FrameType, Zenon DEF Steps
    <3>2. taskStatus' \in [Tasks -> TaskStatus] /\ shardStatus' \in [Shards -> ShardStatus]
      BY <1>1, <1>2, <2>2, <2>3, Zenon DEF TypeOK, TaskStatus, Leasable, ShardStatus, Active, Terminal
    <3> QED
      BY <1>1, <2>3, <3>1, <3>2, ZenonT(30) DEF TypeOK
  <2>8. TablesOK'
    <3> DEFINE others == ShardsOf(d.task) \ {d.shard}
    <3>1. /\ \A s \in others : s \in Shards /\ shardStatus'[s] = shardStatus[s] /\ TaskOf[s] = d.task
          /\ \A s \in Shards : TaskOf[s] = d.task => s \in others \/ s = d.shard
          /\ \A s \in Shards : TaskOf[s] # d.task => shardStatus'[s] = shardStatus[s]
      BY <1>2, <2>4, Zenon DEF ShardsOf
    <3>2. \/ d.seen = "RUNNING" /\ d.want = "RUNNING"
          \/ d.seen = "" /\ \E s \in others : shardStatus[s] \notin Terminal
          \/ /\ d.seen = "FAILED" /\ d.want \in {"SUCCEEDED", "FAILED"}
             /\ \A s \in others : shardStatus[s] \in {"SUCCEEDED", "FAILED"}
             /\ d.want = "FAILED" \/ \E s \in others : shardStatus[s] = "FAILED"
          \/ /\ d.seen = "SUCCEEDED" /\ d.want = "SUCCEEDED"
             /\ \A s \in others : shardStatus[s] = "SUCCEEDED"
      BY <1>2, Zenon DEF VerdictOK
    <3> HIDE DEF others
    <3>3. ASSUME NEW t \in Tasks
          PROVE  /\ taskStatus'[t] = "SUCCEEDED" =>
                      \A s \in Shards : TaskOf[s] = t => shardStatus'[s] = "SUCCEEDED"
                 /\ taskStatus'[t] = "FAILED" =>
                      /\ \A s \in Shards : TaskOf[s] = t => shardStatus'[s] \in {"SUCCEEDED", "FAILED"}
                      /\ \E s \in Shards : TaskOf[s] = t /\ shardStatus'[s] = "FAILED"
                 /\ taskStatus'[t] = "CANCELLED" =>
                      \A s \in Shards : TaskOf[s] = t => shardStatus'[s] \in Terminal
                 /\ (\A s \in Shards : TaskOf[s] = t => shardStatus'[s] \in Terminal)
                      => taskStatus'[t] \in Terminal
                 /\ taskStatus'[t] \in {"PENDING", "WAITING_FOR_AGENTS"} =>
                      \A s \in Shards : TaskOf[s] = t => shardStatus'[s] = "QUEUED"
      <4>1. CASE t = d.task
        <5> HIDE DEF d
        <5>1. CASE d.seen = "RUNNING" /\ d.want = "RUNNING"
          BY <1>2, <2>4, <4>1, <5>1, Zenon DEF Terminal
        <5>2. CASE d.seen = "" /\ \E s \in others : shardStatus[s] \notin Terminal
          BY <1>2, <2>1, <2>4, <3>1, <4>1, <5>2, Zenon DEF Terminal, Unpromoted
        <5>3. CASE /\ d.seen = "FAILED" /\ d.want \in {"SUCCEEDED", "FAILED"}
                   /\ \A s \in others : shardStatus[s] \in {"SUCCEEDED", "FAILED"}
                   /\ d.want = "FAILED" \/ \E s \in others : shardStatus[s] = "FAILED"
          BY <1>2, <2>4, <3>1, <4>1, <5>3, ZenonT(30) DEF Terminal
        <5>4. CASE /\ d.seen = "SUCCEEDED" /\ d.want = "SUCCEEDED"
                   /\ \A s \in others : shardStatus[s] = "SUCCEEDED"
          BY <1>2, <2>4, <3>1, <4>1, <5>4, SMTT(30) DEF Terminal
        <5> QED
          BY <3>2, <5>1, <5>2, <5>3, <5>4, Zenon
      <4>2. CASE t # d.task
        <5>1. /\ taskStatus'[t] = taskStatus[t]
              /\ \A s \in Shards : TaskOf[s] = t => shardStatus'[s] = shardStatus[s]
          BY <2>4, <3>1, <4>2, Zenon
        <5>2. SettledTaskConsistent /\ NoMissedCompletion /\ UnleasedUntilPromoted
          BY <1>1 DEF TablesOK
        <5> QED
          BY <5>1, <5>2 DEF SettledTaskConsistent, NoMissedCompletion, UnleasedUntilPromoted, ShardsOf
      <4> QED
        BY <4>1, <4>2
    <3>4. SettledTaskConsistent' /\ NoMissedCompletion' /\ UnleasedUntilPromoted'
      BY <3>3 DEF SettledTaskConsistent, NoMissedCompletion, UnleasedUntilPromoted, ShardsOf
    <3>5. LeaseRecorded'
      <4>1. LeaseRecorded /\ agentOf' = agentOf
        BY <1>1, <2>3, Zenon DEF TablesOK
      <4>2. shardStatus[d.shard] \in Active /\ shardStatus'[d.shard] # "QUEUED"
        BY <1>2, <2>4, Zenon DEF Required, Active
      <4> HIDE DEF d
      <4> QED
        BY <1>2, <2>4, <4>1, <4>2, Zenon DEF LeaseRecorded, Owns
    <3>6. ASSUME NEW s \in Shards PROVE ShardRowOK(s)'
      <4>1. ShardRowOK(s) /\ TaskOf[s] \in Tasks
        BY <1>1, Zenon, StoreAssumption DEF TablesOK
      <4>2. CASE s = d.shard
        BY <1>2, <2>4, <4>2, Zenon DEF ShardRowOK, Unpromoted
      <4>3. CASE s # d.shard
        BY <1>2, <2>1, <2>3, <2>4, <4>1, <4>3, Zenon DEF ShardRowOK, Unpromoted, Terminal
      <4> QED
        BY <4>2, <4>3
    <3> QED
      BY <3>4, <3>5, <3>6 DEF TablesOK
  <2>9. hooks[d.task] = <<>>
    BY <1>2, <2>1, Zenon DEF IndInv, HookMatchesOutcome
  <2>10. CallOK(pc[w], call[w])' /\ \A t \in Tasks : ~HoldsTask(w, t)'
    <3>1. CASE pc'[w] = "idle"
      BY <2>6, <3>1, Zenon DEF CallOK, ReportOK, LeaseOK, RollbackOK, CancelOK, HoldsTask, LocksTask
    <3>2. CASE pc'[w] = "dispatch"
      BY <1>1, <1>2, <2>4, <2>6, <2>9, <3>2, Zenon
         DEF CallOK, ReportOK, LeaseOK, RollbackOK, CancelOK, HoldsTask, LocksTask, Terminal
    <3> QED
      BY <2>6, <3>1, <3>2, Zenon
  <2>11. ASSUME NEW v \in Workers \ {w} PROVE Respects(v)
    <3>1. \A t \in Tasks : HoldsTask(v, t) => t # d.task
      <4>1. HoldsTask(w, d.task)
        BY <1>1 DEF HoldsTask, LocksTask
      <4> QED
        BY <1>2, <4>1, ZenonT(30) DEF IndInv, Exclusive
    <3>2. \A s \in Shards : HoldsShard(v, s) => TaskOf[s] # d.task
      BY <3>1, Held, Zenon, StoreAssumption
    <3>3. \A s \in Shards : TaskOf[s] # d.task => shardStatus'[s] = shardStatus[s]
      BY <1>2, <2>4, ZenonT(30)
    <3> HIDE DEF d
    <3> QED
      BY <1>1, <2>4, <3>1, <3>2, <3>3, Zenon DEF Respects, ShardsOf
  <2>12. ASSUME NEW v \in Workers \ {w}, pc[v] = "dispatch" PROVE call[v].task # d.task
    BY <1>2, <2>1, <2>12, ZenonT(30) DEF IndInv, CallOK, CancelOK
  <2> HIDE DEF d
  <2>13. HookMatchesOutcome' /\ CancelNoticeIsSafe'
    BY <1>1, <2>5, OutputsKept
  <2> QED
    BY <2>5, <2>6, <2>7, <2>8, <2>10, <2>11, <2>12, <2>13, TableStep, ZenonT(30)
<1> QED
  BY <1>3, <1>4, Zenon

-----------------------------------------------------------------------------
(* The theorems. *)

\* Every step of every service call keeps the invariant.
LEMMA NextInductive == IndInv /\ [Next]_vars => IndInv'
<1> SUFFICES ASSUME IndInv, [Next]_vars PROVE IndInv'
  BY SMTT(30)
<1>1. CASE UNCHANGED vars
  <2> USE <1>1 DEF vars
  <2>1. TypeOK' /\ HookMatchesOutcome' /\ CancelNoticeIsSafe'
    BY DEF IndInv, TypeOK, HookMatchesOutcome, CancelNoticeIsSafe
  <2>2. TablesOK'
    <3>1. SettledTaskConsistent' /\ NoMissedCompletion' /\ UnleasedUntilPromoted' /\ LeaseRecorded'
      BY SMTT(30) DEF IndInv, TablesOK, SettledTaskConsistent, NoMissedCompletion,
             UnleasedUntilPromoted, LeaseRecorded
    <3>2. \A s \in Shards : ShardRowOK(s)'
      BY SMTT(30) DEF IndInv, TablesOK, ShardRowOK
    <3> QED
      BY <3>1, <3>2, SMTT(30) DEF TablesOK
  <2>3. Exclusive'
    BY SMTT(30) DEF IndInv, Exclusive, HoldsTask, LocksTask
  <2>4. \A w \in Workers : CallOK(pc[w], call[w])'
    <3>1. Advance /\ \A w \in Workers : Respects(w)
      BY DEF Advance, Respects
    <3> QED
      BY <3>1, StableCall, SMTT(30)
  <2> QED
    BY <2>1, <2>2, <2>3, <2>4, SMTT(30) DEF IndInv
<1>2. ASSUME NEW t \in Tasks, SubmitTask(t) PROVE IndInv'
  BY <1>2, SubmitStep
<1>3. ASSUME NEW w \in Workers, Start(w) PROVE IndInv'
  <2>1. CASE PollPendingTasks(w)
    BY <2>1, PollStep
  <2>2. CASE \E a \in Agents : LeaseNextShard(w, a)
    BY <2>2, LeaseQuietStep
  <2>3. CASE \/ \E a \in Agents : \/ RollbackOrphanShardsForAgent(w, a)
                                \/ \E s \in Shards : RollbackTimedOutShard(w, a, s)
             \/ \E registered \in SUBSET Agents, old \in SUBSET Shards :
                  CleanupOrphanShards(w, registered, old)
    BY <2>3, RollbackQuietStep
  <2>4. CASE \E a \in Agents, s \in Shards, status \in {"RUNNING", "SUCCEEDED", "FAILED"} :
               ReportShardStatus(w, a, s, status)
    BY <2>4, ReportQuietStep
  <2>5. CASE \E t \in Tasks : CancelTask(w, t)
    BY <2>5, CancelQuietStep
  <2> QED
    BY <1>3, <2>1, <2>2, <2>3, <2>4, <2>5 DEF Start
<1>4. ASSUME NEW w \in Workers, Continue(w) PROVE IndInv'
  <2>1. ASSUME NEW t \in Tasks, MarkTasksStatus(w, t) PROVE IndInv'
    BY <2>1, MarkStep
  <2>2. ASSUME NEW t \in Tasks, ProvisionFailed(w, t) PROVE IndInv'
    BY <2>2, PollStep
  <2>3. CASE \/ LeaseSelect(w) \/ LeaseLoad(w) \/ LeasePromote(w)
             \/ AssignSent(w) \/ RollbackAssignedShard(w)
    BY <2>3, LeaseQuietStep
  <2>4. CASE LeaseTake(w)
    BY <2>4, LeaseTakeStep
  <2>5. CASE \/ ReportRead(w) \/ ReportLockTask(w) \/ ReportMarkShard(w)
             \/ RecomputeTaskStatus(w)
    BY <2>5, ReportQuietStep
  <2>6. CASE ReportCommit(w)
    BY <2>6, ReportCommitStep
  <2>7. CASE CancelTaskById(w)
    BY <2>7, CancelQuietStep
  <2>8. CASE CancelTaskShardsByTaskId(w)
    BY <2>8, CancelShardsStep
  <2>9. CASE DispatchCompletionHook(w) \/ NotifyCancelShard(w)
    BY <2>9, DispatchStep, NotifyStep
  <2>10. CASE ReadTask(w) \/ CleanupShard(w)
    BY <2>10, RollbackQuietStep
  <2>11. CASE SweepShard(w) \/ RollbackShardWithTask(w)
    BY <2>11, SweepStep, RollbackStep
  <2> QED
    BY <1>4, <2>1, <2>2, <2>3, <2>4, <2>5, <2>6, <2>7, <2>8, <2>9, <2>10, <2>11 DEF Continue
<1>5. ASSUME NEW w \in Workers, Abort(w) PROVE IndInv'
  BY <1>5, ReturnStep DEF Abort
<1> QED
  BY <1>1, <1>2, <1>3, <1>4, <1>5 DEF Next

\* IndInv holds in every reachable state.
LEMMA Inductive == Spec => []IndInv
<1>1. Init => IndInv
  BY InitInductive
<1>2. IndInv /\ [Next]_vars => IndInv'
  BY NextInductive
<1> QED
  BY <1>1, <1>2, PTL DEF Spec

\* Type correctness of the tables and of every service call in progress.
THEOREM TypeCorrect == Spec => []TypeOK
<1>1. IndInv => TypeOK
  BY DEF IndInv
<1> QED
  BY <1>1, Inductive, PTL

\* A task's terminal status agrees with its shards, however reports, cancellations and rollbacks
\* interleave.
THEOREM Settlement == Spec => []SettledTaskConsistent
<1>1. IndInv => SettledTaskConsistent
  BY DEF IndInv, TablesOK
<1> QED
  BY <1>1, Inductive, PTL

\* The FOR UPDATE lock of ReportShardStatus suffices: concurrent last reports settle the task.
THEOREM Completion == Spec => []NoMissedCompletion
<1>1. IndInv => NoMissedCompletion
  BY DEF IndInv, TablesOK
<1> QED
  BY <1>1, Inductive, PTL

\* The promotion of the task and the lease of its shard are seen together.
THEOREM Promotion == Spec => []UnleasedUntilPromoted
<1>1. IndInv => UnleasedUntilPromoted
  BY DEF IndInv, TablesOK
<1> QED
  BY <1>1, Inductive, PTL

\* The assigned agent is recorded exactly while the shard is leased or running.
THEOREM Assignment == Spec => []LeaseRecorded
<1>1. IndInv => LeaseRecorded
  BY DEF IndInv, TablesOK
<1> QED
  BY <1>1, Inductive, PTL

\* The completion hook goes out at most once, with the status the task keeps.
THEOREM HookOnce == Spec => []HookMatchesOutcome
<1>1. IndInv => HookMatchesOutcome
  BY DEF IndInv
<1> QED
  BY <1>1, Inductive, PTL

\* CancelShard reaches agents only for cancelled tasks.
THEOREM NoticeSafe == Spec => []CancelNoticeIsSafe
<1>1. IndInv => CancelNoticeIsSafe
  BY DEF IndInv
<1> QED
  BY <1>1, Inductive, PTL

\* The task statuses a step may write: every status change of a task is a step forward.
LEMMA TaskStep ==
    ASSUME IndInv, Next
    PROVE  TaskAdvances
<1> SUFFICES ASSUME NEW t \in Tasks, taskStatus'[t] # taskStatus[t]
             PROVE  Rank(taskStatus[t]) < Rank(taskStatus'[t])
  BY DEF TaskAdvances
<1> USE DEF IndInv, TypeOK, tables
<1>1. ASSUME NEW u \in Tasks, SubmitTask(u) PROVE taskStatus[t] = "ABSENT" /\ taskStatus'[t] = "PENDING"
  BY <1>1, SMTT(30) DEF SubmitTask
<1>2. ASSUME NEW w \in Workers, NEW u \in Tasks, MarkTasksStatus(w, u)
      PROVE  taskStatus[t] = "PENDING" /\ taskStatus'[t] = "WAITING_FOR_AGENTS"
  BY <1>2 DEF MarkTasksStatus, Markable
<1>3. ASSUME NEW w \in Workers, LeaseTake(w)
      PROVE  taskStatus[t] = "WAITING_FOR_AGENTS" /\ taskStatus'[t] = "QUEUED"
  <2>1. t \in call[w].tasks /\ taskStatus'[t] = "QUEUED" /\ pc[w] = "take"
    BY <1>3, SMTT(30) DEF LeaseTake
  <2>2. CallOK("take", call[w])
    BY <2>1
  <2> HIDE DEF IndInv, TypeOK
  <2>3. \/ call[w].tasks = {}
        \/ call[w].tasks = {call[w].task} /\ taskStatus[call[w].task] = "WAITING_FOR_AGENTS"
    BY <2>2, ZenonT(30) DEF CallOK, LeaseOK
  <2> QED
    BY <2>1, <2>3
<1>4. ASSUME NEW w \in Workers, ReportCommit(w)
      PROVE  /\ taskStatus[t] \notin Terminal \cup Unpromoted
             /\ taskStatus'[t] = "RUNNING" \/ taskStatus'[t] \in Terminal
  <2> DEFINE d == call[w]
  <2>1. t = d.task /\ taskStatus'[t] = d.seen /\ d.seen \in Terminal \cup {"RUNNING"}
    BY <1>4, Zenon DEF ReportCommit
  <2>2. d.shard \in ShardsOf(t) /\ shardStatus[d.shard] \in Active
    BY <1>4, <2>1, Zenon DEF ReportCommit, CallOK, ReportOK, ShardsOf, Required, Active
  <2>3. taskStatus[t] \notin Terminal
    <3>1. \A u \in Tasks : taskStatus[u] \in Terminal
                           => \A s \in ShardsOf(u) : shardStatus[s] \in Terminal
      BY SMTT(30) DEF TablesOK, SettledTaskConsistent, Terminal
    <3> QED
      BY <2>2, <3>1, ZenonT(30) DEF Active, Terminal
  <2>4. taskStatus[t] \notin Unpromoted
    <3>1. d.shard \in Shards /\ TaskOf[d.shard] = t /\ shardStatus[d.shard] \notin {"QUEUED", "ABSENT"}
      BY <2>2 DEF ShardsOf, Active
    <3>2. taskStatus[t] # "ABSENT"
      BY <3>1, ZenonT(30) DEF TablesOK, ShardRowOK
    <3>3. taskStatus[t] \notin {"PENDING", "WAITING_FOR_AGENTS"}
      BY <2>2, <3>1 DEF TablesOK, UnleasedUntilPromoted
    <3> QED
      BY <3>2, <3>3, SMTT(30) DEF Unpromoted
  <2> QED
    BY <2>1, <2>3, <2>4
<1>5. ASSUME NEW w \in Workers, CancelTaskShardsByTaskId(w)
      PROVE  taskStatus[t] \notin Terminal /\ taskStatus'[t] = "CANCELLED"
  BY <1>5, Zenon DEF CancelTaskShardsByTaskId, CallOK, CancelOK
<1>6. ASSUME NEW w \in Workers, RollbackShardWithTask(w) PROVE FALSE
  BY <1>6, Zenon DEF RollbackShardWithTask, CallOK, RollbackOK, WasWaiting
<1>7. ASSUME NEW w \in Workers, Start(w) \/ Abort(w) PROVE FALSE
  BY <1>7, Zenon DEF Start, Abort, PollPendingTasks, LeaseNextShard, ReportShardStatus, CancelTask,
              RollbackOrphanShardsForAgent, RollbackTimedOutShard, CleanupOrphanShards
<1>8. ASSUME NEW w \in Workers, Continue(w)
      PROVE  \/ LeaseTake(w) \/ ReportCommit(w) \/ CancelTaskShardsByTaskId(w)
             \/ \E u \in Tasks : MarkTasksStatus(w, u)
  <2>1. CASE (\E u \in Tasks : ProvisionFailed(w, u)) \/ SweepShard(w) \/ ReadTask(w) \/ CleanupShard(w)
    BY <2>1, Zenon DEF ProvisionFailed, SweepShard, ReadTask, CleanupShard
  <2>2. CASE LeaseSelect(w) \/ LeaseLoad(w) \/ LeasePromote(w) \/ AssignSent(w) \/ RollbackAssignedShard(w)
    BY <2>2, Zenon DEF LeaseSelect, LeaseLoad, LeasePromote, AssignSent, RollbackAssignedShard
  <2>3. CASE ReportRead(w) \/ ReportLockTask(w) \/ ReportMarkShard(w) \/ RecomputeTaskStatus(w)
    BY <2>3, Zenon DEF ReportRead, ReportLockTask, ReportMarkShard, RecomputeTaskStatus
  <2>4. CASE CancelTaskById(w) \/ DispatchCompletionHook(w) \/ NotifyCancelShard(w)
    BY <2>4, SMTT(30) DEF CancelTaskById, DispatchCompletionHook, NotifyCancelShard
  <2> QED
    BY <1>6, <1>8, <2>1, <2>2, <2>3, <2>4, Zenon DEF Continue
<1>9. \/ taskStatus[t] = "ABSENT" /\ taskStatus'[t] = "PENDING"
      \/ taskStatus[t] = "PENDING" /\ taskStatus'[t] = "WAITING_FOR_AGENTS"
      \/ taskStatus[t] = "WAITING_FOR_AGENTS" /\ taskStatus'[t] = "QUEUED"
      \/ taskStatus[t] \in {"QUEUED", "RUNNING"} /\ taskStatus'[t] = "RUNNING"
      \/ taskStatus[t] \notin Terminal /\ taskStatus'[t] \in Terminal
  <2>1. taskStatus[t] \notin Terminal \cup Unpromoted => taskStatus[t] \in {"QUEUED", "RUNNING"}
    BY SMTT(30) DEF TaskStatus, Leasable, Terminal, Unpromoted
  <2>2. CASE \E u \in Tasks : SubmitTask(u)
    BY <1>1, <2>2, SMTT(30)
  <2>3. CASE \E w \in Workers : Continue(w)
    <3>1. PICK w \in Workers : Continue(w)
      BY <2>3, SMTT(30)
    <3>2. CASE LeaseTake(w) \/ \E u \in Tasks : MarkTasksStatus(w, u)
      BY <1>2, <1>3, <3>2, SMTT(30)
    <3>3. CASE ReportCommit(w)
      BY <1>4, <2>1, <3>3, SMTT(30)
    <3>4. CASE CancelTaskShardsByTaskId(w)
      BY <1>5, <3>4 DEF Terminal
    <3> QED
      BY <1>8, <3>1, <3>2, <3>3, <3>4, ZenonT(30)
  <2> QED
    BY <1>7, <2>2, <2>3 DEF Next
<1> QED
  BY <1>9 DEF Rank, Terminal, TaskStatus, Leasable

\* A shard in a terminal status, FAILED included, is never written again.
EndedShardStays ==
    \A s \in Shards : shardStatus[s] \in Terminal => shardStatus'[s] = shardStatus[s]

\* Every write of a shard's status is guarded by the statuses it may leave.
LEMMA ShardStep ==
    ASSUME IndInv, Next
    PROVE  EndedShardStays
<1> SUFFICES ASSUME NEW s \in Shards, shardStatus[s] \in Terminal
             PROVE  shardStatus'[s] = shardStatus[s]
  BY SMTT(30) DEF EndedShardStays
<1> USE DEF IndInv, TypeOK, tables
<1>1. ASSUME NEW t \in Tasks, SubmitTask(t) PROVE shardStatus'[s] = shardStatus[s]
  BY <1>1 DEF SubmitTask, TablesOK, ShardRowOK, Terminal
<1>2. ASSUME NEW w \in Workers, Start(w) \/ Abort(w) PROVE shardStatus'[s] = shardStatus[s]
  BY <1>2, Zenon DEF Start, Abort, PollPendingTasks, LeaseNextShard, ReportShardStatus, CancelTask,
              RollbackOrphanShardsForAgent, RollbackTimedOutShard, CleanupOrphanShards
<1>3. ASSUME NEW w \in Workers, Continue(w) PROVE shardStatus'[s] = shardStatus[s]
  <2>1. CASE (\E u \in Tasks : MarkTasksStatus(w, u) \/ ProvisionFailed(w, u)) \/ ReadTask(w) \/ CleanupShard(w)
    BY <2>1, Zenon DEF MarkTasksStatus, ProvisionFailed, ReadTask, CleanupShard
  <2>2. CASE LeaseSelect(w) \/ LeaseLoad(w) \/ LeasePromote(w) \/ AssignSent(w) \/ RollbackAssignedShard(w)
    BY <2>2, Zenon DEF LeaseSelect, LeaseLoad, LeasePromote, AssignSent, RollbackAssignedShard
  <2>3. CASE ReportRead(w) \/ ReportLockTask(w) \/ ReportMarkShard(w) \/ RecomputeTaskStatus(w)
    BY <2>3, Zenon DEF ReportRead, ReportLockTask, ReportMarkShard, RecomputeTaskStatus
  <2>4. CASE CancelTaskById(w) \/ DispatchCompletionHook(w) \/ NotifyCancelShard(w)
    BY <2>4 DEF CancelTaskById, DispatchCompletionHook, NotifyCancelShard
  <2>5. CASE LeaseTake(w)
    BY <2>5 DEF LeaseTake, Terminal
  <2>6. CASE ReportCommit(w)
    <3>1. shardStatus[call[w].shard] \in Active
      BY <2>6, ZenonT(30) DEF ReportCommit, CallOK, ReportOK, Required, Active
    <3>2. call[w].shard # s
      BY <3>1 DEF Active, Terminal
    <3> QED
      BY <2>6, <3>2, Zenon DEF ReportCommit
  <2>7. CASE CancelTaskShardsByTaskId(w)
    BY <2>7, Zenon DEF CancelTaskShardsByTaskId, OpenShards
  <2>8. CASE SweepShard(w)
    <3>1. PICK r \in call[w].rows : IF MayTransition(r.id, {r.status})
                                    THEN RollbackToQueued(r.id) ELSE UNCHANGED <<shardStatus, agentOf>>
      BY <2>8, Zenon DEF SweepShard
    <3>2. r.status \in Active
      BY <3>1, call[w] \in Call, ZenonT(30) DEF Call, Row
    <3>3. MayTransition(r.id, {r.status}) => r.id # s
      BY <3>2 DEF MayTransition, Active, Terminal
    <3> QED
      BY <3>1, <3>3, Zenon DEF RollbackToQueued
  <2>9. CASE RollbackShardWithTask(w)
    <3>1. call[w].from \subseteq Active
      BY Zenon DEF Call
    <3>2. MayTransition(call[w].shard, call[w].from) => call[w].shard # s
      BY <3>1, Zenon DEF MayTransition, Active, Terminal
    <3> QED
      BY <2>9, <3>2, Zenon DEF RollbackShardWithTask, RollbackToQueued
  <2> QED
    BY <1>3, <2>1, <2>2, <2>3, <2>4, <2>5, <2>6, <2>7, <2>8, <2>9, ZenonT(30) DEF Continue
<1> QED
  BY <1>1, <1>2, <1>3, Zenon DEF Next

\* No call leases, rolls back or reports a shard again once it is FAILED,
\* SUCCEEDED or CANCELLED: a failed shard is not given to another agent.
THEOREM FailedNotRetried == Spec => [][EndedShardStays]_vars
<1>1. IndInv /\ [Next]_vars => [EndedShardStays]_vars
  BY ShardStep
<1> QED
  BY <1>1, Inductive, PTL DEF Spec

\* A task only advances, and a shard that succeeded or was cancelled stays so,
\* whichever calls run concurrently.
THEOREM StatusOrder == Spec => NothingIsUndone
<1>1. IndInv /\ [Next]_vars => [TaskAdvances]_vars
  BY TaskStep, SMTT(30)
<1>2. IndInv /\ [Next]_vars => [ShardStaysEnded]_vars
  BY ShardStep DEF EndedShardStays, ShardStaysEnded, Terminal
<1>3. IndInv /\ [Next]_vars => [TaskAdvances /\ ShardStaysEnded]_vars
  BY <1>1, <1>2, Zenon
<1> QED
  BY <1>3, Inductive, PTL DEF Spec, NothingIsUndone

-----------------------------------------------------------------------------
(* Why every call returns, as far as it can be said without fairness. *)

\* A call that holds a shard row holds the row of its task.
LEMMA ShardUnderTask ==
    ASSUME IndInv, NEW w \in Workers, NEW s \in Shards, HoldsShard(w, s)
    PROVE  HoldsTask(w, TaskOf[s])
<1>1. pc[w] \in {"recompute", "commit"} /\ call[w].shard = s
  BY DEF HoldsShard
<1>2. call[w].task = TaskOf[call[w].shard]
  BY <1>1, Zenon DEF IndInv, CallOK, ReportOK
<1> QED
  BY <1>1, <1>2, Zenon DEF HoldsTask, LocksTask

\* Row locks are taken in one order, so that no wait for a row lock is circular:
\* whoever is waited for does not wait.
THEOREM NoDeadlock == Spec => []NoLockCycle
<1>1. ASSUME IndInv, NEW v \in Workers, Holds(v), NEW w \in Workers, WaitsFor(v, w)
      PROVE  FALSE
  <2> DEFINE d == call[v]
  <2>1. CallOK(pc[v], d) /\ d \in Call /\ w # v
    BY <1>1 DEF IndInv, TypeOK, WaitsFor
  <2>2. \/ pc[v] \in {"mark", "recompute", "commit", "cancelShards"}
        \/ pc[v] = "take" /\ d.tasks = {d.task} /\ d.task = TaskOf[d.shard]
    <3>1. CASE \E s \in Shards : HoldsShard(v, s)
      BY <3>1 DEF HoldsShard
    <3>2. CASE \E t \in Tasks : HoldsTask(v, t)
      <4>1. PICK t \in Tasks : LocksTask(pc[v], d, t)
        BY <3>2 DEF HoldsTask
      <4>2. CASE pc[v] \in {"select", "load", "promote", "take"} /\ t \in d.tasks
        BY <2>1, <4>2, Zenon DEF CallOK, LeaseOK
      <4> QED
        BY <4>1, <4>2, Zenon DEF LocksTask
    <3> QED
      BY <1>1, <3>1, <3>2, Zenon DEF Holds
  <2>3. NeededTasks(v) = {}
    BY <2>2 DEF NeededTasks
  <2>4. PICK s \in NeededShards(v) : HoldsShard(w, s)
    BY <1>1, <2>3, Zenon DEF WaitsFor
  <2>5. s \in Shards /\ HoldsTask(w, TaskOf[s])
    BY <1>1, <2>4, ShardUnderTask DEF NeededShards
  <2>6. HoldsTask(v, TaskOf[s])
    <3>1. CASE pc[v] = "take"
      <4>1. s = d.shard /\ TaskOf[s] \in d.tasks
        BY <2>2, <2>4, <3>1 DEF NeededShards
      <4> QED
        BY <3>1, <4>1 DEF HoldsTask, LocksTask
    <3>2. CASE pc[v] = "mark"
      <4>1. s = d.shard /\ d.task = TaskOf[d.shard]
        BY <2>1, <2>4, <3>2, Zenon DEF NeededShards, CallOK, ReportOK
      <4> QED
        BY <3>2, <4>1, Zenon DEF HoldsTask, LocksTask
    <3>3. CASE pc[v] = "cancelShards"
      <4>1. TaskOf[s] = d.task
        BY <2>4, <3>3, Zenon DEF NeededShards, OpenShards, ShardsOf
      <4> QED
        BY <3>3, <4>1, Zenon DEF HoldsTask, LocksTask
    <3>4. CASE pc[v] \in {"recompute", "commit"}
      BY <2>4, <3>4 DEF NeededShards
    <3> QED
      BY <2>2, <3>1, <3>2, <3>3, <3>4
  <2> QED
    BY <1>1, <2>1, <2>5, <2>6 DEF IndInv, Exclusive
<1>2. ASSUME IndInv, NEW v \in Workers, pc[v] = "rollback"
      PROVE  ~WasWaiting(call[v])
  BY <1>2, Zenon DEF IndInv, CallOK, RollbackOK, WasWaiting
<1>3. IndInv => NoLockCycle
  BY <1>1, <1>2, Zenon DEF NoLockCycle
<1> QED
  BY <1>3, Inductive, PTL

\* A call that returns has made progress.
LEMMA ReturnShrinks ==
    ASSUME TypeOK, NEW w \in Workers, Return(w)
    PROVE  Progresses(w)
<1>1. pc'[w] = "idle"
  BY GotoFrame DEF Return
<1> QED
  BY <1>1, Zenon DEF Progresses

\* So has one that goes on to a later statement with the same rows.
LEMMA TurnShrinks ==
    ASSUME TypeOK, NEW w \in Workers, NEW q, NEW d, Goto(w, q, d),
           d.tries = call[w].tries, d.rows = call[w].rows,
           StepsLeft(q) < StepsLeft(pc[w]), Leasing(pc[w]) <=> Leasing(q)
    PROVE  Progresses(w)
<1>1. pc'[w] = q /\ call'[w] = d
  BY GotoFrame
<1> QED
  BY <1>1, Zenon DEF Progresses

\* And one that has taken a row off its list.
LEMMA RowsShrink ==
    ASSUME TypeOK, NEW w \in Workers, NEW q, NEW d, Goto(w, q, d), NEW r \in call[w].rows,
           d.tries = call[w].tries, d.rows = call[w].rows \ {r},
           ~Leasing(pc[w]), ~Leasing(q)
    PROVE  Progresses(w)
<1>1. pc'[w] = q /\ call'[w] = d
  BY GotoFrame
<1>2. d.rows # call[w].rows /\ d.rows \subseteq call[w].rows
  OBVIOUS
<1> QED
  BY <1>1, <1>2, Zenon DEF Progresses

\* Every statement of LeaseNextShard shrinks the call: the loop is left, or a
\* further one of its tries begins.
LEMMA LeaseShrinks ==
    ASSUME IndInv, NEW w \in Workers,
           \/ LeaseSelect(w) \/ LeaseLoad(w) \/ LeasePromote(w) \/ LeaseTake(w)
           \/ AssignSent(w) \/ RollbackAssignedShard(w)
    PROVE  Progresses(w)
<1> DEFINE c == call[w]
<1>1. TypeOK /\ c \in Call
  BY DEF IndInv, TypeOK
<1>2. ASSUME LeaseRetry(w), pc[w] \in {"load", "take"} PROVE Progresses(w)
  <2>1. CASE Return(w)
    BY <1>1, <2>1, ReturnShrinks
  <2>2. CASE Goto(w, "select", [c EXCEPT !.tries = @ + 1])
    <3> DEFINE d == [c EXCEPT !.tries = @ + 1]
    <3>1. d.tries = c.tries + 1 /\ c.tries \in 0..(MaxRetries - 1)
      BY <1>1, Zenon DEF Call
    <3>2. d.tries > c.tries
      BY <3>1
    <3> HIDE DEF d
    <3>3. pc'[w] = "select" /\ call'[w] = d
      BY <1>1, <2>2, GotoFrame, Zenon DEF d
    <3>4. Leasing(pc[w]) /\ Leasing("select")
      BY <1>2 DEF Leasing
    <3> QED
      BY <3>2, <3>3, <3>4, Zenon DEF Progresses
  <2> QED
    BY <1>2, <2>1, <2>2 DEF LeaseRetry
<1>3. CASE LeaseSelect(w)
  <2>1. CASE Return(w)
    BY <1>1, <2>1, ReturnShrinks
  <2>2. ASSUME NEW s \in Shards, Goto(w, "load", [c EXCEPT !.shard = s, !.task = TaskOf[s]])
        PROVE  Progresses(w)
    <3> DEFINE d == [c EXCEPT !.shard = s, !.task = TaskOf[s]]
    <3>1. d.tries = c.tries /\ d.rows = c.rows
      BY <1>1, Zenon DEF Call
    <3>2. StepsLeft("load") < StepsLeft("select") /\ (Leasing("select") <=> Leasing("load"))
      BY DEF StepsLeft, Leasing
    <3>3. pc[w] = "select"
      BY <1>3, Zenon DEF LeaseSelect
    <3> HIDE DEF d
    <3> QED
      BY <1>1, <2>2, <3>1, <3>2, <3>3, TurnShrinks DEF d
  <2> QED
    BY <1>3, <2>1, <2>2, Zenon DEF LeaseSelect
<1>4. CASE LeaseLoad(w)
  <2>1. pc[w] = "load"
    BY <1>4 DEF LeaseLoad
  <2>2. /\ StepsLeft("promote") < StepsLeft("load") /\ StepsLeft("take") < StepsLeft("load")
        /\ Leasing("load") /\ Leasing("promote") /\ Leasing("take")
    BY DEF StepsLeft, Leasing
  <2>3. CASE Goto(w, "promote", c)
    BY <1>1, <2>1, <2>2, <2>3, TurnShrinks
  <2>4. ASSUME NEW status, Goto(w, "take", [c EXCEPT !.seen = status]) PROVE Progresses(w)
    <3> DEFINE d == [c EXCEPT !.seen = status]
    <3>1. d.tries = c.tries /\ d.rows = c.rows
      BY <1>1, Zenon DEF Call
    <3> HIDE DEF d
    <3> QED
      BY <1>1, <2>1, <2>2, <2>4, <3>1, TurnShrinks DEF d
  <2> QED
    BY <1>2, <1>4, <2>1, <2>3, <2>4 DEF LeaseLoad
<1>5. CASE LeasePromote(w)
  <2>1. PICK promoted : Goto(w, "take", [c EXCEPT !.seen = "QUEUED", !.tasks = @ \cup promoted])
    BY <1>5, Zenon DEF LeasePromote
  <2> DEFINE d == [c EXCEPT !.seen = "QUEUED", !.tasks = @ \cup promoted]
  <2>2. d.tries = c.tries /\ d.rows = c.rows
    BY <1>1, Zenon DEF Call
  <2>3. pc[w] = "promote" /\ StepsLeft("take") < StepsLeft("promote") /\ (Leasing("promote") <=> Leasing("take"))
    BY <1>5 DEF LeasePromote, StepsLeft, Leasing
  <2> HIDE DEF d
  <2> QED
    BY <1>1, <2>1, <2>2, <2>3, TurnShrinks DEF d
<1>6. CASE LeaseTake(w)
  <2>1. CASE LeaseRetry(w)
    BY <1>2, <1>6, <2>1 DEF LeaseTake
  <2>2. ASSUME NEW d, Goto(w, "assigned", d) PROVE Progresses(w)
    <3>1. pc'[w] = "assigned" /\ pc[w] = "take"
      BY <1>1, <1>6, <2>2, GotoFrame DEF LeaseTake
    <3>2. Leasing("take") /\ ~Leasing("assigned")
      BY DEF Leasing
    <3> QED
      BY <3>1, <3>2, Zenon DEF Progresses
  <2> QED
    BY <1>6, <2>1, <2>2, Zenon DEF LeaseTake
<1>7. CASE AssignSent(w)
  BY <1>1, <1>7, ReturnShrinks DEF AssignSent
<1>8. CASE RollbackAssignedShard(w)
  <2> DEFINE d == [c EXCEPT !.from = {"LEASED"}]
  <2>1. d.tries = c.tries /\ d.rows = c.rows
    BY <1>1, Zenon DEF Call
  <2>2. /\ pc[w] = "assigned" /\ StepsLeft("rollback") < StepsLeft("assigned")
        /\ Leasing("assigned") <=> Leasing("rollback")
    BY <1>8 DEF RollbackAssignedShard, StepsLeft, Leasing
  <2>3. Goto(w, "rollback", d)
    BY <1>8 DEF RollbackAssignedShard
  <2> HIDE DEF d
  <2> QED
    BY <1>1, <2>1, <2>2, <2>3, TurnShrinks
<1> QED
  BY <1>3, <1>4, <1>5, <1>6, <1>7, <1>8

\* Every statement of a report shrinks the call.
LEMMA ReportShrinks ==
    ASSUME IndInv, NEW w \in Workers,
           \/ ReportRead(w) \/ ReportLockTask(w) \/ ReportMarkShard(w)
           \/ RecomputeTaskStatus(w) \/ ReportCommit(w)
    PROVE  Progresses(w)
<1> DEFINE c == call[w]
<1>1. TypeOK /\ c \in Call
  BY DEF IndInv, TypeOK
<1>2. CASE Return(w)
  BY <1>1, <1>2, ReturnShrinks
<1>3. ASSUME NEW q, NEW v, Goto(w, q, [c EXCEPT !.seen = v]), StepsLeft(q) < StepsLeft(pc[w]),
             Leasing(pc[w]) <=> Leasing(q)
      PROVE  Progresses(w)
  <2> DEFINE d == [c EXCEPT !.seen = v]
  <2>1. d.tries = c.tries /\ d.rows = c.rows
    BY <1>1, Zenon DEF Call
  <2> HIDE DEF d
  <2> QED
    BY <1>1, <1>3, <2>1, TurnShrinks DEF d
<1>4. ASSUME NEW q, Goto(w, q, c), StepsLeft(q) < StepsLeft(pc[w]), Leasing(pc[w]) <=> Leasing(q)
      PROVE  Progresses(w)
  BY <1>1, <1>4, TurnShrinks
<1>5. /\ StepsLeft("lock") < StepsLeft("read") /\ StepsLeft("mark") < StepsLeft("lock")
      /\ StepsLeft("commit") < StepsLeft("mark") /\ StepsLeft("recompute") < StepsLeft("mark")
      /\ StepsLeft("commit") < StepsLeft("recompute") /\ StepsLeft("dispatch") < StepsLeft("commit")
  BY DEF StepsLeft
<1>6. \A q \in {"read", "lock", "mark", "recompute", "commit", "dispatch"} : ~Leasing(q)
  BY DEF Leasing
<1>7. CASE ReportRead(w)
  BY <1>3, <1>5, <1>6, <1>7, Zenon DEF ReportRead
<1>8. CASE ReportLockTask(w)
  BY <1>2, <1>3, <1>5, <1>6, <1>8, Zenon DEF ReportLockTask
<1>9. CASE ReportMarkShard(w)
  BY <1>2, <1>3, <1>4, <1>5, <1>6, <1>9, Zenon DEF ReportMarkShard
<1>10. CASE RecomputeTaskStatus(w)
  BY <1>2, <1>3, <1>5, <1>6, <1>10, Zenon DEF RecomputeTaskStatus
<1>11. CASE ReportCommit(w)
  BY <1>2, <1>4, <1>5, <1>6, <1>11, Zenon DEF ReportCommit
<1> QED
  BY <1>7, <1>8, <1>9, <1>10, <1>11

\* Every statement of a poller pass, a cancellation or a rollback shrinks the
\* call.
LEMMA ListShrinks ==
    ASSUME IndInv, NEW w \in Workers,
           \/ \E t \in Tasks : MarkTasksStatus(w, t) \/ ProvisionFailed(w, t)
           \/ CancelTaskById(w) \/ CancelTaskShardsByTaskId(w)
           \/ DispatchCompletionHook(w) \/ NotifyCancelShard(w)
           \/ SweepShard(w) \/ ReadTask(w) \/ CleanupShard(w) \/ RollbackShardWithTask(w)
    PROVE  Progresses(w)
<1> DEFINE c == call[w]
<1>1. TypeOK /\ c \in Call
  BY DEF IndInv, TypeOK
<1>2. CASE Return(w)
  BY <1>1, <1>2, ReturnShrinks
<1>3. /\ StepsLeft("cancelShards") < StepsLeft("cancelTask") /\ StepsLeft("dispatch") < StepsLeft("cancelShards")
      /\ StepsLeft("notify") < StepsLeft("cancelShards") /\ StepsLeft("notify") < StepsLeft("dispatch")
      /\ StepsLeft("rollback") < StepsLeft("readTask") /\ StepsLeft("cleanup") < StepsLeft("rollback")
  BY DEF StepsLeft
<1>4. \A q \in {"poll", "cancelTask", "cancelShards", "dispatch", "notify", "sweep", "readTask", "rollback",
                "cleanup"} : ~Leasing(q)
  BY DEF Leasing
<1>5. ASSUME NEW q, Goto(w, q, c), StepsLeft(q) < StepsLeft(pc[w]), Leasing(pc[w]) <=> Leasing(q)
      PROVE  Progresses(w)
  BY <1>1, <1>5, TurnShrinks
<1>6. ASSUME NEW q, Loop(w, q, c), StepsLeft(q) < StepsLeft(pc[w]), Leasing(pc[w]) <=> Leasing(q)
      PROVE  Progresses(w)
  BY <1>2, <1>5, <1>6, Zenon DEF Loop
<1>7. ASSUME NEW r \in c.rows, NEW q, Loop(w, q, [c EXCEPT !.rows = @ \ {r}]), ~Leasing(pc[w]), ~Leasing(q)
      PROVE  Progresses(w)
  <2> DEFINE d == [c EXCEPT !.rows = @ \ {r}]
  <2>1. d.tries = c.tries /\ d.rows = c.rows \ {r}
    BY <1>1, Zenon DEF Call
  <2> HIDE DEF d
  <2>2. CASE Goto(w, q, d)
    BY <1>1, <1>7, <2>1, <2>2, RowsShrink
  <2> QED
    BY <1>2, <1>7, <2>2, Zenon DEF Loop, d
<1>8. ASSUME NEW t \in Tasks, MarkTasksStatus(w, t) \/ ProvisionFailed(w, t) PROVE Progresses(w)
  <2> DEFINE d == [c EXCEPT !.tasks = c.tasks \ Group(w, t)]
  <2>1. pc[w] = "poll" /\ t \in c.tasks /\ PollDone(w, Group(w, t))
    BY <1>8, Zenon DEF MarkTasksStatus, ProvisionFailed
  <2>2. t \in Group(w, t)
    BY <2>1 DEF Group
  <2>3. d.tries = c.tries /\ d.rows = c.rows /\ d.tasks = c.tasks \ Group(w, t)
    BY <1>1, Zenon DEF Call
  <2>4. CASE Goto(w, "poll", d)
    <3>1. pc'[w] = "poll" /\ call'[w] = d
      BY <1>1, <2>4, GotoFrame, Zenon
    <3>2. d.tasks # c.tasks /\ d.tasks \subseteq c.tasks
      BY <2>1, <2>2, <2>3
    <3> HIDE DEF d
    <3> QED
      BY <2>1, <2>3, <3>1, <3>2, Zenon DEF Progresses
  <2> QED
    BY <1>2, <2>1, <2>4, Zenon DEF PollDone
<1>9. CASE CancelTaskById(w)
  <2> DEFINE d == [c EXCEPT !.seen = "CANCELLED"]
  <2>1. d.tries = c.tries /\ d.rows = c.rows
    BY <1>1, Zenon DEF Call
  <2>2. pc[w] = "cancelTask" /\ (Return(w) \/ Goto(w, "cancelShards", d))
    BY <1>9, Zenon DEF CancelTaskById
  <2> HIDE DEF d
  <2>3. CASE Goto(w, "cancelShards", d)
    BY <1>1, <1>3, <1>4, <2>1, <2>2, <2>3, TurnShrinks
  <2> QED
    BY <1>2, <2>2, <2>3
<1>10. CASE CancelTaskShardsByTaskId(w)
  BY <1>3, <1>4, <1>5, <1>6, <1>10, Zenon DEF CancelTaskShardsByTaskId
<1>11. CASE DispatchCompletionHook(w)
  BY <1>3, <1>4, <1>6, <1>11, Zenon DEF DispatchCompletionHook
<1>12. CASE NotifyCancelShard(w)
  BY <1>4, <1>7, <1>12, Zenon DEF NotifyCancelShard
<1>13. CASE SweepShard(w)
  BY <1>4, <1>7, <1>13, Zenon DEF SweepShard
<1>14. CASE ReadTask(w)
  <2>1. PICK v : pc[w] = "readTask" /\ Goto(w, "rollback", [c EXCEPT !.seen = v, !.from = Active])
    BY <1>14, Zenon DEF ReadTask
  <2> DEFINE d == [c EXCEPT !.seen = v, !.from = Active]
  <2>2. d.tries = c.tries /\ d.rows = c.rows
    BY <1>1, Zenon DEF Call
  <2> HIDE DEF d
  <2> QED
    BY <1>1, <1>3, <1>4, <2>1, <2>2, TurnShrinks DEF d
<1>15. CASE CleanupShard(w)
  <2>1. PICK r, v :
          /\ r \in c.rows /\ pc[w] = "cleanup"
          /\ Goto(w, "rollback", [c EXCEPT !.shard = r.id, !.from = Active, !.rows = @ \ {r}, !.seen = v])
    BY <1>15, Zenon DEF CleanupShard
  <2> DEFINE d == [c EXCEPT !.shard = r.id, !.from = Active, !.rows = @ \ {r}, !.seen = v]
  <2>2. d.tries = c.tries /\ d.rows = c.rows \ {r}
    BY <1>1, Zenon DEF Call
  <2> HIDE DEF d
  <2> QED
    BY <1>1, <1>4, <2>1, <2>2, RowsShrink DEF d
<1>16. CASE RollbackShardWithTask(w)
  BY <1>3, <1>4, <1>6, <1>16, Zenon DEF RollbackShardWithTask
<1> QED
  BY <1>8, <1>9, <1>10, <1>11, <1>12, <1>13, <1>14, <1>15, <1>16

\* Whatever the other calls do, each statement of a call leaves it with less to
\* do.  With NoDeadlock, and with the locks granted in turn, this is why every
\* call returns.
THEOREM CallsTerminate == Spec => CallsShrink
<1> DEFINE Shrink == \A w \in Workers : pc[w] # "idle" /\ Moves(w) => Progresses(w)
<1>1. ASSUME IndInv, Next PROVE Shrink
  <2> SUFFICES ASSUME NEW w \in Workers, pc[w] # "idle", Moves(w) PROVE Progresses(w)
    OBVIOUS
  <2>1. TypeOK
    BY <1>1 DEF IndInv
  <2>2. ASSUME NEW v \in Workers \ {w}, Frame(v) PROVE FALSE
    BY <2>1, <2>2 DEF TypeOK, Frame, Moves
  <2>3. ~\E t \in Tasks : SubmitTask(t)
    BY Zenon DEF SubmitTask, Moves
  <2>4. ASSUME NEW v \in Workers, Start(v) \/ Continue(v) \/ Abort(v)
        PROVE  pc'[w] # pc[w] \/ call'[w] # call[w] => v = w
    <3>1. \E q, d : Goto(v, q, d)
      <4>1. CASE Start(v)
        BY <4>1, Zenon DEF Start, Begin, Goto, PollPendingTasks, LeaseNextShard, ReportShardStatus, CancelTask,
             RollbackOrphanShardsForAgent, RollbackTimedOutShard, CleanupOrphanShards
      <4>2. CASE Abort(v)
        BY <4>2, Zenon DEF Abort, Return
      <4>3. CASE (\E t \in Tasks : MarkTasksStatus(v, t) \/ ProvisionFailed(v, t)) \/ SweepShard(v) \/ ReadTask(v)
                 \/ CleanupShard(v) \/ RollbackShardWithTask(v)
        BY <4>3, Zenon DEF MarkTasksStatus, ProvisionFailed, PollDone, SweepShard, ReadTask, CleanupShard,
             RollbackShardWithTask, Loop, Return
      <4>4. CASE LeaseSelect(v) \/ LeaseLoad(v) \/ LeasePromote(v) \/ LeaseTake(v) \/ AssignSent(v)
                 \/ RollbackAssignedShard(v)
        BY <4>4, ZenonT(30) DEF LeaseSelect, LeaseLoad, LeasePromote, LeaseTake, LeaseRetry, AssignSent,
             RollbackAssignedShard, Return
      <4>5. CASE ReportRead(v) \/ ReportLockTask(v) \/ ReportMarkShard(v) \/ RecomputeTaskStatus(v) \/ ReportCommit(v)
        BY <4>5, ZenonT(30) DEF ReportRead, ReportLockTask, ReportMarkShard, RecomputeTaskStatus, ReportCommit, Return
      <4>6. CASE CancelTaskById(v) \/ CancelTaskShardsByTaskId(v) \/ DispatchCompletionHook(v) \/ NotifyCancelShard(v)
        BY <4>6, ZenonT(30) DEF CancelTaskById, CancelTaskShardsByTaskId, DispatchCompletionHook, NotifyCancelShard,
             Loop, Return
      <4> QED
        BY <2>4, <4>1, <4>2, <4>3, <4>4, <4>5, <4>6, ZenonT(30) DEF Continue
    <3>2. Frame(v)
      BY <2>1, <3>1, GotoFrame, Zenon
    <3> QED
      BY <2>2, <3>2
  <2>5. PICK v \in Workers : Start(v) \/ Continue(v) \/ Abort(v)
    BY <1>1, <2>3, Zenon DEF Next
  <2>6. v = w
    BY <2>4, <2>5 DEF Moves
  <2>7. ~Start(w)
    BY Zenon DEF Start, Begin, PollPendingTasks, LeaseNextShard, ReportShardStatus, CancelTask,
       RollbackOrphanShardsForAgent, RollbackTimedOutShard, CleanupOrphanShards
  <2>8. CASE Abort(w)
    BY <2>1, <2>8, ReturnShrinks DEF Abort
  <2>9. CASE Continue(w)
    BY <1>1, <2>9, LeaseShrinks, ReportShrinks, ListShrinks, Zenon DEF Continue
  <2> QED
    BY <2>5, <2>6, <2>7, <2>8, <2>9
<1>2. IndInv /\ [Next]_vars => [Shrink]_vars
  BY <1>1
<1> QED
  BY <1>2, Inductive, PTL DEF Spec, CallsShrink
=============================================================================
