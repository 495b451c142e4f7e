# A verification project for r-orchestrator

TLA+ models of the orchestrator, checked with TLC on small instances and, for
their safety properties, proved with TLAPS for every value of the constants.
Paths below are relative to the repository's root (`src/`).

## The system

r-orchestrator runs bundles of R scripts on agents. A user submits a *task*
through GraphQL; each script of its bundle becomes a *shard*. The server (Go)
brings up a StatefulSet of agents per tenant, hands shards to agents over gRPC
streams, collects their reports and calls a webhook when a task has ended. The
agents (Rust) download a bundle, run a script and upload its output.

| Part | Source | State | Module |
|---|---|---|---|
| Task service | `internal/service/task_service`, `internal/orm/task_orm`, `internal/orm/task_shard_orm` | tables `tasks`, `task_shards` | `TaskStore`, `TaskLifecycle` |
| Control streams | `internal/control` | `streams` map, one goroutine per stream | `ControlSession`, `AgentRegistry`, `TaskStoreStreams` |
| Agent registry | `internal/service/agent_service` | `agents` and `timers` maps, two mutexes | `AgentRegistry` |
| Agent | `agent/src` | status, pending result, executions | `ControlSession` |
| Poller | `task_service/poll_pending_tasks.go` | a list of task ids per round | `ClusterLifecycle`, `TaskStore` |
| Clusters, billing, recycler | `internal/service/cluster_service`, `internal/orm/cluster_orm` | table `clusters`, rows read per pass | `ClusterLifecycle` |
| Kubernetes backend | `cluster_service/backend/k8` | StatefulSets | `ClusterLifecycle`, `ServerProcess` |
| GraphQL API, archives, completion hook | `graph`, `task_service` | tenants, object store, hook goroutines | `TaskApi` |
| Server process, configuration | `cmd/server`, `internal/config` | environment, goroutines, listeners | `ServerProcess` |

They meet in five places. Stream handlers, timer callbacks, GraphQL requests
and background loops all change the two task tables, protected only by row
locks. Stream handlers and timer callbacks share the registry entry of an agent
and its timer. An agent and its handler see each other only through messages.
The poller and the recycler share a tenant's cluster row and its StatefulSet.
`CancelTask` reaches into the stream map to notify agents.

## The modules

### TaskStore: tables, statement by statement

A *worker* is a goroutine in one service call. `pc[w]` names its next SQL
statement and `call[w]` holds its local variables; the table variables hold
committed rows. A transaction's writes become visible at the step that commits;
the locks it holds follow from its program counter (`HoldsTask`, `HoldsShard`),
and a statement that needs a held row is disabled until the row is free, then
evaluates its `WHERE` on the committed row, as READ COMMITTED does.

| Call | Actions |
|---|---|
| `SubmitTask` | `SubmitTask` |
| `PollPendingTasks` | `PollPendingTasks`, `MarkTasksStatus`, `ProvisionFailed` |
| `LeaseNextShard`, and sending the assignment | `LeaseNextShard`, `LeaseSelect`, `LeaseLoad`, `LeasePromote`, `LeaseTake`; `AssignSent`, `RollbackAssignedShard` |
| `ReportShardStatus` | `ReportShardStatus` (validation), `ReportRead`, `ReportLockTask`, `ReportMarkShard`, `RecomputeTaskStatus`, `ReportCommit` |
| `CancelTask` | `CancelTask`, `CancelTaskById`, `CancelTaskShardsByTaskId`, `DispatchCompletionHook`, `NotifyCancelShard` |
| Rollbacks and clean-up | `RollbackOrphanShardsForAgent`, `SweepShard`; `RollbackTimedOutShard`, `ReadTask`, `RollbackShardWithTask`; `CleanupOrphanShards`, `CleanupShard` |
| Error, cancelled context, process exit | `Abort` |

`TaskStoreStreams` adds what the control plane guarantees of its callers (one
message at a time per stream, reports only for shards that were sent), so that
a race shown there does not depend on an unusual client.

### TaskLifecycle: what the store promises

The abstract specification: a task, its shards and its hooks, with each service
call a single step. `TaskStore` implements it (`ActsAtomically`), statuses and
hooks being the same variables in both. This is what lets the modules below
take a service call as one step.

### AgentRegistry: one agent's entry, timers and streams

Entries of different agents are independent, so one agent is modelled. An action
is one critical section of `mu` or `timerMu`, or one service call. Time is
reduced to what the code compares: `fresh` says that less than
`heartbeatTimeout` has passed since `LastHeartbeatAt`, and may become false at
any time (`Silence`); a running timer is `heartbeat` or `grace`. `slot`
is the timer in the map; `leaked` are timers that run although a callback has
deleted their entry, kept as a set whose members may stand for several timers.
`held` are the shards the database records as active for the agent; service
calls change it in one step. `callback` and `session` are the goroutines of
fired timers and of streams. `opened` are the streams whose response headers
have reached the agent: they come with the first message the server sends
(`Reaches`), and until then `open_control_stream(..).await`
(`control_client.rs:84`) has not returned and the agent sends nothing after its
`Register`.

### ControlSession: an agent and the server

Composes the Rust agent, the two directions of its stream, the handlers with the
registry entry, and the shard rows. A message is one step of its handler. The
agent has its status (`current`), its pending result, its cancel tokens (one per
shard, of the execution spawned last) and its spawned executions,
which outlive the stream they were spawned for (`own`). A stream opens to the
agent once the server has sent a message on it (`Opened`). A *fault* is a broken
stream, a failed call, a silence that fires a timer, or a restart of the agent
or of the server; it may come between any two steps, and messages under way are
lost with the stream. The other agents of the tenant are one environment
(`OtherAgent`). Two overlapping streams of the agent are left to
`AgentRegistry`.

### ClusterLifecycle: rows, StatefulSets, and two loops

The poller and the recycler take one step per call they make to the database
or to Kubernetes; `recycler.read` is the list a pass started from, so decisions
are taken on rows as they were then. Time is relative (`due`, the time to the
billing boundary; `idle`, the age of `idle_since`) and saturates, so the model
needs no horizon: below `Floor` a boundary is simply long past, and renewing it
gives any boundary that is not in the future. Every call may fail, and `Restart`
stops both loops anywhere. `Registered` are the tenants whose primary backend
main has registered; for the others `registry.Get` fails in every round. `unseen` is a history variable.
`ClusterName` is a constant because it depends only on when tenants were created.

### TaskApi: what tenants and hook receivers see

The resolvers and the service calls behind them: creation of tenants, reading of
an archive, upload, insert, outcome with its error text, cancellation, the two
reads, and the completion hook up to the receiver's inbox and the record in the
row. An archive is a sequence of entries with the parts of their cleaned names
that the code looks at. Requests may arrive without their answer, records may
fail, and `Crash` drops calls and goroutines anywhere. Leases and rollbacks are
not repeated here; transactions are single steps.

### ServerProcess: from the environment to the exit

`main` step by step: `.env`, configuration (with numbers that wrap around `int`
of `IntBits` bits), database, provider, call-backs, listener, start-up clean-up,
the goroutines, the select, and the shutdown with its ten-second timers. The two
server libraries are external: `Shutdown` and `GracefulStop` stop accepting and
wait, `Stop` closes the connections. `conns` are the clients whose connection has
been accepted; they may open streams and send requests after the listener is
closed, until the server has drained.

## The runs

Runs marked P pass. Runs marked V are expected to violate one property that
states what a comment, a document or a test says: see the findings below.

| Run | | Instance | What it checks |
|---|---|---|---|
| `store_one_task` | P | 1 task, 2 shards, 1 agent, 2 workers, fair | types, all safety and action properties of the store; it implements `TaskLifecycle`; `NoLockCycle`, `CallsShrink`, and every call returns |
| `store_hook_lost` | V | 1 shard, fair | `HookEventuallySent` |
| `stream_report_assignee` | V | 2 shards, 2 agents | `ReportFromAssignee` |
| `registry_timers` | P | 1 stream, 1 shard, 1 callback, fair | types, `AgentIsWatched`, `HeartbeatRepairs` |
| `registry_live` | P | 2 streams, 1 callback, no shard, fair | when streams overlap: `EntryIsServed`, `Readmitted` |
| `registry_timeout_shard` | V | 1 stream, 1 shard | `TimeoutFindsShard` |
| `cluster_lifecycle` | P | 1 tenant, 1 task, cycle 2, threshold 1, advance 1, fair | types, `DestroysOnlyUnseen`, `ReadStaysCurrent`, `IdleActiveReclaimed`, `PendingEventuallyScheduled` |
| `cluster_waiting` | V | 1 tenant, 2 tasks | `WaitingHasCluster` |
| `cluster_name` | V | 2 tenants with one name | `ProvisionsForTenant` |
| `control_session` | P | 1 shard, 2 executions, 1 fault, fair | types, `RunsWhatItReports`, `StopsOnlyCancelled`, `BusyIsWatched`, `SuccessHasOutput`, `AgentFreed`, `LeaseResolved` |
| `server_process` | P | 15 environments, 2 loops, 1 stream, 1 request, fair | types, `ServesWired`, `BillingPositive`, `ErrorsFit`, `EndsCleanly`, `ShutdownCompletes` |
| `task_api` | P | 1 task of up to 3 shards, 2 tenants, 4 archives, 1 crash | types, `TaskHasItsWork`, `OutcomeExplained`, `HookTruthful`, `ReadsAgree` |

What the passing runs show:

- *Store.* A settled task agrees with its shards, no completion is missed, no
  shard is handed out before its task is promoted, active shards name an agent
  of their tenant, hooks are sent at most once and with the final status, agents
  are told to stop only shards of cancelled tasks, tasks only advance, and shards
  that succeeded or were cancelled stay so. Each call acts at one moment, as in `TaskLifecycle`. A call
  that holds a row never waits for another, and each statement leaves its call
  less to do; so, with a fair queue for the rows, every call returns.
- *Registry.* Callbacks may delete and replace each other's timers, and still an
  UNRESPONSIVE agent always has something that will act on it, and one that may
  not register has a stream whose end will admit it. The map of streams never
  names one that has ended, although handlers store and delete by agent id. An
  agent that lost its stream gets back in, and on a stream that has opened to it
  recovers from every status that timers and stale callbacks have written.
- *Session.* With messages lost, late and repeated, an agent runs one shard at a
  time and the one it reports, stops only what was cancelled, and a success has
  its output; a busy agent always has something to wait for, no agent waits for
  ever for an acknowledgement and no shard stays for ever with an agent whose
  stream opens.
- *Clusters.* The recycler destroys a StatefulSet only under tasks submitted
  after it counted, and its list is current although the poller writes rows
  during a pass; an unused ACTIVE cluster is brought down and a PENDING task of a
  registered backend does leave PENDING, through failures and restarts that do
  not come every time.
- *API.* A task has its bundle and its shards, the error text of a failure is the one of
  the shard that failed last, the receiver of a hook is told the truth once, and a
  task is seen by one tenant, by id exactly when in the list.
- *Process.* Nothing works before it is wired and the start-up clean-up has been
  tried (if it fails, main goes on), overflowing numbers do not reach
  the billing, a server that fails can always hand its error over, and after a
  signal or an error the process ends, in order.

### Bounds

- `Workers = 2`: the store's races are between a check and the write that follows
  it in one call, and a second call in between. The theorems cover any number,
  and any tasks, tenants and agents.
- `MaxRetries = 2` (100 in the code): a lease fails, retries, and gives up.
- `Streams`, `Callbacks`, `Shards` of `AgentRegistry`: a shard, whose assignment
  opens the stream, with one stream and one callback; or two streams, an old
  one's clean-up beside a new one, with a callback and no shard. With no shard no
  message opens a stream and no heartbeat comes; all three together are beyond
  TLC. Two streams overlap only through a callback. Ids are used again, so any
  number of streams and callbacks follow one another. The invariants are proved
  for any numbers, `HeartbeatRepairs` is checked without overlapping streams.
- `Cycle`, `IdleThreshold`, `Advance`: 2, 1 and 1 in the passing run, with a
  window before the boundary and a threshold that falls due on either side of it,
  as failures and passes delay both; 1, 1 and 0 suffice for the violations.
- One tenant in the passing run of `ClusterLifecycle`, with a registered backend:
  liveness with a second one is beyond TLC. What becomes of the tasks of an
  unregistered backend is a theorem.
- Task ids of `ClusterLifecycle` are used again once no list holds them, so any
  number of tasks follow one another.
- `MaxFaults = 1` in `ControlSession`: one fault anywhere, among cancellations,
  other agents and clean-ups that are not counted. `MaxInFlight = 2` bounds only
  heartbeats; `Executions = 2`, one of an old stream beside one of the new.
  With one shard, a lease that is not swept leaves the server nothing to send, so
  an agent that reconnects as IDLE waits for ever in the exception of
  `LeaseResolved`. A broken connection is enough: a result sent again after the
  shard was leased anew resets the agent to IDLE while the shard stays LEASED.
  Two shards, where the next assignment opens the stream and the heartbeat that
  follows sweeps, were checked apart, with one execution and `MaxInFlight = 1`.
- `IntBits = 13`: 4096 and 8192 play the numbers that wrap to a negative one and
  to zero. `MaxCrashes = 1`: a second crash finds nothing new to drop.

Symmetry is declared for interchangeable workers, agents, streams, callbacks and
shards in runs that check no liveness. The deadlock check is off where the system
may really stop: a process that has exited (`server_process`), a task that has
ended and been told (`task_api`), an agent that waits for the first message of a
server that has nothing to lease (`control_session`).

### Fairness

- `TaskStore`: strong fairness of each worker's next statement. A worker that
  waits for a row is disabled while the row is held; PostgreSQL serves waiters
  in order of arrival. `Abort` and new calls are not fair.
- `AgentRegistry`: timers fire, goroutines run on (weak); an agent without a
  stream keeps trying, as the loop in `agent/src/main.rs` does (weak); a stream
  the agent has left ends, by gRPC keepalive, and one that has
  opened to it carries heartbeats (strong, as the handler is often busy
  elsewhere). Nothing makes the server send the first message.
- `ControlSession`: the agent reopens streams and reads its messages, an
  execution ends, the handler works through its messages (weak); the ticker
  keeps ticking (strong, as the queue is full at times). Faults, cancellations,
  other agents and the orphan clean-up are not fair.
- `ClusterLifecycle`: time passes and both tickers tick (weak). A step that is
  reached again and again for a tenant succeeds again and again (strong): a
  database or a Kubernetes API that never works again can be waited for by
  nobody. That `registry.Get` fails for a backend nobody registered is not such an
  error: the step is not enabled there, and no fairness makes it succeed.
- `ServerProcess`: main and the goroutines run, a pass ends (its calls take the
  cancelled context), timers fire, a handler whose connection was closed returns
  (weak); a loop that may stop or take another tick stops some time (strong: Go's
  select chooses at random). Requests and open streams need not end.

## Proofs

Eight modules hold proofs: `NaturalFacts`, on which two of the others rest, and
one for each component. Every invariant and every action property that a passing
run checks is proved, from the assumption named in the component's module and
for every value of its constants.

| Module | Assumption | Theorems |
|---|---|---|
| `TaskStoreProofs` | `StoreAssumption`: ids are numbered in creation order, every task has a shard, `NoAgent` is no agent, at least one retry | `TypeCorrect`, `Settlement`, `Completion`, `Promotion`, `Assignment`, `HookOnce`, `NoticeSafe`, `StatusOrder`, `FailedNotRetried`, `NoDeadlock`, `CallsTerminate` |
| `TaskLifecycleProofs` | the same | `Refinement`: `TaskStore` implements `TaskLifecycle` |
| `AgentRegistryProofs` | `RegistryAssumption`: the null values are no shard and no stream | `RegistryTypes`, `NeverForgotten`, `EntryServed` |
| `ControlSessionProofs` | `SessionAssumption`: `NoShard` is no shard, the bounds are numbers | `SessionTypes`, `OneShardAtATime`, `StopsAreJustified`, `SuccessIsReal`, `NeverStranded` |
| `ClusterLifecycleProofs` | `ClusterAssumption`: the billing parameters are numbers, `NoTenant` is no tenant, registered backends are those of tenants | `BillingInRange`, `ReadsCurrent`, `DestroysUnused`, `UnregisteredStaysPending` |
| `TaskApiProofs` | `ApiAssumption`: archives are sequences of entries, the empty message is a message | `ApiTypes`, `WorkIsThere`, `OutcomeIsExplained`, `CancelledIsSilent`, `HookTellsTheTruth`, `OneTenantsView` |
| `ServerProcessProofs` | `ProcessAssumption`: an `int` has some bits, environments give each variable a sequence of characters, a client has streams or requests | `ProcessTypes`, `NothingRunsUnwired`, `BillingNeverStops`, `FailureReported`, `NothingLeftBehind` |
| `NaturalFacts` | none | the least and the greatest element of a set of numbers, induction up to a bound, powers of two |

*Task store.* None of the invariants is inductive by itself. Whether a commit
keeps a task in agreement with its shards depends on what the call read earlier
and on nobody having changed it since. `IndInv` therefore adds, per program
point, what a call knows and which lock keeps it true:

- `VerdictOK`: between recount and commit the verdict still fits the other
  shards, because only holders of the task row can end a shard of the task;
- `LeaseOK`: a lease about to take a shard has promoted the task, or found it
  promoted;
- `RollbackOK`: a rollback never meets a task that is still waiting, so
  `RollbackTaskToWaiting`, which would lock in the opposite order, is not reached;
- `CancelOK`: a hook to be dispatched is the first of its task and carries the
  status the task keeps;
- `Exclusive`: a task row has one holder, and a task one pending dispatch.

The proof has one lemma per kind of step. Steps that change only a worker's own
record need that record's `CallOK` (`QuietStep` and its relatives); steps that
change rows need that every other call's `CallOK` survives (`StableCall`, from
`Held`) and that the rows still agree (`SubmitStep`, `MarkStep`, `QueuedStep`,
`LeaseTakeStep`, `CancelShardsStep`, `ReportCommitStep`). `NextInductive` puts
them together; the action properties, and the refinement, follow from `IndInv`
with one case per writer.

`NoDeadlock` and `CallsTerminate` are what remains of `EveryCallReturns` without
fairness. For the first, whoever holds a shard holds its task (`ShardUnderTask`),
and `RollbackOK` excludes the one statement that would lock the other way. For
the second, the measure is the retries left, then the rows left, then the
statements left (`Progresses`); the lemmas `ReturnShrinks`, `TurnShrinks` and
`RowsShrink` are the three ways in which it decreases.

*Registry.* `TypeOK` and `AgentIsWatched` together are inductive. Of an agent
that went silent the latter names who watches: a heartbeat timer that runs, a
callback on its way to re-arm it, or a stream that is about to disconnect the
agent. The case that matters is a fired timer, whose watch passes to the callback
it starts (`WatchStep`). An agent that `RegisterAgent` refuses has an open stream,
as only handlers make it IDLE or RUNNING and the step that closes a stream leaves
it DISCONNECTED (`RefusedStep`): the safety half of `Readmitted`. `EntryServed`
needs no more than the types: the step that ends a stream deletes the entry,
whichever stream it names, before the handler goes on (`EntryStep`).

*Session.* `RunsWhatItReports` depends on what is under way: `ResultsUploaded`
(a result is announced after its upload), `NoticesTrue` (an acknowledgement
follows an upload, a notice of cancellation the CANCELLED row, which is final)
and `ExecutionsTrue` (executions of the stream exist while the agent is on it).
The queues enter the proof as the sets of their messages (`Sent`).

`NeverStranded` is the safety half of `AgentFreed`. Each step that takes away one
of the four things a busy agent may wait for provides another: an execution that
ends announces its result, and the handler that takes the result sends the
acknowledgement or ends the stream. `RegisterAlone` says that a session begins
only while the agent is still opening its stream or has left it, not while it
waits on one that was over; `OpensWithPending`, that what an agent reports when it
opens a stream is the pending result, which it announces next.

*Clusters.* `AtCluster` says what the recycler knows at each step of its pass:
it has the row, it renews only a boundary within `Advance`, and a cluster found
unused has since gained only tasks submitted after the count. `ReadStaysCurrent`
is needed for the range of a renewed boundary, which is computed from the row
that was read. For `UnregisteredStaysPending`, the poller is past `registry.Get`
only for a registered tenant (`PollsRegistered`).

*API.* The invariant is a conjunction over tasks, of which a step changes one
(`OneTask`): the bundle is stored before the insert, the call inserts once, and
the hook's goroutine exists only for a settled task and carries what the row
says. For the types and `OutcomeExplained`, `TypedOf` carries the explanation of
a settled row by its shards and the order in which they ended (`ExplainedBy`):
the text of a failure is the one at the greatest position of that order that has
any (`TextOfFailure`, by `GreatestElement`), and once settled a row keeps its
status, its text and its shards.

*Process.* `Completed` says what main has done at each step, `Wired` that the
goroutines come after it, `Drained` what a server that is shut down waits for: the
handlers, and the connections that could start new ones.
That a number stays an `int` while its digits are read (`AccumulatedType`) is an
induction over the digits. For `ErrorsFit`, the channel has room for the errors it
holds together with those the servers may still send (`Room`).

Induction over data is done with sets: `InductionUpTo` takes the set of the
numbers that have the property, where the library's theorem takes an operator,
which the provers cannot instantiate.

Only model-checked: all liveness (`EveryCallReturns`, `HeartbeatRepairs`,
`Readmitted`, `IdleActiveReclaimed`, `PendingEventuallyScheduled`, `AgentFreed`,
`LeaseResolved`, `ShutdownCompletes`), as fairness and `ENABLED` are beyond the
prover. No module has a `RECURSIVE` operator.

## Findings

Each is a violated property with the trace TLC prints; `PROJECT.json` gives the
lines and the text they disagree with.

| Property | What happens |
|---|---|
| `HookEventuallySent` | a process that stops after the commit never sends the hook |
| `ReportFromAssignee` | a report is applied to a shard that meanwhile belongs to another agent |
| `TimeoutFindsShard` | the shard of a timed-out agent is forgotten before it is rolled back |
| `WaitingHasCluster` | a task waits for agents of a StatefulSet the recycler deleted |
| `ProvisionsForTenant` | tenants created within 65.5 seconds share a StatefulSet name |

### Other disagreements

Met while modelling; the models have the behaviours of the first list, but no
run is kept for them. Three of them are theorems.

- The agent sends heartbeats and reads messages only once its stream has opened,
  which takes a first message from the server (`control_client.rs:84`, `:97`);
  with nothing to lease `TryAssignShard` sends none (`try_assign_shard.go:27-33`).
  Such an agent becomes UNRESPONSIVE and TIMED_OUT on a healthy stream, does not
  send a pending result again and does not have its old shard swept, while
  `README.md:277` calls the heartbeat periodic ("定期心跳").
- A FAILED shard is never assigned again (`FailedNotRetried`); `README.md:268`
  says "执行失败，可被重新分配". `NothingIsUndone` leaves FAILED shards out.
- A cancelled task has no error text (`CancelledIsSilent`, from
  `cancel_task_by_id.go:23`); `docs/api/graphql-task-api.md:74` says to look at
  `last_error` after a failure or a cancellation ("失败或取消时看 `last_error`"),
  and `:522` that the hook carries one. `OutcomeExplained` leaves it out.
- `CreateTenant` takes any backend name (`tenant.resolvers.go:30-34`), and the
  example in `docs/api/graphql-task-api.md:122` is "ray"; only `kubernetes` is
  registered (`main.go:84`). The tasks of such a tenant stay PENDING
  (`UnregisteredStaysPending`).
- `RollbackOrphanShardsForAgent` puts back a shard that was leased to another
  agent after it was listed (`rollback_shard.go:49` tests the status only).
- `onHeartbeatTimeout` deletes a newer timer's entry (`agent.go:157`); the next
  `ResetHeartbeat` cannot stop that timer and two run on. If it re-arms after
  the stream has ended (`agent.go:203`), it replaces the grace timer, and the
  agent stays DISCONNECTED until it registers again.
- With two timers running, the second makes an agent TIMED_OUT right after the
  first has made it UNRESPONSIVE and logged "waiting for one more heartbeat"
  (`agent.go:200`).
- An agent whose shard was leased after `CancelTask` listed the agents to notify
  (`cancel_task.go:41`) is not told, and runs on until its report is refused.
- Between the check of `onGraceExpired` and the mark in `HandleAgentTimeout` the
  agent may have reconnected; it is marked TIMED_OUT although
  `handle_agent_timeout.go:44` takes it to be "still DISCONNECTED".
- The clean-up of an old stream (`server.go:82`) deletes the map entry by agent
  id, also when a newer stream is in it; cancel notices are then dropped although
  `notify_cancel_shard.go:15` takes the agent to be "not connected".
- The clean-up of orphans passes over shards without `started_at` and over those
  of registered agents, TIMED_OUT ones included, and entries are never removed:
  a shard leased to an agent that never comes back stays leased.
- `LoadValidatedShard` refuses a report of a shard that was rolled back, contrary
  to the comments in `handle_reconnected_agent.go:11-16` and
  `handle_shard_result_ready.go:52-56`, which expect late results to be taken.
- An IDLE heartbeat under way while AssignShard is sent rolls the new lease back;
  the agent, by then busy, refuses the second assignment and the stream ends.
  `control_client.rs:100-104` says that the server resets such agents to IDLE.
- A late acknowledgement of an earlier run frees an agent that runs the same
  shard again; it may then be given a second one. `RunsWhatItReports` excepts it.
- A cluster left PROVISIONING by a failed round, or TERMINATED by a pass that
  raced with the poller, keeps its StatefulSet while the tenant stays idle.
- The idle recycling design wants an unused cluster renewed at its boundary
  until the threshold is reached, and only sustained idleness to end it;
  `recycler.go` does not renew it, and neither a task that comes and goes between
  two passes nor a reactivation resets `idle_since`.
- The idle threshold has no guard against a negative number, which only an
  overflow can produce.
- A failed insert leaves its bundle in the object store; hook goroutines are not
  awaited at exit; the exit code is 0 also after a failure.

Outside the models:

- The hook is documented for SUCCEEDED and FAILED and also sent for CANCELLED;
  its documented timeout is 15 seconds, the client's is 10.
- An archive with two entries of one name gives two shards with one output key.
- The logger is configured before `.env` is loaded, and looks for `production`
  where the loader looks for `prod`.

## Not modelled, and simplified

- What an execution does with files, processes and HTTP; it ends in one of its
  three outcomes. The back-off of the agent and its health port.
- Output keys, attempts and times other than `started_at`, as a flag, and
  `finished_at`, as an order. The encoding of the hook's payload. The order of
  lists, and the copying of fields between rows and GraphQL types.
- `CancelTask` with another tenant's task in `TaskStore` (`TaskApi` has it),
  registrations that conflict with an agent's identity, and the token; functions
  without a caller (`RemoveAgent`, `GetActiveTenantIDs`, `ShouldTerminate`,
  `RollbackShardLease`, `ValidateToken`).
- `LastHeartbeatAt` is cut to whole seconds in the code, so the stale guard
  (`agent.go:164-167`) may miss a heartbeat by up to a second; in the model
  `fresh` may become false right after a heartbeat.
- A restart of the server empties the registry: an action of `ControlSession`, of
  `ClusterLifecycle` and, call by call, of `TaskStore`, not of `AgentRegistry`.
- Kubernetes deletes a StatefulSet at once; its pods are not modelled.
- Configuration strings and durations with a default, the logger, generated code
  (`graph/generated`, `proto`), packaging (`chart`, the Dockerfiles).
