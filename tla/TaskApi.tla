------------------------------ MODULE TaskApi ------------------------------
(***************************************************************************)
(* What a tenant sees of its tasks: the GraphQL resolvers (graph/), the    *)
(* task service behind them (submit_task.go, cancel_task.go, get_task.go,  *)
(* list_tasks.go), the bundle in the object store, the outcome with its    *)
(* error text (recompute_task_status.go), and the completion hook up to    *)
(* the receiver and the bookkeeping in the task row                        *)
(* (dispatch_completion_hook.go).                                          *)
(*                                                                         *)
(* Transactions are single steps, as TaskLifecycleProofs shows of them,    *)
(* and leases and rollbacks are left to TaskStore: RUNNING also stands for *)
(* the QUEUED task, and QUEUED for the LEASED shard;                       *)
(* what happens outside a transaction, the upload, the request to the      *)
(* receiver and its record, is a step of its own, and the process may die  *)
(* before any of them.                                                     *)
(***************************************************************************)
EXTENDS Naturals, Sequences, FiniteSets, FiniteSetsExt

CONSTANTS
    Tasks,        \* task ids: one per call of SubmitTask that gets that far
    Tenants,      \* tenant names, the empty name excluded
    Bundles,      \* archives clients may upload
    MaxAgents,    \* values of max_agents clients may ask for
    Messages,     \* error messages of agents, "" included
    MaxCrashes    \* bound on deaths of the server process

\* An archive is a sequence of entries: the directory and the name after
\* path.Clean, whether the name ends in .sh, whether it is a directory.
Entries == [dir : STRING, name : STRING, sh : BOOLEAN, folder : BOOLEAN]

\* An empty text, as in last_error.
NoText == ""

ASSUME ApiAssumption ==
    /\ Messages \subseteq STRING /\ NoText \in Messages
    /\ MaxAgents \subseteq Nat /\ MaxCrashes \in Nat
    /\ \A b \in Bundles : b \in Seq(Entries)

VARIABLES
    tenants,   \* tenants: max_agents by name, for the names that exist
    call,      \* SubmitTask: how far the call has come, and its arguments
    stored,    \* bundles in the object store, by task id
    task,      \* tasks, NoTask before the insert
    shards,    \* task_shards of a task
    finished,  \* its shards in the order of finished_at
    hook,      \* the goroutine of dispatchCompletionHookAsync
    inbox,     \* what the receiver of the completion hook was sent
    crashes

vars == <<tenants, call, stored, task, shards, finished, hook, inbox, crashes>>

NoCall == [at |-> "none"]
NoHook == [at |-> "none"]
NoTask == [status |-> "none"]
Terminal == {"SUCCEEDED", "FAILED", "CANCELLED"}
Exists(t) == task[t] # NoTask

-----------------------------------------------------------------------------
(* Tenants *)

GetByName(name) == name \in DOMAIN tenants

\* The resolver checks max_agents, the table has a unique index on the name.
PositiveAgentsMutant(n) == TRUE
PositiveAgents(n) == n > 0
Create(name, n) ==
    /\ ~GetByName(name)
    /\ tenants' = [m \in DOMAIN tenants \cup {name} |-> IF m = name THEN n ELSE tenants[m]]
CreateTenant(name, n) ==
    /\ PositiveAgents(n) /\ Create(name, n)
    /\ UNCHANGED <<call, stored, task, shards, finished, hook, inbox, crashes>>

-----------------------------------------------------------------------------
(* SubmitTask *)

\* extractScriptsFromZip, in two halves.
HasInstall(b) == \E i \in DOMAIN b : ~b[i].folder /\ b[i].dir = "." /\ b[i].name = "install.sh"

\* The entries that are scripts under cmd/.  The code sorts them; only their
\* number matters here.
Scripts(b) == {i \in DOMAIN b : ~b[i].folder /\ b[i].dir = "cmd" /\ b[i].sh}

extracts(b) == HasInstall(b) /\ Scripts(b) # {}

\* The hook URL is checked, the tenant is looked up, the archive is read; an
\* error leaves nothing behind.
SubmitTask(t, name, url, b) ==
    /\ call[t] = NoCall
    /\ url # "invalid" /\ GetByName(name) /\ b # <<>> /\ extracts(b)
    /\ call' = [call EXCEPT ![t] = [at |-> "upload", tenant |-> name, url |-> url, bundle |-> b]]
    /\ UNCHANGED <<tenants, stored, task, shards, finished, hook, inbox, crashes>>

Answered(t) == call' = [call EXCEPT ![t].at = "answered"]

UploadBytes(t) ==
    /\ call[t].at = "upload"
    /\ \/ stored' = stored \cup {t} /\ call' = [call EXCEPT ![t].at = "create"]
       \/ Answered(t) /\ UNCHANGED stored
    /\ UNCHANGED <<tenants, task, shards, finished, hook, inbox, crashes>>

\* The transaction inserts the task and a shard for each script; when it fails
\* the bundle stays in the store.
CreateReadyMutant(t) == call[t].at \in {"upload", "create"}
CreateReady(t) == call[t].at = "create"
CreateTask(t) ==
    /\ CreateReady(t)
    /\ \/ LET c == call[t]
              n == Cardinality(Scripts(c.bundle))
          IN  /\ task' = [task EXCEPT ![t] = [status |-> "PENDING", tenant |-> c.tenant, url |-> c.url,
                             shardCount |-> n, lastError |-> NoText, delivered |-> FALSE, hookError |-> NoText]]
              /\ shards' = [shards EXCEPT ![t] = [i \in 1..n |-> [status |-> "QUEUED", lastError |-> NoText]]]
       \/ UNCHANGED <<task, shards>>
    /\ Answered(t)
    /\ UNCHANGED <<tenants, stored, finished, hook, inbox, crashes>>

-----------------------------------------------------------------------------
(* The outcome *)

SetTask(t, status, text) == task' = [task EXCEPT ![t].status = status, ![t].lastError = text]

newCompletionHookPayload(status, text) == [status |-> status, lastError |-> text]

\* Only with a URL.
dispatchCompletionHookAsync(t, payload) ==
    hook' = IF task[t].url = "none" THEN hook
            ELSE [hook EXCEPT ![t] = [at |-> "post", payload |-> payload]]

\* The poller marks its PENDING tasks after it has tried to provision.  Its
\* branch for a tenant without agents is never taken: TypeOK.
MarkTasksStatus(t) ==
    /\ Exists(t) /\ task[t].status = "PENDING"
    /\ SetTask(t, "PENDING", "provision failed") \/ SetTask(t, "WAITING_FOR_AGENTS", NoText)
    /\ UNCHANGED <<tenants, call, stored, shards, finished, hook, inbox, crashes>>

\* An agent has leased a shard and reports that it has started it.
ReportRunning(t, i) ==
    /\ Exists(t) /\ task[t].status \in {"WAITING_FOR_AGENTS", "RUNNING"} /\ shards[t][i].status = "QUEUED"
    /\ shards' = [shards EXCEPT ![t][i].status = "RUNNING"]
    /\ task' = [task EXCEPT ![t].status = "RUNNING"]
    /\ UNCHANGED <<tenants, call, stored, finished, hook, inbox, crashes>>

\* The message of the shard that failed last among those with a message; else
\* the message of this report; else a fixed text.
DefaultText == "task failed because one or more shards failed"
resolveTaskFailureLastErrorMutant(rows, order, fallback) ==
    IF fallback # NoText THEN fallback ELSE DefaultText
resolveTaskFailureLastError(rows, order, fallback) ==
    LET explained == {k \in DOMAIN order :
                        rows[order[k]].status = "FAILED" /\ rows[order[k]].lastError # NoText}
    IN  IF explained # {} THEN rows[order[Max(explained)]].lastError
        ELSE IF fallback # NoText THEN fallback ELSE DefaultText

\* A RUNNING shard ends, and RecomputeTaskStatus settles the task once no shard
\* is active.
ReportEnded(t, i, status, message) ==
    LET rows == [shards[t] EXCEPT ![i] = [status |-> status, lastError |-> message]]
        order == Append(finished[t], i)
        outcome == IF \E j \in DOMAIN rows : rows[j].status = "FAILED" THEN "FAILED" ELSE "SUCCEEDED"
        text == IF outcome = "FAILED" THEN resolveTaskFailureLastError(rows, order, message) ELSE NoText
    IN  /\ Exists(t) /\ task[t].status \notin Terminal /\ shards[t][i].status = "RUNNING"
        /\ shards' = [shards EXCEPT ![t] = rows]
        /\ finished' = [finished EXCEPT ![t] = order]
        /\ IF \A j \in DOMAIN rows : rows[j].status \in Terminal
           THEN /\ SetTask(t, outcome, text)
                /\ dispatchCompletionHookAsync(t, newCompletionHookPayload(outcome, text))
           ELSE UNCHANGED <<task, hook>>
        /\ UNCHANGED <<tenants, call, stored, inbox, crashes>>

\* CancelTask, for the tenant that is named and a task that is not terminal.
CancelTaskById(name, t) ==
    /\ task[t].tenant = name /\ task[t].status \notin Terminal
    /\ SetTask(t, "CANCELLED", NoText)
CancelTask(name, t) ==
    /\ GetByName(name) /\ Exists(t) /\ CancelTaskById(name, t)
    /\ shards' = [shards EXCEPT ![t] = [i \in DOMAIN @ |->
                     IF @[i].status \in Terminal THEN @[i] ELSE [@[i] EXCEPT !.status = "CANCELLED"]]]
    /\ dispatchCompletionHookAsync(t, newCompletionHookPayload("CANCELLED", NoText))
    /\ UNCHANGED <<tenants, call, stored, finished, inbox, crashes>>

-----------------------------------------------------------------------------
(* The completion hook *)

\* dispatchCompletionHook: the receiver gets the request and answers 2xx; or it
\* answers otherwise, too late, or not so that the server hears it; or the
\* request does not reach it.
dispatchCompletionHook(t) ==
    /\ hook[t].at = "post"
    /\ \E got, ok \in BOOLEAN :
         /\ ok => got
         /\ inbox' = IF got THEN [inbox EXCEPT ![t] = Append(@, hook[t].payload)] ELSE inbox
         /\ hook' = [hook EXCEPT ![t] = [at |-> "record", ok |-> ok]]
    /\ UNCHANGED <<tenants, call, stored, task, shards, finished, crashes>>

\* recordCompletionHookResult: only while hook_delivered_at is null; a failure is
\* only logged.
RecordedMutant(t) == [task[t] EXCEPT !.delivered = TRUE, !.hookError = NoText]
Recorded(t) ==
    IF task[t].delivered THEN task[t]
    ELSE IF hook[t].ok THEN [task[t] EXCEPT !.delivered = TRUE, !.hookError = NoText]
    ELSE [task[t] EXCEPT !.hookError = "failed"]
recordCompletionHookResult(t) ==
    /\ hook[t].at = "record"
    /\ task' = [task EXCEPT ![t] = Recorded(t)] \/ UNCHANGED task
    /\ hook' = [hook EXCEPT ![t] = NoHook]
    /\ UNCHANGED <<tenants, call, stored, shards, finished, inbox, crashes>>

\* The server process dies: calls and goroutines are gone.
Crash ==
    /\ crashes < MaxCrashes /\ crashes' = crashes + 1
    /\ call' = [t \in Tasks |-> IF call[t] = NoCall THEN NoCall ELSE [call[t] EXCEPT !.at = "answered"]]
    /\ hook' = [t \in Tasks |-> NoHook]
    /\ UNCHANGED <<tenants, stored, task, shards, finished, inbox>>

-----------------------------------------------------------------------------
(* Reads *)

\* The task if it is the tenant's, NoTask for "task not found".
GetTaskMutant(name, t) == task[t]
GetTask(name, t) == IF GetByName(name) /\ Exists(t) /\ task[t].tenant = name THEN task[t] ELSE NoTask

\* The tenant's tasks, of one status unless the filter is empty.
ListTasksByTenant(name, status) ==
    {t \in Tasks : Exists(t) /\ task[t].tenant = name /\ (status = NoText \/ task[t].status = status)}
ListTasks(name, status) == IF GetByName(name) THEN ListTasksByTenant(name, status) ELSE {}

\* The resolvers; the filter of a list is optional.
GetTaskByID(name, t) == GetTask(name, t)
GetTaskList(name, status) == ListTasks(name, IF status = "null" THEN NoText ELSE status)

-----------------------------------------------------------------------------
Init ==
    /\ tenants = [n \in {} |-> 0] /\ call = [t \in Tasks |-> NoCall] /\ stored = {}
    /\ task = [t \in Tasks |-> NoTask] /\ shards = [t \in Tasks |-> <<>>]
    /\ finished = [t \in Tasks |-> <<>>] /\ hook = [t \in Tasks |-> NoHook]
    /\ inbox = [t \in Tasks |-> <<>>] /\ crashes = 0

Next ==
    \/ \E name \in Tenants, n \in MaxAgents : CreateTenant(name, n)
    \/ \E t \in Tasks :
         \/ \E name \in Tenants, url \in {"none", "valid", "invalid"}, b \in Bundles : SubmitTask(t, name, url, b)
         \/ UploadBytes(t) \/ CreateTask(t) \/ MarkTasksStatus(t)
         \/ \E i \in DOMAIN shards[t] :
              \/ ReportRunning(t, i)
              \/ ReportEnded(t, i, "SUCCEEDED", NoText)
              \/ \E message \in Messages : ReportEnded(t, i, "FAILED", message)
         \/ \E name \in Tenants : CancelTask(name, t)
         \/ dispatchCompletionHook(t) \/ recordCompletionHookResult(t)
    \/ Crash

Spec == Init /\ [][Next]_vars

-----------------------------------------------------------------------------
(* Properties *)

Texts == Messages \cup {"provision failed", DefaultText}
Payload == [status : Terminal, lastError : Texts]
TaskRows == [status : {"PENDING", "WAITING_FOR_AGENTS", "RUNNING"} \cup Terminal,
             tenant : Tenants, url : {"none", "valid"}, shardCount : Nat,
             lastError : Texts, delivered : BOOLEAN, hookError : {NoText, "failed"}]

\* Every variable holds a value of its type; a tenant's max_agents is positive.
TypeOK ==
    /\ DOMAIN tenants \subseteq Tenants /\ \A n \in DOMAIN tenants : tenants[n] \in MaxAgents \ {0}
    /\ stored \subseteq Tasks /\ crashes \in 0..MaxCrashes
    /\ \A t \in Tasks :
         /\ call[t].at \in {"none", "upload", "create", "answered"}
         /\ Exists(t) => task[t] \in TaskRows
         /\ shards[t] \in Seq([status : {"QUEUED", "RUNNING"} \cup Terminal, lastError : Messages])
         /\ finished[t] \in Seq(DOMAIN shards[t])
         /\ hook[t] \in {NoHook} \cup [at : {"post"}, payload : Payload] \cup [at : {"record"}, ok : BOOLEAN]
         /\ inbox[t] \in Seq(Payload)

\* A task an agent can be given has its bundle in the object store and a shard
\* for each script of that bundle, at least one, wherever SubmitTask failed or
\* the process died: a task without either would never end.
TaskHasItsWork ==
    \A t \in Tasks : Exists(t) =>
        /\ t \in stored
        /\ Len(shards[t]) = Cardinality(Scripts(call[t].bundle))
        /\ task[t].shardCount = Len(shards[t]) /\ Len(shards[t]) > 0

\* The error text of a task matches how it ended: none when it succeeded,
\* although a failed provisioning may have left one; when it failed, the message
\* of the shard that failed last among those that gave one, whichever report
\* settled the task.  It says nothing of the text of a cancelled task.
OutcomeExplained ==
    \A t \in Tasks : Exists(t) =>
        LET rows == shards[t]
            telling == {k \in DOMAIN finished[t] :
                          rows[finished[t][k]].status = "FAILED" /\ rows[finished[t][k]].lastError # NoText}
        IN  /\ task[t].status = "SUCCEEDED" =>
                 task[t].lastError = NoText /\ \A i \in DOMAIN rows : rows[i].status = "SUCCEEDED"
            /\ task[t].status = "FAILED" =>
                 /\ \E i \in DOMAIN rows : rows[i].status = "FAILED"
                 /\ telling = {} => task[t].lastError = DefaultText
                 /\ \A k \in telling : (\A l \in telling : l <= k) =>
                      task[t].lastError = rows[finished[t][k]].lastError

\* The receiver of a completion hook hears of a task at most once, and what it
\* hears is the final status and error text of the row; a task recorded as
\* delivered was received, although answers are lost, records fail and the
\* process dies in between.
HookTruthful ==
    \A t \in Tasks :
        /\ Len(inbox[t]) <= 1
        /\ inbox[t] # <<>> => /\ Exists(t) /\ task[t].status \in Terminal /\ task[t].url = "valid"
                              /\ Head(inbox[t]) = [status |-> task[t].status, lastError |-> task[t].lastError]
        /\ Exists(t) /\ task[t].delivered => inbox[t] # <<>> /\ task[t].hookError = NoText

\* The two ways to read agree: a tenant finds a task by its id exactly when the
\* list shows it, for one tenant only, the one that submitted it.
ReadsAgree ==
    \A t \in Tasks, name \in Tenants :
        /\ GetTaskByID(name, t) # NoTask <=> t \in GetTaskList(name, "null")
        /\ GetTaskByID(name, t) # NoTask =>
             name = call[t].tenant /\ t \in GetTaskList(name, GetTaskByID(name, t).status)
=============================================================================
