--------------------------- MODULE TaskApiProofs ---------------------------
(***************************************************************************)
(* The tenant's view for any number of tasks, tenants, bundles, messages   *)
(* and crashes: a task has its work, the receiver of its hook is told the  *)
(* truth once, and the two ways to read a task agree.                      *)
(*                                                                         *)
(* A step concerns one task, so that the invariant is a conjunction over   *)
(* the tasks and a task whose rows do not change keeps its conjunct.       *)
(***************************************************************************)
EXTENDS TaskApi, NaturalFacts, FiniteSetTheorems, SequenceTheorems, TLAPS

ShardRows == [status : {"QUEUED", "RUNNING"} \cup Terminal, lastError : Messages]
Statuses == {"PENDING", "WAITING_FOR_AGENTS", "RUNNING"} \cup Terminal

Tables ==
    /\ DOMAIN call = Tasks /\ DOMAIN task = Tasks /\ DOMAIN shards = Tasks
    /\ DOMAIN hook = Tasks /\ DOMAIN inbox = Tasks

\* The bundle is stored before the call creates the task, and a call creates at
\* most one.
CallOK(t) ==
    /\ call[t].at \in {"none", "upload", "create", "answered"}
    /\ call[t] # NoCall => /\ DOMAIN call[t] = {"at", "tenant", "url", "bundle"}
                           /\ call[t].url \in {"none", "valid"}
                           /\ call[t].bundle \in Bundles /\ Scripts(call[t].bundle) # {}
    /\ call[t].at = "create" => t \in stored
    /\ call[t].at # "answered" => ~Exists(t)

RowOK(t) ==
    Exists(t) => /\ DOMAIN task[t] = {"status", "tenant", "url", "shardCount", "lastError", "delivered", "hookError"}
                 /\ task[t].status \in Statuses /\ task[t].url \in {"none", "valid"}
                 /\ task[t].tenant = call[t].tenant

WorkOK(t) ==
    /\ shards[t] \in Seq(ShardRows)
    /\ Exists(t) => /\ t \in stored
                    /\ Len(shards[t]) = Cardinality(Scripts(call[t].bundle))
                    /\ task[t].shardCount = Len(shards[t]) /\ Len(shards[t]) > 0

\* The goroutine exists only for a settled task with a URL, and carries what the
\* row says; until it has posted, nothing was received.
HookOK(t) ==
    /\ hook[t] = NoHook \/ hook[t].at \in {"post", "record"}
    /\ hook[t] # NoHook \/ inbox[t] # <<>> => Exists(t) /\ task[t].status \in Terminal /\ task[t].url = "valid"
    /\ hook[t].at = "post" => /\ hook[t].payload = newCompletionHookPayload(task[t].status, task[t].lastError)
                              /\ inbox[t] = <<>>
    /\ hook[t].at = "record" => (hook[t].ok => inbox[t] # <<>>)
    /\ inbox[t] # <<>> => inbox[t] = <<newCompletionHookPayload(task[t].status, task[t].lastError)>>
    /\ Exists(t) => (task[t].delivered => inbox[t] # <<>> /\ task[t].hookError = NoText)

InvOf(t) == CallOK(t) /\ RowOK(t) /\ WorkOK(t) /\ HookOK(t)
IndInv == Tables /\ \A t \in Tasks : InvOf(t)

\* Nothing about a task changes.
Fixed(t) ==
    /\ call'[t] = call[t] /\ task'[t] = task[t] /\ shards'[t] = shards[t]
    /\ hook'[t] = hook[t] /\ inbox'[t] = inbox[t] /\ (t \in stored' <=> t \in stored)

-----------------------------------------------------------------------------
\* A task that a step does not touch keeps its part of the invariant.
LEMMA FixedKeeps ==
    ASSUME NEW t, InvOf(t), Fixed(t)
    PROVE  InvOf(t)'
  BY DEF InvOf, Fixed, CallOK, RowOK, WorkOK, HookOK, Exists

\* The number of scripts of a bundle is a natural number, positive when there
\* are any.
LEMMA ScriptCount ==
    ASSUME NEW b \in Bundles
    PROVE  /\ Cardinality(Scripts(b)) \in Nat
           /\ Scripts(b) # {} => Cardinality(Scripts(b)) > 0
  <1>1. b \in Seq(Entries)
    BY ApiAssumption
  <1>2. DOMAIN b = 1..Len(b) /\ Len(b) \in Nat
    BY <1>1
  <1>3. IsFiniteSet(1..Len(b))
    BY <1>2, FS_Interval
  <1>4. Scripts(b) \in SUBSET (1..Len(b))
    BY <1>2 DEF Scripts
  <1>5. IsFiniteSet(Scripts(b))
    BY <1>3, <1>4, FS_Subset
  <1>6. Cardinality(Scripts(b)) \in Nat
    BY <1>5, FS_CardinalityType
  <1>7. Cardinality(Scripts(b)) = 0 <=> Scripts(b) = {}
    BY <1>5, FS_EmptySet
  <1>8. QED
    BY <1>6, <1>7

\* A step of task t that keeps the tables' domains and the rows of the others
\* preserves the invariant if it preserves that of t.
LEMMA OneTask ==
    ASSUME IndInv, NEW t \in Tasks, Tables', InvOf(t)', \A u \in Tasks \ {t} : Fixed(u)
    PROVE  IndInv'
  BY FixedKeeps DEF IndInv
-----------------------------------------------------------------------------
\* SubmitTask up to the insert: the call of a task that does not exist.
LEMMA SubmitStep ==
    ASSUME IndInv, NEW t \in Tasks,
           \/ \E name \in Tenants, url \in {"none", "valid", "invalid"}, b \in Bundles : SubmitTask(t, name, url, b)
           \/ UploadBytes(t)
    PROVE  IndInv'
  <1>1. InvOf(t) /\ Tables
    BY DEF IndInv
  <1>2. UNCHANGED <<task, shards, hook, inbox>>
    BY DEF SubmitTask, UploadBytes
  <1>3. CASE \E name \in Tenants, url \in {"none", "valid", "invalid"}, b \in Bundles : SubmitTask(t, name, url, b)
    <2>1. PICK name \in Tenants, url \in {"none", "valid", "invalid"}, b \in Bundles : SubmitTask(t, name, url, b)
      BY <1>3
    <2>2. /\ stored' = stored /\ url \in {"none", "valid"} /\ Scripts(b) # {} /\ call[t] = NoCall
          /\ call' = [call EXCEPT ![t] = [at |-> "upload", tenant |-> name, url |-> url, bundle |-> b]]
      BY <2>1 DEF SubmitTask, extracts
    <2>3. ~Exists(t)
      BY <1>1, <2>2 DEF InvOf, CallOK, NoCall
    <2>4. Tables' /\ \A u \in Tasks \ {t} : Fixed(u)
      BY <1>1, <1>2, <2>2 DEF Tables, Fixed
    <2>5. CallOK(t)'
      BY <1>1, <1>2, <2>2, <2>3 DEF Tables, CallOK, Exists
    <2>6. RowOK(t)' /\ WorkOK(t)' /\ HookOK(t)'
      BY <1>1, <1>2, <2>2, <2>3 DEF InvOf, RowOK, WorkOK, HookOK, Exists
    <2>7. QED
      BY <2>4, <2>5, <2>6, OneTask DEF InvOf
  <1>4. CASE UploadBytes(t)
    <2>1. call[t].at = "upload" /\ call[t] # NoCall
      BY <1>4 DEF UploadBytes, NoCall
    <2>2. \/ stored' = stored \cup {t} /\ call' = [call EXCEPT ![t].at = "create"]
          \/ stored' = stored /\ call' = [call EXCEPT ![t].at = "answered"]
      BY <1>4 DEF UploadBytes, Answered
    <2>3. ~Exists(t)
      BY <1>1, <2>1 DEF InvOf, CallOK
    <2>4. Tables' /\ \A u \in Tasks \ {t} : Fixed(u)
      BY <1>1, <1>2, <2>2 DEF Tables, Fixed
    <2>5. CallOK(t)'
      <3>1. /\ call'[t].at \in {"create", "answered"} /\ DOMAIN call'[t] = DOMAIN call[t]
            /\ call'[t].url = call[t].url /\ call'[t].bundle = call[t].bundle
            /\ call'[t].at = "create" => t \in stored'
        BY <1>1, <2>1, <2>2 DEF Tables, InvOf, CallOK
      <3>2. QED
        BY <1>1, <1>2, <2>1, <2>3, <3>1 DEF InvOf, CallOK, Exists
    <2>6. RowOK(t)' /\ WorkOK(t)' /\ HookOK(t)'
      BY <1>1, <1>2, <2>2, <2>3 DEF InvOf, RowOK, WorkOK, HookOK, Exists
    <2>7. QED
      BY <2>4, <2>5, <2>6, OneTask DEF InvOf
  <1>5. QED
    BY <1>3, <1>4

\* The transaction that inserts the task and its shards.
LEMMA CreateStep ==
    ASSUME IndInv, NEW t \in Tasks, CreateTask(t)
    PROVE  IndInv'
  <1>1. InvOf(t) /\ Tables
    BY DEF IndInv
  <1> DEFINE n == Cardinality(Scripts(call[t].bundle))
  <1>2. /\ call[t].at = "create" /\ call[t] # NoCall /\ t \in stored /\ ~Exists(t)
        /\ DOMAIN call[t] = {"at", "tenant", "url", "bundle"} /\ call[t].url \in {"none", "valid"}
        /\ call[t].bundle \in Bundles /\ Scripts(call[t].bundle) # {}
    BY <1>1 DEF CreateTask, CreateReady, NoCall, InvOf, CallOK
  <1>3. call' = [call EXCEPT ![t].at = "answered"] /\ UNCHANGED <<stored, hook, inbox>>
    BY DEF CreateTask, Answered
  <1>4. n \in Nat /\ n > 0
    BY <1>2, ScriptCount
  <1>5. /\ call'[t].at = "answered" /\ call'[t].tenant = call[t].tenant /\ call'[t].url = call[t].url
        /\ call'[t].bundle = call[t].bundle /\ DOMAIN call'[t] = DOMAIN call[t]
    BY <1>1, <1>2, <1>3 DEF Tables
  <1>6. CallOK(t)'
    BY <1>2, <1>5 DEF CallOK
  <1>7. hook[t] = NoHook /\ inbox[t] = <<>>
    BY <1>1, <1>2 DEF InvOf, HookOK
  <1>8. CASE UNCHANGED <<task, shards>>
    <2>1. Tables' /\ \A u \in Tasks \ {t} : Fixed(u)
      BY <1>1, <1>3, <1>8 DEF Tables, Fixed
    <2>2. RowOK(t)' /\ WorkOK(t)' /\ HookOK(t)'
      BY <1>1, <1>2, <1>3, <1>8 DEF InvOf, RowOK, WorkOK, HookOK, Exists
    <2>3. QED
      BY <1>6, <2>1, <2>2, OneTask DEF InvOf
  <1>9. CASE ~UNCHANGED <<task, shards>>
    <2>1. /\ task' = [task EXCEPT ![t] = [status |-> "PENDING", tenant |-> call[t].tenant, url |-> call[t].url,
                         shardCount |-> n, lastError |-> NoText, delivered |-> FALSE, hookError |-> NoText]]
          /\ shards' = [shards EXCEPT ![t] = [i \in 1..n |-> [status |-> "QUEUED", lastError |-> NoText]]]
      BY <1>9 DEF CreateTask
    <2>2. Tables' /\ \A u \in Tasks \ {t} : Fixed(u)
      BY <1>1, <1>3, <2>1 DEF Tables, Fixed
    <2>3. Exists(t)' /\ RowOK(t)'
      BY <1>1, <1>2, <1>5, <2>1 DEF Tables, RowOK, Exists, NoTask, Statuses
    <2>4. shards'[t] = [i \in 1..n |-> [status |-> "QUEUED", lastError |-> NoText]]
      BY <1>1, <2>1 DEF Tables
    <2>5. [status |-> "QUEUED", lastError |-> NoText] \in ShardRows
      BY ApiAssumption DEF ShardRows
    <2>6. shards'[t] \in Seq(ShardRows) /\ Len(shards'[t]) = n
      BY <1>4, <2>4, <2>5
    <2>7. task'[t].shardCount = n
      BY <1>1, <2>1 DEF Tables
    <2>8. WorkOK(t)'
      BY <1>2, <1>3, <1>4, <1>5, <2>6, <2>7 DEF WorkOK
    <2>9. HookOK(t)'
      BY <1>1, <1>3, <1>7, <2>1 DEF Tables, HookOK, NoHook
    <2>10. QED
      BY <1>6, <2>2, <2>3, <2>8, <2>9, OneTask DEF InvOf
  <1>10. QED
    BY <1>8, <1>9
-----------------------------------------------------------------------------
\* The row of t, and no other, gets a status and a text.
Rewritten(t, status, text) ==
    /\ Exists(t)' /\ DOMAIN task' = Tasks /\ \A u \in Tasks \ {t} : task'[u] = task[u]
    /\ DOMAIN task'[t] = DOMAIN task[t] /\ task'[t].status = status /\ task'[t].lastError = text
    /\ task'[t].tenant = task[t].tenant /\ task'[t].url = task[t].url
    /\ task'[t].shardCount = task[t].shardCount /\ task'[t].delivered = task[t].delivered
    /\ task'[t].hookError = task[t].hookError

\* The shards of t, and no others, become these.
Resharded(t, rows) ==
    shards'[t] = rows /\ DOMAIN shards' = Tasks /\ \A u \in Tasks \ {t} : shards'[u] = shards[u]

\* The updates of a row that exists: SetTask, the status alone, and none.
LEMMA SetRow ==
    ASSUME IndInv, NEW t \in Tasks, Exists(t), NEW status \in Statuses, NEW text,
           \/ SetTask(t, status, text)
           \/ task' = [task EXCEPT ![t].status = status] /\ text = task[t].lastError
           \/ task' = task /\ status = task[t].status /\ text = task[t].lastError
    PROVE  Rewritten(t, status, text)
  <1>1. RowOK(t) /\ Tables
    BY DEF IndInv, InvOf
  <1>2. /\ DOMAIN task' = Tasks /\ \A u \in Tasks \ {t} : task'[u] = task[u]
        /\ \/ task'[t] = [task[t] EXCEPT !.status = status, !.lastError = text]
           \/ task'[t] = [task[t] EXCEPT !.status = status] /\ text = task[t].lastError
           \/ task'[t] = task[t] /\ status = task[t].status /\ text = task[t].lastError
    BY <1>1, Zenon DEF Tables, SetTask
  <1>3. DOMAIN task[t] = {"status", "tenant", "url", "shardCount", "lastError", "delivered", "hookError"}
    BY <1>1 DEF RowOK
  <1>4. /\ DOMAIN task'[t] = DOMAIN task[t] /\ task'[t].status = status /\ task'[t].lastError = text
        /\ task'[t].tenant = task[t].tenant /\ task'[t].url = task[t].url
        /\ task'[t].shardCount = task[t].shardCount /\ task'[t].delivered = task[t].delivered
        /\ task'[t].hookError = task[t].hookError
    BY <1>2, <1>3, Zenon
  <1>5. Exists(t)'
    <2>1. status # "none"
      BY DEF Statuses, Terminal
    <2>2. NoTask.status = "none"
      BY DEF NoTask
    <2>3. QED
      BY <1>4, <2>1, <2>2 DEF Exists, NoTask
  <1>6. QED
    BY <1>2, <1>4, <1>5 DEF Rewritten

\* A task that is not settled is rewritten, its shards change but stay as many;
\* if it is settled now, and has a URL, its hook is started.
LEMMA SettleStep ==
    ASSUME IndInv, NEW t \in Tasks, Exists(t), task[t].status \notin Terminal,
           NEW status \in Statuses, NEW text, Rewritten(t, status, text),
           NEW rows \in Seq(ShardRows), Len(rows) = Len(shards[t]), Resharded(t, rows),
           \/ hook' = hook
           \/ /\ status \in Terminal
              /\ dispatchCompletionHookAsync(t, newCompletionHookPayload(status, text)),
           UNCHANGED <<call, stored, inbox>>
    PROVE  IndInv'
  <1>1. InvOf(t) /\ Tables
    BY DEF IndInv
  <1>2. /\ DOMAIN hook' = Tasks /\ \A u \in Tasks \ {t} : hook'[u] = hook[u]
        /\ \/ hook'[t] = hook[t]
           \/ /\ status \in Terminal /\ task[t].url # "none"
              /\ hook'[t] = [at |-> "post", payload |-> newCompletionHookPayload(status, text)]
    BY <1>1 DEF Tables, dispatchCompletionHookAsync
  <1>3. Tables' /\ \A u \in Tasks \ {t} : Fixed(u)
    BY <1>1, <1>2 DEF Tables, Fixed, Rewritten, Resharded
  <1>4. CallOK(t)' /\ RowOK(t)'
    BY <1>1 DEF InvOf, CallOK, RowOK, Rewritten
  <1>5. WorkOK(t)'
    BY <1>1 DEF InvOf, WorkOK, Rewritten, Resharded
  <1>6. HookOK(t)'
    <2>1. hook[t] = NoHook /\ inbox[t] = <<>> /\ inbox'[t] = <<>> /\ ~task[t].delivered
      BY <1>1 DEF InvOf, HookOK
    <2>2. CASE hook'[t] = hook[t]
      BY <2>1, <2>2 DEF HookOK, NoHook, Rewritten
    <2>3. CASE hook'[t] # hook[t]
      <3>1. /\ status \in Terminal /\ task'[t].url = "valid" /\ hook'[t].at = "post"
            /\ hook'[t].payload = newCompletionHookPayload(status, text)
        BY <1>1, <1>2, <2>3 DEF InvOf, RowOK, Rewritten
      <3>2. QED
        BY <2>1, <3>1 DEF HookOK, NoHook, Rewritten
    <2>4. QED
      BY <2>2, <2>3
  <1>7. QED
    BY <1>3, <1>4, <1>5, <1>6, OneTask DEF InvOf

\* A shard of a well-typed sequence keeps its type when its status changes.
LEMMA ShardStatus ==
    ASSUME NEW rows \in Seq(ShardRows), NEW i \in DOMAIN rows, NEW status \in {"RUNNING"} \cup Terminal
    PROVE  [rows[i] EXCEPT !.status = status] \in ShardRows
  <1>1. rows[i] \in ShardRows
    OBVIOUS
  <1> HIDE DEF Terminal
  <1>2. QED
    BY <1>1 DEF ShardRows

\* The poller, and a report that a shard has started.
LEMMA ProgressStep ==
    ASSUME IndInv, NEW t \in Tasks, MarkTasksStatus(t) \/ \E i \in DOMAIN shards[t] : ReportRunning(t, i)
    PROVE  IndInv'
  <1>1. InvOf(t) /\ Tables
    BY DEF IndInv
  <1>2. shards[t] \in Seq(ShardRows)
    BY <1>1 DEF InvOf, WorkOK
  <1>3. CASE MarkTasksStatus(t)
    <2>1. PICK status \in {"PENDING", "WAITING_FOR_AGENTS"}, text \in {"provision failed", NoText} :
            SetTask(t, status, text)
      BY <1>3, Zenon DEF MarkTasksStatus
    <2>2. Exists(t) /\ task[t].status \notin Terminal /\ status \in Statuses
      BY <1>3, Zenon DEF MarkTasksStatus, Statuses, Terminal
    <2>3. Rewritten(t, status, text)
      BY <2>1, <2>2, SetRow, Zenon
    <2>4. Resharded(t, shards[t]) /\ hook' = hook /\ UNCHANGED <<call, stored, inbox>>
      BY <1>1, <1>3, Zenon DEF MarkTasksStatus, Resharded, Tables
    <2>5. QED
      BY <1>2, <2>2, <2>3, <2>4, SettleStep, Zenon
  <1>4. CASE \E i \in DOMAIN shards[t] : ReportRunning(t, i)
    <2>1. PICK i \in DOMAIN shards[t] : ReportRunning(t, i)
      BY <1>4
    <2> DEFINE rows == [shards[t] EXCEPT ![i].status = "RUNNING"]
    <2>2. Exists(t) /\ task[t].status \notin Terminal /\ "RUNNING" \in Statuses
      BY <2>1 DEF ReportRunning, Statuses, Terminal
    <2>3. Rewritten(t, "RUNNING", task[t].lastError)
      BY <2>1, <2>2, SetRow, Zenon DEF ReportRunning
    <2>4. rows \in Seq(ShardRows) /\ Len(rows) = Len(shards[t])
      <3>1. [shards[t][i] EXCEPT !.status = "RUNNING"] \in ShardRows
        BY <1>2, ShardStatus, Zenon
      <3>2. i \in 1..Len(shards[t])
        BY <1>2
      <3>3. QED
        BY <1>2, <3>1, <3>2, ExceptSeq
    <2>5. Resharded(t, rows) /\ hook' = hook /\ UNCHANGED <<call, stored, inbox>>
      BY <1>1, <2>1 DEF ReportRunning, Resharded, Tables
    <2> HIDE DEF rows
    <2>6. QED
      BY <2>2, <2>3, <2>4, <2>5, SettleStep
  <1>5. QED
    BY <1>3, <1>4

\* A report that a shard has ended, which may settle the task.
LEMMA EndStep ==
    ASSUME IndInv, NEW t \in Tasks, NEW i \in DOMAIN shards[t], NEW status \in {"SUCCEEDED", "FAILED"},
           NEW message \in Messages, ReportEnded(t, i, status, message)
    PROVE  IndInv'
  <1> DEFINE rows == [shards[t] EXCEPT ![i] = [status |-> status, lastError |-> message]]
             outcome == IF \E j \in DOMAIN rows : rows[j].status = "FAILED" THEN "FAILED" ELSE "SUCCEEDED"
             text == IF outcome = "FAILED"
                     THEN resolveTaskFailureLastError(rows, Append(finished[t], i), message) ELSE NoText
  <1>1. InvOf(t) /\ Tables /\ shards[t] \in Seq(ShardRows)
    BY DEF IndInv, InvOf, WorkOK
  <1>2. /\ Exists(t) /\ task[t].status \notin Terminal /\ shards' = [shards EXCEPT ![t] = rows]
        /\ UNCHANGED <<call, stored, inbox>>
        /\ \/ /\ SetTask(t, outcome, text)
              /\ dispatchCompletionHookAsync(t, newCompletionHookPayload(outcome, text))
           \/ task' = task /\ hook' = hook
    BY DEF ReportEnded
  <1>3. rows \in Seq(ShardRows) /\ Len(rows) = Len(shards[t])
    <2>1. [status |-> status, lastError |-> message] \in ShardRows
      BY DEF ShardRows, Terminal
    <2>2. i \in 1..Len(shards[t])
      BY <1>1
    <2>3. QED
      BY <1>1, <2>1, <2>2, ExceptSeq
  <1>4. outcome \in Statuses /\ outcome \in Terminal
    BY DEF Statuses, Terminal
  <1>5. Resharded(t, rows)
    BY <1>1, <1>2 DEF Resharded, Tables
  <1> HIDE DEF rows, outcome, text
  <1>6. CASE SetTask(t, outcome, text) /\ dispatchCompletionHookAsync(t, newCompletionHookPayload(outcome, text))
    <2>1. Rewritten(t, outcome, text)
      BY <1>2, <1>4, <1>6, SetRow, SMTT(30)
    <2>2. QED
      BY <1>2, <1>3, <1>4, <1>5, <1>6, <2>1, SettleStep
  <1>7. CASE task' = task /\ hook' = hook
    <2>1. task[t].status \in Statuses
      BY <1>1, <1>2 DEF InvOf, RowOK
    <2>2. Rewritten(t, task[t].status, task[t].lastError)
      BY <1>2, <1>7, <2>1, SetRow, SMTT(30)
    <2>3. QED
      BY <1>2, <1>3, <1>5, <1>7, <2>1, <2>2, SettleStep
  <1>8. QED
    BY <1>2, <1>6, <1>7

\* The tenant cancels the task.
LEMMA CancelStep ==
    ASSUME IndInv, NEW t \in Tasks, NEW name, CancelTask(name, t)
    PROVE  IndInv'
  <1> DEFINE rows == [i \in DOMAIN shards[t] |-> IF shards[t][i].status \in Terminal THEN shards[t][i]
                                                ELSE [shards[t][i] EXCEPT !.status = "CANCELLED"]]
  <1>1. InvOf(t) /\ Tables /\ shards[t] \in Seq(ShardRows)
    BY DEF IndInv, InvOf, WorkOK
  <1>2. /\ Exists(t) /\ task[t].status \notin Terminal /\ SetTask(t, "CANCELLED", NoText)
        /\ dispatchCompletionHookAsync(t, newCompletionHookPayload("CANCELLED", NoText))
        /\ UNCHANGED <<call, stored, inbox>>
    BY DEF CancelTask, CancelTaskById
  <1>3. Resharded(t, rows)
    BY <1>1 DEF CancelTask, Resharded, Tables
  <1>4. rows \in Seq(ShardRows) /\ Len(rows) = Len(shards[t])
    <2>1. DOMAIN shards[t] = 1..Len(shards[t]) /\ Len(shards[t]) \in Nat
      BY <1>1
    <2>2. \A i \in DOMAIN shards[t] : rows[i] \in ShardRows
      <3>1. "CANCELLED" \in {"RUNNING"} \cup Terminal
        BY DEF Terminal
      <3>2. \A i \in DOMAIN shards[t] : /\ shards[t][i] \in ShardRows
                                        /\ [shards[t][i] EXCEPT !.status = "CANCELLED"] \in ShardRows
        BY <1>1, <3>1, ShardStatus
      <3>3. QED
        BY <3>2
    <2>3. DOMAIN rows = 1..Len(shards[t])
      BY <2>1
    <2>4. rows = [i \in 1..Len(shards[t]) |-> rows[i]]
      BY <2>1
    <2> HIDE DEF rows
    <2>5. QED
      BY <2>1, <2>2, <2>3, <2>4
  <1>5. "CANCELLED" \in Statuses /\ "CANCELLED" \in Terminal
    BY DEF Statuses, Terminal
  <1> HIDE DEF rows
  <1>6. Rewritten(t, "CANCELLED", NoText)
    BY <1>2, <1>5, SetRow
  <1>7. QED
    BY <1>2, <1>3, <1>4, <1>5, <1>6, SettleStep
-----------------------------------------------------------------------------
\* The request to the receiver.
LEMMA PostStep ==
    ASSUME IndInv, NEW t \in Tasks, dispatchCompletionHook(t)
    PROVE  IndInv'
  <1>1. InvOf(t) /\ Tables
    BY DEF IndInv
  <1>2. PICK got \in BOOLEAN, ok \in BOOLEAN :
          /\ ok => got
          /\ inbox' = IF got THEN [inbox EXCEPT ![t] = Append(@, hook[t].payload)] ELSE inbox
          /\ hook' = [hook EXCEPT ![t] = [at |-> "record", ok |-> ok]]
    BY Zenon DEF dispatchCompletionHook
  <1>3. hook[t].at = "post" /\ UNCHANGED <<call, stored, task, shards>>
    BY DEF dispatchCompletionHook
  <1>4. /\ hook[t] # NoHook /\ inbox[t] = <<>>
        /\ hook[t].payload = newCompletionHookPayload(task[t].status, task[t].lastError)
        /\ Exists(t) /\ task[t].status \in Terminal /\ task[t].url = "valid" /\ ~task[t].delivered
    BY <1>1, <1>3 DEF InvOf, HookOK, NoHook
  <1>5. Tables' /\ \A u \in Tasks \ {t} : Fixed(u)
    BY <1>1, <1>2, <1>3 DEF Tables, Fixed
  <1>6. CallOK(t)' /\ RowOK(t)' /\ WorkOK(t)'
    BY <1>1, <1>3 DEF InvOf, CallOK, RowOK, WorkOK, Exists
  <1>7. hook'[t].at = "record" /\ hook'[t].ok = ok /\ hook'[t] # NoHook
    BY <1>1, <1>2 DEF Tables, NoHook
  <1>8. inbox'[t] = IF got THEN <<hook[t].payload>> ELSE <<>>
    BY <1>1, <1>2, <1>4 DEF Tables
  <1>9. inbox'[t] # <<>> <=> got
    BY <1>8
  <1>10. HookOK(t)'
    BY <1>2, <1>3, <1>4, <1>7, <1>8, <1>9 DEF HookOK, Exists
  <1>11. QED
    BY <1>5, <1>6, <1>10, OneTask DEF InvOf

\* The record of its result.
LEMMA RecordStep ==
    ASSUME IndInv, NEW t \in Tasks, recordCompletionHookResult(t)
    PROVE  IndInv'
  <1>1. InvOf(t) /\ Tables
    BY DEF IndInv
  <1>2. /\ hook[t].at = "record" /\ hook' = [hook EXCEPT ![t] = NoHook]
        /\ task' = [task EXCEPT ![t] = Recorded(t)] \/ task' = task
        /\ UNCHANGED <<call, stored, shards, inbox>>
    BY SMTT(30) DEF recordCompletionHookResult
  <1>3. /\ Exists(t) /\ task[t].status \in Terminal /\ (hook[t].ok => inbox[t] # <<>>)
        /\ DOMAIN task[t] = {"status", "tenant", "url", "shardCount", "lastError", "delivered", "hookError"}
    BY <1>1, <1>2 DEF InvOf, RowOK, HookOK, NoHook
  <1>4. Tables' /\ \A u \in Tasks \ {t} : Fixed(u)
    BY <1>1, <1>2 DEF Tables, Fixed
  <1>5. hook'[t] = NoHook
    BY <1>1, <1>2 DEF Tables
  <1>6. CASE task'[t] = task[t]
    <2>1. CallOK(t)' /\ RowOK(t)' /\ WorkOK(t)'
      BY <1>1, <1>2, <1>6, SMTT(30) DEF InvOf, CallOK, RowOK, WorkOK, Exists
    <2>2. HookOK(t)'
      BY <1>1, <1>2, <1>5, <1>6 DEF InvOf, HookOK, Exists, NoHook
    <2>3. QED
      BY <1>4, <2>1, <2>2, OneTask, SMTT(30) DEF InvOf
  <1>7. CASE task'[t] # task[t]
    <2>1. task'[t] = Recorded(t) /\ ~task[t].delivered
      BY <1>1, <1>2, <1>7 DEF Tables, Recorded
    <2>2. /\ DOMAIN task'[t] = DOMAIN task[t] /\ task'[t].status = task[t].status /\ task'[t].url = task[t].url
          /\ task'[t].tenant = task[t].tenant /\ task'[t].shardCount = task[t].shardCount
          /\ task'[t].lastError = task[t].lastError
      BY <1>3, <2>1 DEF Recorded
    <2>3. task'[t].delivered => hook[t].ok /\ task'[t].hookError = NoText
      BY <1>3, <2>1 DEF Recorded
    <2>4. task[t].status # "none"
      BY <1>3 DEF Terminal
    <2>5. Exists(t)'
      BY <2>2, <2>4, SMTT(30) DEF Exists, NoTask
    <2>6. CallOK(t)' /\ RowOK(t)' /\ WorkOK(t)'
      BY <1>1, <1>2, <1>3, <2>2, <2>5, SMTT(30) DEF InvOf, CallOK, RowOK, WorkOK
    <2>7. HookOK(t)'
      BY <1>1, <1>2, <1>3, <1>5, <2>2, <2>3, <2>5 DEF InvOf, HookOK, NoHook
    <2>8. QED
      BY <1>4, <2>6, <2>7, OneTask DEF InvOf
  <1>8. QED
    BY <1>6, <1>7

\* The process dies: calls are over, goroutines are gone.
LEMMA CrashStep ==
    ASSUME IndInv, Crash
    PROVE  IndInv'
  <1>1. /\ UNCHANGED <<stored, task, shards, inbox>> /\ hook' = [t \in Tasks |-> NoHook]
        /\ call' = [t \in Tasks |-> IF call[t] = NoCall THEN NoCall ELSE [call[t] EXCEPT !.at = "answered"]]
    BY DEF Crash
  <1>2. Tables'
    BY <1>1 DEF IndInv, Tables
  <1>3. ASSUME NEW t \in Tasks PROVE InvOf(t)'
    <2>1. InvOf(t)
      BY DEF IndInv
    <2>2. hook'[t] = NoHook
      BY <1>1
    <2>3. CASE call[t] = NoCall
      BY <1>1, <2>1, <2>2, <2>3 DEF InvOf, CallOK, RowOK, WorkOK, HookOK, Exists, NoCall, NoHook
    <2>4. CASE call[t] # NoCall
      <3>1. call'[t] = [call[t] EXCEPT !.at = "answered"]
        BY <1>1, <2>4
      <3>2. /\ call'[t].at = "answered" /\ DOMAIN call'[t] = DOMAIN call[t]
            /\ call'[t].tenant = call[t].tenant /\ call'[t].url = call[t].url /\ call'[t].bundle = call[t].bundle
        BY <2>1, <2>4, <3>1 DEF InvOf, CallOK
      <3>3. CallOK(t)'
        BY <2>1, <2>4, <3>2 DEF InvOf, CallOK
      <3>4. RowOK(t)' /\ WorkOK(t)' /\ HookOK(t)'
        BY <1>1, <2>1, <2>2, <3>2 DEF InvOf, RowOK, WorkOK, HookOK, Exists, NoHook
      <3>5. QED
        BY <3>3, <3>4 DEF InvOf
    <2>5. QED
      BY <2>3, <2>4
  <1>4. QED
    BY <1>2, <1>3 DEF IndInv

\* IndInv holds in every reachable state.
LEMMA Inductive == Spec => []IndInv
  <1>1. Init => IndInv
    <2> SUFFICES ASSUME Init PROVE IndInv
      OBVIOUS
    <2>1. Tables
      BY DEF Init, Tables
    <2>2. ASSUME NEW t \in Tasks PROVE InvOf(t)
      <3>1. /\ call[t] = NoCall /\ task[t] = NoTask /\ shards[t] = <<>>
            /\ hook[t] = NoHook /\ inbox[t] = <<>>
        BY DEF Init
      <3>2. QED
        BY <3>1 DEF InvOf, CallOK, RowOK, WorkOK, HookOK, Exists, NoCall, NoHook
    <2>3. QED
      BY <2>1, <2>2 DEF IndInv
  <1>2. IndInv /\ [Next]_vars => IndInv'
    <2> SUFFICES ASSUME IndInv, [Next]_vars PROVE IndInv'
      OBVIOUS
    <2>1. CASE UNCHANGED <<call, stored, task, shards, hook, inbox>>
      <3>1. Tables'
        BY <2>1 DEF IndInv, Tables
      <3>2. \A t \in Tasks : Fixed(t)
        BY <2>1 DEF Fixed
      <3>3. QED
        BY <3>1, <3>2, FixedKeeps DEF IndInv
    <2>2. CASE \E name \in Tenants, n \in MaxAgents : CreateTenant(name, n)
      BY <2>1, <2>2 DEF CreateTenant
    <2>3. ASSUME NEW t \in Tasks,
                 \/ \E name \in Tenants, url \in {"none", "valid", "invalid"}, b \in Bundles :
                      SubmitTask(t, name, url, b)
                 \/ UploadBytes(t) \/ CreateTask(t) \/ MarkTasksStatus(t)
                 \/ \E i \in DOMAIN shards[t] :
                      \/ ReportRunning(t, i)
                      \/ ReportEnded(t, i, "SUCCEEDED", NoText)
                      \/ \E message \in Messages : ReportEnded(t, i, "FAILED", message)
                 \/ \E name \in Tenants : CancelTask(name, t)
                 \/ dispatchCompletionHook(t) \/ recordCompletionHookResult(t)
          PROVE  IndInv'
      <3>1. CASE \E i \in DOMAIN shards[t] :
                   \/ ReportEnded(t, i, "SUCCEEDED", NoText)
                   \/ \E message \in Messages : ReportEnded(t, i, "FAILED", message)
        BY <3>1, EndStep, ApiAssumption
      <3>2. QED
        BY <2>3, <3>1, SubmitStep, CreateStep, ProgressStep, CancelStep, PostStep, RecordStep, SMTT(30)
    <2>4. CASE Crash
      BY <2>4, CrashStep
    <2>5. CASE UNCHANGED vars
      BY <2>1, <2>5 DEF vars
    <2>6. QED
      BY <2>2, <2>3, <2>4, <2>5 DEF Next
  <1>3. QED
    BY <1>1, <1>2, PTL DEF Spec

-----------------------------------------------------------------------------
\* Whatever fails in SubmitTask, and whenever the process dies, a task that
\* exists has its bundle and one shard for each script in it.
THEOREM WorkIsThere == Spec => []TaskHasItsWork
  <1>1. IndInv => TaskHasItsWork
    BY DEF IndInv, InvOf, WorkOK, TaskHasItsWork
  <1>2. QED
    BY <1>1, Inductive, PTL

\* The receiver is told at most once, what the row says for good, and a task
\* recorded as delivered was received.
THEOREM HookTellsTheTruth == Spec => []HookTruthful
  <1>1. IndInv => HookTruthful
    <2> SUFFICES ASSUME IndInv, NEW t \in Tasks
                 PROVE  /\ Len(inbox[t]) <= 1
                        /\ inbox[t] # <<>> =>
                             /\ Exists(t) /\ task[t].status \in Terminal /\ task[t].url = "valid"
                             /\ Head(inbox[t]) = [status |-> task[t].status, lastError |-> task[t].lastError]
                        /\ Exists(t) /\ task[t].delivered => inbox[t] # <<>> /\ task[t].hookError = NoText
      BY DEF HookTruthful
    <2>1. HookOK(t)
      BY DEF IndInv, InvOf
    <2>2. Len(inbox[t]) <= 1
      <3>1. PICK x : inbox[t] = <<>> \/ inbox[t] = <<x>>
        BY <2>1, Zenon DEF HookOK
      <3>2. Len(<<>>) = 0 /\ Len(<<x>>) = 1
        OBVIOUS
      <3>3. Len(inbox[t]) = 0 \/ Len(inbox[t]) = 1
        BY <3>1, <3>2, Zenon
      <3>4. 0 <= 1 /\ 1 <= 1
        OBVIOUS
      <3>5. QED
        BY <3>3, <3>4, Zenon
    <2>3. inbox[t] # <<>> => Head(inbox[t]) = newCompletionHookPayload(task[t].status, task[t].lastError)
      BY <2>1 DEF HookOK
    <2>4. QED
      BY <2>1, <2>2, <2>3, SMTT(30) DEF HookOK, newCompletionHookPayload
  <1>2. QED
    BY <1>1, Inductive, PTL

\* GetTask finds a task exactly when ListTasks shows it, and only for the tenant
\* that submitted it.
THEOREM OneTenantsView == Spec => []ReadsAgree
  <1>1. IndInv => ReadsAgree
    <2> SUFFICES ASSUME IndInv, NEW t \in Tasks, NEW name \in Tenants
                 PROVE  /\ GetTaskByID(name, t) # NoTask <=> t \in GetTaskList(name, "null")
                        /\ GetTaskByID(name, t) # NoTask =>
                             name = call[t].tenant /\ t \in GetTaskList(name, GetTaskByID(name, t).status)
      BY DEF ReadsAgree
    <2>1. RowOK(t)
      BY DEF IndInv, InvOf
    <2>2. GetTaskByID(name, t) # NoTask <=> GetByName(name) /\ Exists(t) /\ task[t].tenant = name
      BY DEF GetTaskByID, GetTask, Exists
    <2>3. t \in GetTaskList(name, "null") <=> GetByName(name) /\ Exists(t) /\ task[t].tenant = name
      BY DEF GetTaskList, ListTasks, ListTasksByTenant
    <2>4. ASSUME GetTaskByID(name, t) # NoTask
          PROVE  name = call[t].tenant /\ t \in GetTaskList(name, GetTaskByID(name, t).status)
      <3>1. GetTaskByID(name, t) = task[t] /\ task[t].status # "null" /\ name = call[t].tenant
        BY <2>1, <2>2, <2>4 DEF GetTaskByID, GetTask, RowOK, Statuses, Terminal
      <3>2. QED
        BY <2>2, <2>4, <3>1 DEF GetTaskList, ListTasks, ListTasksByTenant
    <2>5. QED
      BY <2>2, <2>3, <2>4
  <1>2. QED
    BY <1>1, Inductive, PTL

-----------------------------------------------------------------------------
(* Types, and the outcome with its error text *)

Hooks == {NoHook} \cup [at : {"post"}, payload : Payload] \cup [at : {"record"}, ok : BOOLEAN]

Telling(rows, order) ==
    {k \in DOMAIN order : rows[order[k]].status = "FAILED" /\ rows[order[k]].lastError # NoText}

\* A status and an error text are what these shards, ended in this order, give;
\* no shard of a task that is not settled has been cancelled.
ExplainedBy(status, text, rows, order) ==
    /\ status \notin Terminal => \A i \in DOMAIN rows : rows[i].status # "CANCELLED"
    /\ status = "CANCELLED" => text = NoText
    /\ status = "SUCCEEDED" => text = NoText /\ \A i \in DOMAIN rows : rows[i].status = "SUCCEEDED"
    /\ status = "FAILED" =>
         /\ \E i \in DOMAIN rows : rows[i].status = "FAILED"
         /\ Telling(rows, order) = {} => text = DefaultText
         /\ \A k \in Telling(rows, order) : (\A l \in Telling(rows, order) : l <= k) =>
              text = rows[order[k]].lastError

Globals ==
    /\ DOMAIN tenants \subseteq Tenants /\ \A n \in DOMAIN tenants : tenants[n] \in MaxAgents \ {0}
    /\ stored \subseteq Tasks /\ crashes \in 0..MaxCrashes /\ DOMAIN finished = Tasks

TypedOf(t) ==
    /\ call[t] # NoCall => call[t].tenant \in Tenants
    /\ Exists(t) => task[t] \in TaskRows /\ ExplainedBy(task[t].status, task[t].lastError, shards[t], finished[t])
    /\ ~Exists(t) => finished[t] = <<>>
    /\ finished[t] \in Seq(DOMAIN shards[t])
    /\ hook[t] \in Hooks

TypedInv == Globals /\ \A t \in Tasks : TypedOf(t)

\* Nothing that TypedInv says of a task changes.
Untouched(t) == Fixed(t) /\ finished'[t] = finished[t]

\* A step of task t that leaves the others alone preserves TypedInv if it
\* preserves what that says of t.
LEMMA OneTaskTyped ==
    ASSUME TypedInv, NEW t \in Tasks, Globals', TypedOf(t)', \A u \in Tasks \ {t} : Untouched(u)
    PROVE  TypedInv'
  <1>1. ASSUME NEW u \in Tasks \ {t} PROVE TypedOf(u)'
    <2>1. TypedOf(u) /\ Fixed(u) /\ finished'[u] = finished[u]
      BY DEF TypedInv, Untouched
    <2>2. QED
      BY <2>1 DEF TypedOf, Fixed, Exists
  <1>2. QED
    BY <1>1 DEF TypedInv

\* The updates of a task row keep its type.
LEMMA RowTypes ==
    ASSUME NEW row \in TaskRows, NEW status \in Statuses, NEW text \in Texts
    PROVE  /\ [row EXCEPT !.status = status, !.lastError = text] \in TaskRows
           /\ [row EXCEPT !.status = status] \in TaskRows
           /\ [row EXCEPT !.delivered = TRUE, !.hookError = NoText] \in TaskRows
           /\ [row EXCEPT !.hookError = "failed"] \in TaskRows
  <1> HIDE DEF Statuses, Texts
  <1>1. TaskRows = [status : Statuses, tenant : Tenants, url : {"none", "valid"}, shardCount : Nat,
                    lastError : Texts, delivered : BOOLEAN, hookError : {NoText, "failed"}]
    BY DEF TaskRows, Statuses
  <1>2. [row EXCEPT !.status = status, !.lastError = text] \in TaskRows
    BY <1>1
  <1>3. [row EXCEPT !.status = status] \in TaskRows
    BY <1>1
  <1>4. [row EXCEPT !.delivered = TRUE, !.hookError = NoText] \in TaskRows
    BY <1>1
  <1>5. [row EXCEPT !.hookError = "failed"] \in TaskRows
    BY <1>1
  <1>6. QED
    BY <1>2, <1>3, <1>4, <1>5

\* The last of the shards that failed with a message, if there is one, gives the
\* text of a task that fails: the report that settles it has a message only if
\* its own shard is one of them.
LEMMA TextOfFailure ==
    ASSUME NEW rows, NEW order, NEW n \in Nat, DOMAIN order = 1..n, NEW message,
           \E i \in DOMAIN rows : rows[i].status = "FAILED",
           message # NoText => Telling(rows, order) # {}
    PROVE  ExplainedBy("FAILED", resolveTaskFailureLastError(rows, order, message), rows, order)
  <1> DEFINE T == Telling(rows, order)
             text == resolveTaskFailureLastError(rows, order, message)
  <1>1. text = IF T # {} THEN rows[order[Max(T)]].lastError
               ELSE IF message # NoText THEN message ELSE DefaultText
    BY Zenon DEF resolveTaskFailureLastError, Telling
  <1>2. T \in SUBSET (0..n) /\ T \in SUBSET (1..n)
    BY DEF Telling
  <1> HIDE DEF T, text
  <1>3. T = {} => text = DefaultText
    BY <1>1, Zenon DEF T
  <1>4. ASSUME NEW k \in T, \A l \in T : l <= k PROVE text = rows[order[k]].lastError
    <2>1. Max(T) \in T /\ \A y \in T : y <= Max(T)
      BY <1>2, <1>4, GreatestElement, Zenon
    <2> DEFINE m == Max(T)
    <2>2. m \in T /\ m <= k /\ k <= m
      BY <1>4, <2>1, Zenon
    <2> HIDE DEF m
    <2>3. m \in 1..n /\ k \in 1..n
      BY <1>2, <1>4, <2>2, Zenon
    <2>4. m = k
      BY <2>2, <2>3
    <2>5. QED
      BY <1>1, <1>4, <2>4, Zenon DEF m
  <1>5. "FAILED" \in Terminal
    BY DEF Terminal
  <1>6. QED
    BY <1>3, <1>4, <1>5, Zenon DEF ExplainedBy, T, text

\* SubmitTask up to the insert.
LEMMA SubmitTyped ==
    ASSUME IndInv, TypedInv, NEW t \in Tasks,
           \/ \E name \in Tenants, url \in {"none", "valid", "invalid"}, b \in Bundles : SubmitTask(t, name, url, b)
           \/ UploadBytes(t)
    PROVE  TypedInv'
  <1>1. InvOf(t) /\ Tables /\ TypedOf(t) /\ Globals
    BY DEF IndInv, TypedInv
  <1>2. UNCHANGED <<tenants, task, shards, finished, hook, inbox, crashes>>
    BY DEF SubmitTask, UploadBytes
  <1>3. CASE \E name \in Tenants, url \in {"none", "valid", "invalid"}, b \in Bundles : SubmitTask(t, name, url, b)
    <2>1. PICK name \in Tenants, url \in {"none", "valid", "invalid"}, b \in Bundles : SubmitTask(t, name, url, b)
      BY <1>3
    <2>2. /\ stored' = stored
          /\ call' = [call EXCEPT ![t] = [at |-> "upload", tenant |-> name, url |-> url, bundle |-> b]]
      BY <2>1 DEF SubmitTask
    <2>3. Globals' /\ \A u \in Tasks \ {t} : Untouched(u)
      BY <1>1, <1>2, <2>2 DEF Tables, Globals, Untouched, Fixed
    <2>4. call'[t].tenant \in Tenants
      BY <1>1, <2>2 DEF Tables
    <2>5. TypedOf(t)'
      BY <1>1, <1>2, <2>4 DEF TypedOf, Exists
    <2>6. QED
      BY <2>3, <2>5, OneTaskTyped
  <1>4. CASE UploadBytes(t)
    <2>1. call[t].at = "upload" /\ call[t] # NoCall
      BY <1>4 DEF UploadBytes, NoCall
    <2>2. \/ stored' = stored \cup {t} /\ call' = [call EXCEPT ![t].at = "create"]
          \/ stored' = stored /\ call' = [call EXCEPT ![t].at = "answered"]
      BY <1>4 DEF UploadBytes, Answered
    <2>3. Globals' /\ \A u \in Tasks \ {t} : Untouched(u)
      BY <1>1, <1>2, <2>2 DEF Tables, Globals, Untouched, Fixed
    <2>4. call'[t].tenant = call[t].tenant
      BY <1>1, <2>1, <2>2 DEF Tables, InvOf, CallOK
    <2>5. TypedOf(t)'
      BY <1>1, <1>2, <2>1, <2>4 DEF TypedOf, Exists
    <2>6. QED
      BY <2>3, <2>5, OneTaskTyped
  <1>5. QED
    BY <1>3, <1>4

\* The insert.
LEMMA CreateTyped ==
    ASSUME IndInv, TypedInv, NEW t \in Tasks, CreateTask(t)
    PROVE  TypedInv'
  <1>1. InvOf(t) /\ Tables /\ TypedOf(t) /\ Globals
    BY DEF IndInv, TypedInv
  <1> DEFINE n == Cardinality(Scripts(call[t].bundle))
             row == [status |-> "PENDING", tenant |-> call[t].tenant, url |-> call[t].url,
                     shardCount |-> n, lastError |-> NoText, delivered |-> FALSE, hookError |-> NoText]
             rows == [i \in 1..n |-> [status |-> "QUEUED", lastError |-> NoText]]
  <1>2. /\ call[t].at = "create" /\ call[t] # NoCall /\ ~Exists(t)
        /\ DOMAIN call[t] = {"at", "tenant", "url", "bundle"} /\ call[t].url \in {"none", "valid"}
        /\ call[t].bundle \in Bundles
    BY <1>1 DEF CreateTask, CreateReady, NoCall, InvOf, CallOK
  <1>3. call' = [call EXCEPT ![t].at = "answered"] /\ UNCHANGED <<tenants, stored, finished, hook, inbox, crashes>>
    BY DEF CreateTask, Answered
  <1>4. \/ task' = [task EXCEPT ![t] = row] /\ shards' = [shards EXCEPT ![t] = rows]
        \/ UNCHANGED <<task, shards>>
    BY DEF CreateTask
  <1>5. n \in Nat /\ call[t].tenant \in Tenants /\ finished[t] = <<>> /\ hook[t] \in Hooks
    BY <1>1, <1>2, ScriptCount DEF TypedOf
  <1>6. Globals' /\ \A u \in Tasks \ {t} : Untouched(u)
    BY <1>1, <1>3, <1>4 DEF Tables, Globals, Untouched, Fixed
  <1>7. call'[t].tenant = call[t].tenant
    BY <1>1, <1>2, <1>3 DEF Tables
  <1>8. row \in TaskRows
    <2>1. NoText \in Texts
      BY ApiAssumption, Zenon DEF Texts
    <2> HIDE DEF n
    <2>2. QED
      BY <1>2, <1>5, <2>1 DEF TaskRows
  <1>9. ExplainedBy(row.status, row.lastError, rows, <<>>)
    <2>1. \A i \in DOMAIN rows : rows[i].status = "QUEUED"
      OBVIOUS
    <2>2. row.status = "PENDING"
      OBVIOUS
    <2> HIDE DEF rows, row
    <2>3. QED
      BY <2>1, <2>2, Zenon DEF ExplainedBy
  <1>10. <<>> \in Seq(DOMAIN rows) /\ <<>> \in Seq(DOMAIN shards[t])
    OBVIOUS
  <1> HIDE DEF rows, row
  <1>11. TypedOf(t)'
    <2>1. CASE task' = [task EXCEPT ![t] = row] /\ shards' = [shards EXCEPT ![t] = rows]
      <3>1. task'[t] = row /\ shards'[t] = rows /\ finished'[t] = <<>> /\ hook'[t] \in Hooks
        BY <1>1, <1>3, <1>5, <2>1 DEF Tables
      <3>2. row # NoTask
        BY DEF row, NoTask
      <3>3. QED
        BY <1>5, <1>7, <1>8, <1>9, <1>10, <3>1, <3>2 DEF TypedOf, Exists
    <2>2. CASE UNCHANGED <<task, shards>>
      BY <1>1, <1>3, <1>5, <1>7, <2>2 DEF TypedOf, Exists
    <2>3. QED
      BY <1>4, <2>1, <2>2
  <1>12. QED
    BY <1>6, <1>11, OneTaskTyped

\* The order in which the shards of t have ended, and of no other task, becomes this.
Reordered(t, order) ==
    finished'[t] = order /\ DOMAIN finished' = Tasks /\ \A u \in Tasks \ {t} : finished'[u] = finished[u]

\* A task that is not settled changes, and its shards and their order explain
\* its status and text.
LEMMA SettleTyped ==
    ASSUME IndInv, TypedInv, NEW t \in Tasks, Exists(t), task[t].status \notin Terminal,
           NEW status \in Statuses, NEW text \in Texts,
           \/ SetTask(t, status, text)
           \/ task' = [task EXCEPT ![t].status = status] /\ text = task[t].lastError
           \/ task' = task /\ status = task[t].status /\ text = task[t].lastError,
           NEW rows, DOMAIN rows = DOMAIN shards[t], Resharded(t, rows),
           NEW order \in Seq(DOMAIN rows), Reordered(t, order), ExplainedBy(status, text, rows, order),
           \/ hook' = hook
           \/ /\ status \in Terminal
              /\ dispatchCompletionHookAsync(t, newCompletionHookPayload(status, text)),
           UNCHANGED <<tenants, call, stored, inbox, crashes>>
    PROVE  TypedInv'
  <1>1. InvOf(t) /\ Tables /\ TypedOf(t) /\ Globals
    BY DEF IndInv, TypedInv
  <1>2. Rewritten(t, status, text)
    BY SetRow, Zenon
  <1>3. task[t] \in TaskRows
    BY <1>1 DEF TypedOf
  <1>4. task'[t] \in TaskRows
    <2>1. \/ task'[t] = [task[t] EXCEPT !.status = status, !.lastError = text]
          \/ task'[t] = [task[t] EXCEPT !.status = status]
          \/ task'[t] = task[t]
      BY <1>1, Zenon DEF Tables, SetTask
    <2> DEFINE row == task[t]
    <2>2. row \in TaskRows
      BY <1>3
    <2> HIDE DEF row
    <2>3. /\ [row EXCEPT !.status = status, !.lastError = text] \in TaskRows
          /\ [row EXCEPT !.status = status] \in TaskRows
      BY <2>2, RowTypes
    <2>4. QED
      BY <1>3, <2>1, <2>3, Zenon DEF row
  <1>5. /\ \A u \in Tasks \ {t} : hook'[u] = hook[u]
        /\ \/ hook'[t] = hook[t]
           \/ /\ status \in Terminal
              /\ hook'[t] = [at |-> "post", payload |-> newCompletionHookPayload(status, text)]
    BY <1>1 DEF Tables, dispatchCompletionHookAsync
  <1>6. hook'[t] \in Hooks
    <2>1. CASE hook'[t] = hook[t]
      BY <1>1, <2>1 DEF TypedOf
    <2>2. CASE hook'[t] # hook[t]
      <3> HIDE DEF Terminal, Texts
      <3>1. newCompletionHookPayload(status, text) \in Payload
        BY <1>5, <2>2 DEF newCompletionHookPayload, Payload
      <3>2. [at |-> "post", payload |-> newCompletionHookPayload(status, text)] \in [at : {"post"}, payload : Payload]
        BY <3>1
      <3>3. QED
        BY <1>5, <2>2, <3>2 DEF Hooks
    <2>3. QED
      BY <2>1, <2>2
  <1>7. Globals' /\ \A u \in Tasks \ {t} : Untouched(u)
    BY <1>1, <1>2, <1>5 DEF Globals, Untouched, Fixed, Rewritten, Resharded, Reordered
  <1>8. TypedOf(t)'
    BY <1>1, <1>2, <1>4, <1>6 DEF TypedOf, Rewritten, Resharded, Reordered
  <1>9. QED
    BY <1>7, <1>8, OneTaskTyped

\* The poller, and a report that a shard has started.
LEMMA ProgressTyped ==
    ASSUME IndInv, TypedInv, NEW t \in Tasks,
           MarkTasksStatus(t) \/ \E i \in DOMAIN shards[t] : ReportRunning(t, i)
    PROVE  TypedInv'
  <1>1. InvOf(t) /\ Tables /\ TypedOf(t) /\ Globals
    BY DEF IndInv, TypedInv
  <1>2. Exists(t) /\ task[t].status \notin Terminal /\ finished' = finished
        /\ UNCHANGED <<tenants, call, stored, inbox, crashes>> /\ hook' = hook
    BY Zenon DEF MarkTasksStatus, ReportRunning, Terminal
  <1>3. shards[t] \in Seq(ShardRows) /\ finished[t] \in Seq(DOMAIN shards[t]) /\ task[t].lastError \in Texts
    <2> HIDE DEF Texts
    <2>1. QED
      BY <1>1, <1>2 DEF InvOf, WorkOK, TypedOf, TaskRows
  <1>4. Reordered(t, finished[t])
    BY <1>1, <1>2 DEF Globals, Reordered
  <1>5. \A i \in DOMAIN shards[t] : shards[t][i].status # "CANCELLED"
    BY <1>1, <1>2 DEF TypedOf, ExplainedBy
  <1>6. CASE MarkTasksStatus(t)
    <2>1. PICK status \in {"PENDING", "WAITING_FOR_AGENTS"}, text \in {"provision failed", NoText} :
            SetTask(t, status, text)
      BY <1>6, Zenon DEF MarkTasksStatus
    <2>2. status \in Statuses /\ status \notin Terminal
      BY Zenon DEF Statuses, Terminal
    <2>3. text \in Texts
      BY ApiAssumption, Zenon DEF Texts
    <2>4. Resharded(t, shards[t])
      BY <1>1, <1>6, Zenon DEF MarkTasksStatus, Resharded, Tables
    <2>5. ExplainedBy(status, text, shards[t], finished[t])
      <3>1. status # "CANCELLED" /\ status # "SUCCEEDED" /\ status # "FAILED"
        BY <2>2, Zenon DEF Terminal
      <3>2. QED
        BY <1>5, <3>1, Zenon DEF ExplainedBy
    <2>6. QED
      BY <1>2, <1>3, <1>4, <2>1, <2>2, <2>3, <2>4, <2>5, SettleTyped, Zenon
  <1>7. CASE \E i \in DOMAIN shards[t] : ReportRunning(t, i)
    <2>1. PICK i \in DOMAIN shards[t] : ReportRunning(t, i)
      BY <1>7
    <2> DEFINE rows == [shards[t] EXCEPT ![i].status = "RUNNING"]
    <2>2. Resharded(t, rows)
      BY <1>1, <2>1 DEF ReportRunning, Resharded, Tables
    <2>3. task' = [task EXCEPT ![t].status = "RUNNING"]
      BY <2>1 DEF ReportRunning
    <2>4. DOMAIN rows = DOMAIN shards[t]
      OBVIOUS
    <2>5. \A j \in DOMAIN rows : rows[j].status # "CANCELLED"
      <3>1. ASSUME NEW j \in DOMAIN shards[t] PROVE rows[j].status # "CANCELLED"
        <4>1. shards[t][j] \in ShardRows
          BY <1>3
        <4>2. DOMAIN shards[t][j] = {"status", "lastError"}
          BY <4>1 DEF ShardRows
        <4>3. rows[j] = IF i = j THEN [shards[t][j] EXCEPT !.status = "RUNNING"] ELSE shards[t][j]
          OBVIOUS
        <4>4. QED
          BY <1>5, <4>2, <4>3
      <3>2. QED
        BY <2>4, <3>1
    <2> HIDE DEF rows
    <2>6. "RUNNING" \in Statuses /\ "RUNNING" \notin Terminal
      BY DEF Statuses, Terminal
    <2>7. ExplainedBy("RUNNING", task[t].lastError, rows, finished[t])
      BY <2>5, <2>6 DEF ExplainedBy
    <2>8. QED
      BY <1>2, <1>3, <1>4, <2>2, <2>3, <2>4, <2>6, <2>7, SettleTyped, Zenon
  <1>8. QED
    BY <1>6, <1>7

\* A report that a shard has ended; the message of a shard that succeeded is
\* empty.
LEMMA EndTyped ==
    ASSUME IndInv, TypedInv, NEW t \in Tasks, NEW i \in DOMAIN shards[t], NEW status \in {"SUCCEEDED", "FAILED"},
           NEW message \in Messages, status = "SUCCEEDED" => message = NoText,
           ReportEnded(t, i, status, message)
    PROVE  TypedInv'
  <1> DEFINE rows == [shards[t] EXCEPT ![i] = [status |-> status, lastError |-> message]]
             order == Append(finished[t], i)
             outcome == IF \E j \in DOMAIN rows : rows[j].status = "FAILED" THEN "FAILED" ELSE "SUCCEEDED"
             text == IF outcome = "FAILED" THEN resolveTaskFailureLastError(rows, order, message) ELSE NoText
  <1>1. InvOf(t) /\ Tables /\ TypedOf(t) /\ Globals
    BY DEF IndInv, TypedInv
  <1>2. /\ Exists(t) /\ task[t].status \notin Terminal /\ shards' = [shards EXCEPT ![t] = rows]
        /\ UNCHANGED <<tenants, call, stored, inbox, crashes>> /\ finished' = [finished EXCEPT ![t] = order]
        /\ \/ /\ SetTask(t, outcome, text) /\ \A j \in DOMAIN rows : rows[j].status \in Terminal
              /\ dispatchCompletionHookAsync(t, newCompletionHookPayload(outcome, text))
           \/ task' = task /\ hook' = hook
    BY DEF ReportEnded
  <1>3. shards[t] \in Seq(ShardRows) /\ finished[t] \in Seq(DOMAIN shards[t]) /\ task[t] \in TaskRows
    BY <1>1, <1>2 DEF InvOf, WorkOK, TypedOf
  <1>4. DOMAIN rows = DOMAIN shards[t]
    OBVIOUS
  <1>5. /\ rows[i].status = status /\ rows[i].lastError = message
        /\ \A j \in DOMAIN shards[t] \ {i} : rows[j] = shards[t][j]
    OBVIOUS
  <1>6. Resharded(t, rows) /\ Reordered(t, order)
    BY <1>1, <1>2 DEF Resharded, Reordered, Tables, Globals
  <1> DEFINE m == Len(finished[t])
  <1>7. /\ order \in Seq(DOMAIN shards[t]) /\ m + 1 \in Nat /\ DOMAIN order = 1..(m + 1)
        /\ order[m + 1] = i /\ m + 1 \in DOMAIN order
    <2> DEFINE D == DOMAIN shards[t]
               f == finished[t]
    <2>1. f \in Seq(D) /\ i \in D /\ m = Len(f) /\ order = Append(f, i)
      BY <1>3
    <2> HIDE DEF D, f, m, order
    <2>2. m \in Nat /\ order \in Seq(D) /\ Len(order) = m + 1 /\ order[m + 1] = i
      BY <2>1
    <2>3. DOMAIN order = 1..(m + 1)
      BY <2>2
    <2>4. m + 1 \in Nat /\ m + 1 \in 1..(m + 1)
      BY <2>2
    <2>5. QED
      BY <2>2, <2>3, <2>4 DEF D
  <1>8. \A j \in DOMAIN shards[t] : shards[t][j].status # "CANCELLED"
    BY <1>1, <1>2 DEF TypedOf, ExplainedBy
  <1>9. \A j \in DOMAIN rows : rows[j].status # "CANCELLED"
    BY <1>4, <1>5, <1>8
  <1>10. \A j \in DOMAIN rows : rows[j].lastError \in Messages
    <2>1. ASSUME NEW j \in DOMAIN shards[t] PROVE shards[t][j].lastError \in Messages
      <3>1. shards[t][j] \in ShardRows
        BY <1>3
      <3> HIDE DEF Terminal
      <3>2. QED
        BY <3>1 DEF ShardRows
    <2>2. QED
      BY <1>4, <1>5, <2>1
  <1> HIDE DEF rows, order, m
  <1>11. CASE /\ SetTask(t, outcome, text) /\ \A j \in DOMAIN rows : rows[j].status \in Terminal
              /\ dispatchCompletionHookAsync(t, newCompletionHookPayload(outcome, text))
    <2>1. message # NoText => Telling(rows, order) # {}
      <3>1. message # NoText => m + 1 \in Telling(rows, order)
        BY <1>5, <1>7, Zenon DEF Telling
      <3>2. QED
        BY <3>1
    <2>2. ExplainedBy(outcome, text, rows, order) /\ outcome \in Terminal /\ outcome \in Statuses
      <3>1. outcome \in {"SUCCEEDED", "FAILED"}
        OBVIOUS
      <3>2. outcome \in Terminal /\ outcome \in Statuses
        BY <3>1 DEF Terminal, Statuses
      <3>3. CASE \E j \in DOMAIN rows : rows[j].status = "FAILED"
        <4>1. ExplainedBy("FAILED", resolveTaskFailureLastError(rows, order, message), rows, order)
          BY <1>7, <2>1, <3>3, TextOfFailure
        <4>2. QED
          BY <3>2, <3>3, <4>1, Zenon
      <3>4. CASE ~\E j \in DOMAIN rows : rows[j].status = "FAILED"
        <4>1. \A j \in DOMAIN rows : rows[j].status = "SUCCEEDED"
          BY <1>9, <1>11, <3>4, Zenon DEF Terminal
        <4>2. outcome = "SUCCEEDED" /\ text = NoText
          BY <3>4
        <4>3. QED
          BY <3>2, <4>1, <4>2 DEF ExplainedBy
      <3>5. QED
        BY <3>3, <3>4
    <2>3. text \in Texts
      <3>1. NoText \in Texts /\ DefaultText \in Texts /\ message \in Texts
        BY ApiAssumption, Zenon DEF Texts
      <3> DEFINE T == Telling(rows, order)
      <3>2. text = NoText \/ text = DefaultText \/ text = message \/ (T # {} /\ text = rows[order[Max(T)]].lastError)
        BY Zenon DEF resolveTaskFailureLastError, Telling
      <3>3. T \in SUBSET (0..(m + 1)) /\ T \subseteq DOMAIN order
        BY <1>7 DEF Telling
      <3> HIDE DEF T, text
      <3>4. T # {} => rows[order[Max(T)]].lastError \in Texts
        <4>1. SUFFICES ASSUME T # {} PROVE rows[order[Max(T)]].lastError \in Texts
          OBVIOUS
        <4>2. Max(T) \in T
          BY <1>7, <3>3, <4>1, GreatestElement, Zenon
        <4>3. order[Max(T)] \in DOMAIN rows
          BY <1>4, <1>7, <3>3, <4>2
        <4>4. QED
          BY <1>10, <4>3, Zenon DEF Texts
      <3>5. QED
        BY <3>1, <3>2, <3>4, Zenon
    <2> HIDE DEF outcome, text
    <2>4. QED
      BY <1>2, <1>4, <1>6, <1>7, <1>11, <2>2, <2>3, SettleTyped, Zenon
  <1>12. CASE task' = task /\ hook' = hook
    <2>1. task[t].status \in Statuses /\ task[t].lastError \in Texts
      <3> HIDE DEF Texts
      <3>1. QED
        BY <1>3 DEF TaskRows, Statuses
    <2>2. ExplainedBy(task[t].status, task[t].lastError, rows, order)
      <3>1. task[t].status # "CANCELLED" /\ task[t].status # "SUCCEEDED" /\ task[t].status # "FAILED"
        BY <1>2, Zenon DEF Terminal
      <3>2. QED
        BY <1>9, <3>1, Zenon DEF ExplainedBy
    <2>3. QED
      BY <1>2, <1>4, <1>6, <1>7, <1>12, <2>1, <2>2, SettleTyped, Zenon
  <1>13. QED
    BY <1>2, <1>11, <1>12

\* The tenant cancels the task: whatever its shards were, no text is left.
LEMMA CancelTyped ==
    ASSUME IndInv, TypedInv, NEW t \in Tasks, NEW name, CancelTask(name, t)
    PROVE  TypedInv'
  <1> DEFINE rows == [i \in DOMAIN shards[t] |-> IF shards[t][i].status \in Terminal THEN shards[t][i]
                                                ELSE [shards[t][i] EXCEPT !.status = "CANCELLED"]]
  <1>1. InvOf(t) /\ Tables /\ TypedOf(t) /\ Globals
    BY DEF IndInv, TypedInv
  <1>2. /\ Exists(t) /\ task[t].status \notin Terminal /\ SetTask(t, "CANCELLED", NoText)
        /\ dispatchCompletionHookAsync(t, newCompletionHookPayload("CANCELLED", NoText))
        /\ UNCHANGED <<tenants, call, stored, inbox, crashes>> /\ finished' = finished
    BY DEF CancelTask, CancelTaskById
  <1>3. Resharded(t, rows) /\ Reordered(t, finished[t])
    BY <1>1, <1>2 DEF CancelTask, Resharded, Reordered, Tables, Globals
  <1>4. DOMAIN rows = DOMAIN shards[t]
    OBVIOUS
  <1> HIDE DEF rows
  <1>5. finished[t] \in Seq(DOMAIN rows)
    BY <1>1, <1>4 DEF TypedOf
  <1>6. "CANCELLED" \in Statuses /\ "CANCELLED" \in Terminal
    BY DEF Statuses, Terminal
  <1>7. NoText \in Texts
    BY ApiAssumption, Zenon DEF Texts
  <1>8. ExplainedBy("CANCELLED", NoText, rows, finished[t])
    BY <1>6 DEF ExplainedBy
  <1>9. QED
    BY <1>2, <1>3, <1>4, <1>5, <1>6, <1>7, <1>8, SettleTyped, Zenon

\* The request to the receiver, and the record of its result.
LEMMA HookTyped ==
    ASSUME IndInv, TypedInv, NEW t \in Tasks, dispatchCompletionHook(t) \/ recordCompletionHookResult(t)
    PROVE  TypedInv'
  <1>1. InvOf(t) /\ Tables /\ TypedOf(t) /\ Globals
    BY DEF IndInv, TypedInv
  <1>2. UNCHANGED <<tenants, call, stored, shards, finished, crashes>>
    BY SMTT(30) DEF dispatchCompletionHook, recordCompletionHookResult
  <1>3. CASE dispatchCompletionHook(t)
    <2>1. PICK got \in BOOLEAN, ok \in BOOLEAN :
            /\ inbox' = IF got THEN [inbox EXCEPT ![t] = Append(@, hook[t].payload)] ELSE inbox
            /\ hook' = [hook EXCEPT ![t] = [at |-> "record", ok |-> ok]]
      BY <1>3, Zenon DEF dispatchCompletionHook
    <2>2. task' = task
      BY <1>3 DEF dispatchCompletionHook
    <2>3. hook'[t] = [at |-> "record", ok |-> ok] /\ \A u \in Tasks \ {t} : hook'[u] = hook[u] /\ inbox'[u] = inbox[u]
      BY <1>1, <2>1 DEF Tables
    <2>4. hook'[t] \in Hooks
      <3>1. [at |-> "record", ok |-> ok] \in [at : {"record"}, ok : BOOLEAN]
        OBVIOUS
      <3>2. QED
        BY <2>3, <3>1, Zenon DEF Hooks
    <2>5. Globals' /\ \A u \in Tasks \ {t} : Untouched(u)
      BY <1>1, <1>2, <2>2, <2>3 DEF Globals, Untouched, Fixed
    <2>6. TypedOf(t)'
      BY <1>1, <1>2, <2>2, <2>4 DEF TypedOf, Exists
    <2>7. QED
      BY <2>5, <2>6, OneTaskTyped
  <1>4. CASE recordCompletionHookResult(t)
    <2>1. /\ hook[t].at = "record" /\ hook' = [hook EXCEPT ![t] = NoHook] /\ inbox' = inbox
          /\ task' = [task EXCEPT ![t] = Recorded(t)] \/ task' = task
      BY <1>4, SMTT(30) DEF recordCompletionHookResult
    <2>2. hook[t] # NoHook /\ Exists(t) /\ task[t] \in TaskRows
      BY <1>1, <2>1 DEF InvOf, HookOK, NoHook, TypedOf
    <2> DEFINE row == task[t]
    <2>3. row \in TaskRows
      BY <2>2
    <2>4. Recorded(t) \in TaskRows
      <3>1. Recorded(t) \in {row, [row EXCEPT !.delivered = TRUE, !.hookError = NoText], [row EXCEPT !.hookError = "failed"]}
        BY Zenon DEF Recorded
      <3> HIDE DEF row
      <3>2. /\ [row EXCEPT !.delivered = TRUE, !.hookError = NoText] \in TaskRows
            /\ [row EXCEPT !.hookError = "failed"] \in TaskRows
        <4>1. "RUNNING" \in Statuses /\ NoText \in Texts
          BY ApiAssumption, Zenon DEF Statuses, Texts
        <4>2. QED
          BY <2>3, <4>1, RowTypes
      <3>3. QED
        BY <2>3, <3>1, <3>2, Zenon
    <2>5. Recorded(t).status = task[t].status /\ Recorded(t).lastError = task[t].lastError
      <3>1. DOMAIN task[t] = {"status", "tenant", "url", "shardCount", "lastError", "delivered", "hookError"}
        BY <1>1, <2>2 DEF InvOf, RowOK
      <3>2. QED
        BY <3>1 DEF Recorded
    <2>6. task'[t] \in TaskRows /\ task'[t].status = task[t].status /\ task'[t].lastError = task[t].lastError
      BY <1>1, <2>1, <2>2, <2>4, <2>5 DEF Tables
    <2>7. Exists(t)'
      <3>1. task[t].status # "none"
        BY <1>1, <2>2 DEF InvOf, RowOK, Statuses, Terminal
      <3>2. QED
        BY <2>6, <3>1 DEF Exists, NoTask
    <2>8. hook'[t] = NoHook /\ NoHook \in Hooks
      BY <1>1, <2>1 DEF Tables, Hooks
    <2>9. Globals' /\ \A u \in Tasks \ {t} : Untouched(u)
      BY <1>1, <1>2, <2>1 DEF Tables, Globals, Untouched, Fixed
    <2>10. TypedOf(t)'
      BY <1>1, <1>2, <2>2, <2>6, <2>7, <2>8 DEF TypedOf
    <2>11. QED
      BY <2>9, <2>10, OneTaskTyped
  <1>5. QED
    BY <1>3, <1>4

\* A tenant is created.
LEMMA TenantTyped ==
    ASSUME IndInv, TypedInv, NEW name \in Tenants, NEW n \in MaxAgents, CreateTenant(name, n)
    PROVE  TypedInv'
  <1>1. /\ UNCHANGED <<call, stored, task, shards, finished, hook, inbox, crashes>> /\ n # 0
        /\ tenants' = [m \in DOMAIN tenants \cup {name} |-> IF m = name THEN n ELSE tenants[m]]
    <2>1. n > 0 => n # 0
      BY ApiAssumption
    <2>2. QED
      BY <2>1 DEF CreateTenant, Create, PositiveAgents
  <1>2. Globals'
    BY <1>1 DEF TypedInv, Globals
  <1>3. ASSUME NEW t \in Tasks PROVE TypedOf(t)'
    BY <1>1 DEF TypedInv, TypedOf, Exists
  <1>4. QED
    BY <1>2, <1>3 DEF TypedInv

\* The process dies.
LEMMA CrashTyped ==
    ASSUME IndInv, TypedInv, Crash
    PROVE  TypedInv'
  <1>1. /\ UNCHANGED <<tenants, stored, task, shards, finished, inbox>> /\ hook' = [t \in Tasks |-> NoHook]
        /\ call' = [t \in Tasks |-> IF call[t] = NoCall THEN NoCall ELSE [call[t] EXCEPT !.at = "answered"]]
    BY DEF Crash
  <1>2. crashes' \in 0..MaxCrashes
    BY ApiAssumption DEF Crash, TypedInv, Globals
  <1>3. Globals'
    BY <1>1, <1>2 DEF TypedInv, Globals
  <1>4. ASSUME NEW t \in Tasks PROVE TypedOf(t)'
    <2>1. TypedOf(t) /\ CallOK(t)
      BY DEF IndInv, InvOf, TypedInv
    <2>2. hook'[t] = NoHook /\ NoHook \in Hooks
      BY <1>1 DEF Hooks
    <2>3. call'[t] # NoCall => call'[t].tenant \in Tenants
      BY <1>1, <2>1 DEF TypedOf, CallOK
    <2>4. QED
      BY <1>1, <2>1, <2>2, <2>3 DEF TypedOf, Exists
  <1>5. QED
    BY <1>3, <1>4 DEF TypedInv

\* TypedInv holds in every reachable state.
LEMMA TypedInductive == Spec => []TypedInv
  <1>1. Init => TypedInv
    <2> SUFFICES ASSUME Init PROVE TypedInv
      OBVIOUS
    <2>1. Globals
      BY ApiAssumption DEF Init, Globals
    <2>2. ASSUME NEW t \in Tasks PROVE TypedOf(t)
      <3>1. /\ call[t] = NoCall /\ task[t] = NoTask /\ shards[t] = <<>> /\ finished[t] = <<>> /\ hook[t] = NoHook
        BY DEF Init
      <3>2. QED
        BY <3>1 DEF TypedOf, Exists, Hooks
    <2>3. QED
      BY <2>1, <2>2 DEF TypedInv
  <1>2. IndInv /\ TypedInv /\ [Next]_vars => TypedInv'
    <2> SUFFICES ASSUME IndInv, TypedInv, [Next]_vars PROVE TypedInv'
      OBVIOUS
    <2>1. CASE \E name \in Tenants, n \in MaxAgents : CreateTenant(name, n)
      BY <2>1, TenantTyped
    <2>2. ASSUME NEW t \in Tasks,
                 \/ \E name \in Tenants, url \in {"none", "valid", "invalid"}, b \in Bundles :
                      SubmitTask(t, name, url, b)
                 \/ UploadBytes(t) \/ CreateTask(t) \/ MarkTasksStatus(t)
                 \/ \E i \in DOMAIN shards[t] :
                      \/ ReportRunning(t, i)
                      \/ ReportEnded(t, i, "SUCCEEDED", NoText)
                      \/ \E message \in Messages : ReportEnded(t, i, "FAILED", message)
                 \/ \E name \in Tenants : CancelTask(name, t)
                 \/ dispatchCompletionHook(t) \/ recordCompletionHookResult(t)
          PROVE  TypedInv'
      <3>1. CASE \E i \in DOMAIN shards[t] : ReportEnded(t, i, "SUCCEEDED", NoText)
        BY <3>1, EndTyped, ApiAssumption
      <3>2. CASE \E i \in DOMAIN shards[t], message \in Messages : ReportEnded(t, i, "FAILED", message)
        BY <3>2, EndTyped
      <3>3. QED
        BY <2>2, <3>1, <3>2, SubmitTyped, CreateTyped, ProgressTyped, CancelTyped, HookTyped, SMTT(30)
    <2>3. CASE Crash
      BY <2>3, CrashTyped
    <2>4. CASE UNCHANGED vars
      <3>1. Globals'
        BY <2>4 DEF vars, TypedInv, Globals
      <3>2. ASSUME NEW t \in Tasks PROVE TypedOf(t)'
        BY <2>4 DEF vars, TypedInv, TypedOf, Exists
      <3>3. QED
        BY <3>1, <3>2 DEF TypedInv
    <2>5. QED
      BY <2>1, <2>2, <2>3, <2>4 DEF Next
  <1>3. QED
    BY <1>1, <1>2, Inductive, PTL DEF Spec

\* Every variable keeps its type: in particular no tenant has zero agents, and
\* the error text of a task is a message of an agent, the text of a failed
\* provisioning or the default.
THEOREM ApiTypes == Spec => []TypeOK
  <1>1. IndInv /\ TypedInv => TypeOK
    <2> SUFFICES ASSUME IndInv, TypedInv PROVE TypeOK
      OBVIOUS
    <2>1. ASSUME NEW t \in Tasks
          PROVE  /\ call[t].at \in {"none", "upload", "create", "answered"}
                 /\ Exists(t) => task[t] \in TaskRows
                 /\ shards[t] \in Seq([status : {"QUEUED", "RUNNING"} \cup Terminal, lastError : Messages])
                 /\ finished[t] \in Seq(DOMAIN shards[t])
                 /\ hook[t] \in {NoHook} \cup [at : {"post"}, payload : Payload] \cup [at : {"record"}, ok : BOOLEAN]
                 /\ inbox[t] \in Seq(Payload)
      <3>1. InvOf(t) /\ TypedOf(t)
        BY DEF IndInv, TypedInv
      <3>2. inbox[t] \in Seq(Payload)
        <4>1. CASE inbox[t] = <<>>
          BY <4>1
        <4>2. CASE inbox[t] # <<>>
          <5>1. /\ inbox[t] = <<newCompletionHookPayload(task[t].status, task[t].lastError)>>
                /\ Exists(t) /\ task[t].status \in Terminal
            BY <3>1, <4>2 DEF InvOf, HookOK
          <5> HIDE DEF Texts, Terminal
          <5>2. task[t].lastError \in Texts
            BY <3>1, <5>1 DEF TypedOf, TaskRows
          <5>3. newCompletionHookPayload(task[t].status, task[t].lastError) \in Payload
            BY <5>1, <5>2 DEF newCompletionHookPayload, Payload
          <5>4. QED
            BY <5>1, <5>3
        <4>3. QED
          BY <4>1, <4>2
      <3>3. QED
        BY <3>1, <3>2 DEF InvOf, CallOK, WorkOK, ShardRows, TypedOf, Hooks
    <2>2. QED
      BY <2>1 DEF TypedInv, Globals, TypeOK
  <1>2. QED
    BY <1>1, Inductive, TypedInductive, PTL

\* However many shards fail and in whatever order, with or without a message, a
\* task that failed carries the message of the last one that gave one, and a
\* task that succeeded carries none.
THEOREM OutcomeIsExplained == Spec => []OutcomeExplained
  <1>1. TypedInv => OutcomeExplained
    <2> SUFFICES ASSUME TypedInv PROVE OutcomeExplained
      OBVIOUS
    <2>1. ASSUME NEW t \in Tasks, Exists(t)
          PROVE  ExplainedBy(task[t].status, task[t].lastError, shards[t], finished[t])
      BY <2>1 DEF TypedInv, TypedOf
    <2>2. QED
      BY <2>1, Zenon DEF OutcomeExplained, ExplainedBy, Telling
  <1>2. QED
    BY <1>1, TypedInductive, PTL

\* CancelTaskById clears last_error, and nothing writes it afterwards.
CancelledHasNoText ==
    \A t \in Tasks : Exists(t) /\ task[t].status = "CANCELLED" => task[t].lastError = NoText

\* The row of a cancelled task, and so its completion hook, carries no text that
\* would say why it was cancelled, nor one that an earlier failure left.
THEOREM CancelledIsSilent == Spec => []CancelledHasNoText
  <1>1. TypedInv => CancelledHasNoText
    BY Zenon DEF TypedInv, TypedOf, ExplainedBy, CancelledHasNoText
  <1>2. QED
    BY <1>1, TypedInductive, PTL
=============================================================================
