--------------------------- MODULE ControlSession ---------------------------
(***************************************************************************)
(* One agent and the server over their control stream: the agent process   *)
(* (agent/src/control_client.rs, pending_result.rs, main.rs), the messages *)
(* in flight, the handlers of internal/control with the agent's entry in   *)
(* the registry, and the shard rows.                                       *)
(*                                                                         *)
(* The handlers read the stream one message at a time, so a message is one *)
(* step, its service calls included: TaskLifecycle shows that the calls    *)
(* act atomically, AgentRegistry what happens between their critical       *)
(* sections.  The other agents of the tenant are one environment that      *)
(* leases, ends and returns shards.  The agent opens a stream after the    *)
(* server has noticed the end of the last one; before that the server      *)
(* refuses it (AgentRegistry has the overlap of two streams).              *)
(***************************************************************************)
EXTENDS Naturals, Sequences, FiniteSets

CONSTANTS
    Shards, NoShard,
    Executions,       \* bound on execute_shard tasks that run at once
    MaxInFlight,      \* bound on messages in flight when a heartbeat is sent
    MaxFaults         \* bound on breaks, failed calls, silences, restarts

ASSUME SessionAssumption ==
    NoShard \notin Shards /\ MaxInFlight \in Nat \ {0} /\ MaxFaults \in Nat

VARIABLES
    \* the database
    shard,     \* task_shards.status
    owner,     \* task_shards.assigned_agent_id: none, this agent or another
    started,   \* shards whose started_at is set
    \* the server
    registry,  \* agents[agentID]: Status, PreDisconnectStatus, CurrentShardID
    session,   \* the goroutine running OpenControlStream
    \* the network
    up,        \* AgentMessages in flight, or waiting for the handler
    down,      \* ServerMessages in flight
    \* the agent
    client,    \* main's loop: where run_callback_loop is
    current,   \* the shard of status, NoShard for IDLE
    pending,   \* PendingResultState.shard_id
    exec,      \* spawned execute_shard tasks
    tokens,    \* executions whose CancelToken is in cancel_tokens
    \* history
    uploaded,  \* shards whose output an execution of this agent has uploaded
    faults     \* breaks, failed calls, silences and restarts so far

db == <<shard, owner, started>>
server == <<registry, session>>
agent == <<client, current, pending, exec, tokens>>
history == <<uploaded, faults>>
vars == <<shard, owner, started, registry, session, up, down,
          client, current, pending, exec, tokens, uploaded, faults>>

Active == {"LEASED", "RUNNING"}
Ended == {"SUCCEEDED", "FAILED", "CANCELLED"}
Connected == {"IDLE", "RUNNING"}

\* The messages of control.proto that change state.  ShardAccepted is only
\* logged; Drain and Shutdown are never sent.
Message(kinds) == [kind : kinds, shard : Shards \cup {NoShard}]
AgentMessage == Message({"Register", "Heartbeat", "ShardStarted", "ShardResultReady", "ShardFailed"})
ServerMessage == Message({"AssignShard", "CancelShard", "ShardResultStored"})
Msg(kind, s) == [kind |-> kind, shard |-> s]

\* A task spawned by the current stream's loop (own) holds its channel and
\* status; after the loop has returned nobody listens to them.
NoExec == [shard |-> NoShard, own |-> FALSE, cancelled |-> FALSE, reported |-> FALSE]
Busy == {e \in Executions : exec[e] # NoExec}
FreeSlot == CHOOSE e \in Executions : e \notin Busy

\* cancel_tokens maps a shard to one token: a second execution of the shard
\* replaces that of the first, and the first to end removes whichever is there.
TokensOf(s) == {e \in tokens : exec[e].shard = s}

Fault == faults < MaxFaults /\ faults' = faults + 1 /\ UNCHANGED uploaded

-----------------------------------------------------------------------------
(* The agent *)

\* run_callback_loop returns: status, tokens and channel are dropped, spawned
\* tasks run on.
LoopReturns ==
    /\ client' = "down" /\ current' = NoShard /\ down' = <<>>
    /\ exec' = [e \in Executions |-> [exec[e] EXCEPT !.own = FALSE]] /\ tokens' = {}

\* main connects, and run_callback_loop sends Register.
Connect ==
    /\ client = "down" /\ session = "none"
    /\ client' = "opening" /\ up' = <<Msg("Register", NoShard)>>
    /\ UNCHANGED <<db, server, down, current, pending, exec, tokens, history>>

\* The response headers arrive, with the first message of the server: until then
\* the agent waits in open_control_stream.  The new status is taken from the
\* pending result.
Opened ==
    /\ client = "opening" /\ down # <<>>
    /\ client' = "opened" /\ current' = pending
    /\ UNCHANGED <<db, server, up, down, pending, exec, tokens, history>>

\* A pending result is sent again and forgotten.
ResendPending ==
    /\ client = "opened"
    /\ client' = "up"
    /\ pending' = NoShard
    /\ up' = IF pending = NoShard THEN up ELSE Append(up, Msg("ShardResultReady", pending))
    /\ UNCHANGED <<db, server, down, current, exec, tokens, history>>

\* The ticker.
SendHeartbeat ==
    /\ client = "up" /\ Len(up) + Len(down) < MaxInFlight
    /\ up' = Append(up, Msg("Heartbeat", current))
    /\ UNCHANGED <<db, server, down, agent, history>>

Received(kind) == client = "up" /\ down # <<>> /\ Head(down).kind = kind

CanAcceptMutant == pending = NoShard
CanAccept == pending = NoShard /\ current = NoShard

\* AssignShard: refused with an error that ends the loop, or started.
ReceiveAssignShard ==
    LET s == Head(down).shard
    IN  /\ Received("AssignShard")
        /\ \/ /\ ~CanAccept
              /\ LoopReturns /\ UNCHANGED up
           \/ /\ CanAccept
              /\ Busy # Executions
              /\ exec' = [exec EXCEPT ![FreeSlot] = [NoExec EXCEPT !.shard = s, !.own = TRUE]]
              /\ tokens' = (tokens \ TokensOf(s)) \cup {FreeSlot}
              /\ current' = s /\ down' = Tail(down)
              /\ up' = Append(up, Msg("ShardStarted", s))
              /\ UNCHANGED client
        /\ UNCHANGED <<db, server, pending, history>>

ReceiveCancelShard ==
    /\ Received("CancelShard")
    /\ exec' = [e \in Executions |->
                  [exec[e] EXCEPT !.cancelled = @ \/ e \in TokensOf(Head(down).shard)]]
    /\ down' = Tail(down)
    /\ UNCHANGED <<db, server, up, client, current, pending, tokens, history>>

\* mark_stored, and set_status_if_current_shard.
Cleared(s) == IF current = s THEN NoShard ELSE current
ReceiveShardResultStored ==
    LET s == Head(down).shard
    IN  /\ Received("ShardResultStored")
        /\ pending' = IF pending = s THEN NoShard ELSE pending
        /\ current' = Cleared(s)
        /\ down' = Tail(down)
        /\ UNCHANGED <<db, server, up, client, exec, tokens, history>>

\* What a spawned task sends reaches the server only on its own stream.
SendFrom(e, kind) ==
    up' = IF exec[e].own THEN Append(up, Msg(kind, exec[e].shard)) ELSE up

RemoveToken(e) ==
    tokens' = IF exec[e].own THEN tokens \ TokensOf(exec[e].shard) ELSE tokens

\* execute_shard fails, or ends early because its token was cancelled, or has
\* uploaded while another result is pending: the failure is reported ...
FailureReportMutant == "ShardResultReady"
FailureReport == "ShardFailed"
ExecutionFailsMutant(e) ==
    /\ exec[e].shard # NoShard /\ ~exec[e].reported
    /\ RemoveToken(e)
    /\ exec' = [exec EXCEPT ![e] = NoExec]
    /\ UNCHANGED <<db, server, up, down, client, current, pending, history>>
ExecutionFails(e) ==
    /\ exec[e].shard # NoShard /\ ~exec[e].reported
    /\ RemoveToken(e) /\ SendFrom(e, FailureReport)
    /\ exec' = [exec EXCEPT ![e].reported = TRUE]
    /\ UNCHANGED <<db, server, down, client, current, pending, history>>

\* ... and then the status is reset.
ExecutionResets(e) ==
    /\ exec[e].reported
    /\ current' = IF exec[e].own THEN Cleared(exec[e].shard) ELSE current
    /\ exec' = [exec EXCEPT ![e] = NoExec]
    /\ UNCHANGED <<db, server, up, down, client, pending, tokens, history>>

\* The output is uploaded: set_ready, then ShardResultReady.  The status stays.
ExecutionSucceeds(e) ==
    /\ exec[e].shard # NoShard /\ ~exec[e].reported /\ pending = NoShard
    /\ pending' = exec[e].shard
    /\ uploaded' = uploaded \cup {exec[e].shard}
    /\ RemoveToken(e) /\ SendFrom(e, "ShardResultReady")
    /\ exec' = [exec EXCEPT ![e] = NoExec]
    /\ UNCHANGED <<db, server, down, client, current, faults>>

\* The stream breaks: what the server had not yet received may be lost.
StreamBreaks ==
    /\ client # "down" /\ Fault
    /\ LoopReturns
    /\ \E n \in 0..Len(up) : up' = SubSeq(up, 1, n)
    /\ UNCHANGED <<db, server, pending>>

\* The server has ended the stream, and the agent has read what came before.
StreamEnded ==
    /\ client \in {"opening", "up"} /\ session = "none" /\ down = <<>>
    /\ client = "opening" => up = <<>>
    /\ LoopReturns
    /\ UNCHANGED <<db, server, up, pending, history>>

\* The agent's container is restarted under the same name.
AgentRestarts ==
    /\ Fault
    /\ client' = "down" /\ current' = NoShard /\ pending' = NoShard
    /\ exec' = [e \in Executions |-> NoExec] /\ tokens' = {}
    /\ up' = IF session = "none" THEN <<>> ELSE up
    /\ down' = <<>>
    /\ UNCHANGED <<db, server>>

-----------------------------------------------------------------------------
(* The server *)

Own(s) == owner[s] = "self"
Held == {s \in Shards : shard[s] \in Active /\ Own(s)}

SetAgent(status, s) == registry' = [registry EXCEPT !.status = status, !.shard = s]

\* RollbackToQueued of the shards S: started_at stays.
Requeue(S) ==
    /\ shard' = [s \in Shards |-> IF s \in S THEN "QUEUED" ELSE shard[s]]
    /\ owner' = [s \in Shards |-> IF s \in S THEN "none" ELSE owner[s]]
    /\ UNCHANGED started

\* A message sent to an agent that has left goes nowhere, or cannot be sent.
Deliver(msgs) == down' = IF client = "down" THEN <<>> ELSE down \o msgs
SendFails == (client = "down" /\ UNCHANGED history) \/ Fault

\* RegisterAgent, then the timers and the stream: an agent that was RUNNING
\* when it disconnected is RUNNING again, any other is IDLE.
RecoveredMutant == registry.pre
Recovered == IF registry.pre = "RUNNING" THEN "RUNNING" ELSE "IDLE"
HandleRegister ==
    /\ session = "none" /\ up # <<>> /\ Head(up).kind = "Register"
    /\ registry' = [registry EXCEPT !.status = Recovered, !.pre = "none"]
    /\ session' = "reconnect" /\ up' = Tail(up)
    /\ UNCHANGED <<db, down, agent, history>>

\* RollbackOrphanShardsForAgent: each shard the agent holds is put back; a
\* failure is only logged.
Sweep ==
    \/ Requeue(Held) /\ UNCHANGED history
    \/ \E s \in Held : Requeue(Held \ {s}) /\ Fault

\* A RUNNING agent is reset and its shards are put back; it, or an IDLE one, is
\* given work.
HandleReconnectedAgent ==
    /\ session = "reconnect"
    /\ \/ /\ registry.status = "RUNNING"
          /\ Sweep /\ SetAgent("IDLE", NoShard) /\ session' = "assign"
       \/ /\ registry.status # "RUNNING"
          /\ session' = IF registry.status = "IDLE" THEN "assign" ELSE "loop"
          /\ UNCHANGED <<db, registry, history>>
    /\ UNCHANGED <<up, down, agent>>

Handle(kind) == session = "loop" /\ up # <<>> /\ Head(up).kind = kind /\ up' = Tail(up)

HandleHeartbeat ==
    LET s == Head(up).shard
    IN  /\ Handle("Heartbeat")
        /\ \/ /\ s = NoShard
              /\ Sweep /\ SetAgent("IDLE", NoShard) /\ session' = "assign"
           \/ /\ s # NoShard
              /\ SetAgent("RUNNING", s) /\ UNCHANGED <<db, session, history>>
        /\ UNCHANGED <<down, agent>>

\* LoadValidatedShard, and what HandleShardStarted requires besides.
Validated(s) == Own(s) \/ shard[s] \in Ended
Acceptable(m) ==
    CASE m.kind = "Heartbeat" -> TRUE
      [] m.kind = "ShardStarted" -> Validated(m.shard) /\ shard[m.shard] = "LEASED"
      [] OTHER -> Validated(m.shard)

\* The message is refused, or a service call fails: the handler returns.
Reject ==
    /\ session = "loop" /\ up # <<>>
    /\ \/ ~Acceptable(Head(up)) /\ UNCHANGED history
       \/ Fault
    /\ session' = "ending" /\ up' = Tail(up)
    /\ UNCHANGED <<db, registry, down, agent>>

HandleShardStarted ==
    LET s == Head(up).shard
    IN  /\ Handle("ShardStarted")
        /\ Acceptable(Head(up))
        /\ shard' = [shard EXCEPT ![s] = "RUNNING"]
        /\ started' = started \cup {s}
        /\ SetAgent("RUNNING", s)
        /\ UNCHANGED <<owner, session, down, agent, history>>

\* HandleShardResultReady and HandleShardFailed.  A RUNNING shard is ended;
\* otherwise the agent is reset only if it is still on this shard.  When the
\* acknowledgement cannot be sent the handler returns; the shard has ended.
HandleReport(kind, status, acks) ==
    LET s == Head(up).shard
        running == shard[s] = "RUNNING"
    IN  /\ Handle(kind)
        /\ Acceptable(Head(up))
        /\ shard' = IF running THEN [shard EXCEPT ![s] = status] ELSE shard
        /\ \/ /\ Deliver(acks)
              /\ IF running \/ registry.shard = s
                 THEN SetAgent("IDLE", NoShard) /\ session' = "assign"
                 ELSE UNCHANGED server
              /\ UNCHANGED history
           \/ /\ acks # <<>> /\ SendFails
              /\ session' = "ending"
              /\ UNCHANGED <<registry, down>>
        /\ UNCHANGED <<owner, started, agent>>

StoredMutant(s) == <<>>
Stored(s) == <<Msg("ShardResultStored", s)>>
HandleShardResultReady == HandleReport("ShardResultReady", "SUCCEEDED", Stored(Head(up).shard))
HandleShardFailed == HandleReport("ShardFailed", "FAILED", <<>>)

\* No shard is queued; or one is leased and sent; or signing or sending fails
\* and the deferred rollback, which has the context of the stream, fails too; or
\* the rollback puts the shard back; or leasing fails.
TryAssignShard ==
    LET queued == {s \in Shards : shard[s] = "QUEUED"}
    IN  /\ session = "assign"
        /\ \/ /\ queued = {}
              /\ session' = "loop"
              /\ UNCHANGED <<db, registry, down, history>>
           \/ \E s \in queued :
                /\ shard' = [shard EXCEPT ![s] = "LEASED"]
                /\ owner' = [owner EXCEPT ![s] = "self"]
                /\ SetAgent("RUNNING", s)
                /\ \/ Deliver(<<Msg("AssignShard", s)>>) /\ session' = "loop" /\ UNCHANGED history
                   \/ session' = "ending" /\ SendFails /\ UNCHANGED down
                /\ UNCHANGED started
           \/ /\ session' = "ending"
              /\ \/ queued # {} /\ SendFails /\ SetAgent("IDLE", NoShard)
                 \/ Fault /\ UNCHANGED registry
              /\ UNCHANGED <<db, down>>
        /\ UNCHANGED <<up, agent>>

\* Recv fails: the agent has left and what it sent has been handled.
ReceiveFails ==
    /\ session = "loop" /\ up = <<>> /\ client = "down"
    /\ session' = "ending"
    /\ UNCHANGED <<db, registry, up, down, agent, history>>

\* The deferred clean-up: streams.Delete, BeginGrace, DisconnectAgent.
HandlerReturns ==
    /\ session = "ending"
    /\ session' = "none" /\ up' = <<>>
    /\ registry' = [registry EXCEPT !.status = "DISCONNECTED",
                      !.pre = IF registry.status = "RUNNING" THEN "RUNNING" ELSE "IDLE"]
    /\ UNCHANGED <<db, down, agent, history>>

-----------------------------------------------------------------------------
(* Timers, clean-up, restart, cancellation, other agents *)

\* onHeartbeatTimeout: UNRESPONSIVE, then TIMED_OUT; its callback finds no
\* CurrentShardID any more.
HeartbeatTimeout ==
    /\ session # "none" /\ Fault
    /\ \/ registry.status \in Connected /\ registry' = [registry EXCEPT !.status = "UNRESPONSIVE"]
       \/ registry.status = "UNRESPONSIVE" /\ SetAgent("TIMED_OUT", NoShard)
    /\ UNCHANGED <<db, session, up, down, agent>>

\* onGraceExpired and HandleAgentTimeout: the shard the agent was on is put
\* back if it is still the agent's.
GraceExpires ==
    /\ registry.status = "DISCONNECTED" /\ session = "none"
    /\ Requeue({registry.shard} \cap Held)
    /\ SetAgent("TIMED_OUT", NoShard)
    /\ UNCHANGED <<session, up, down, agent, history>>

\* The server process dies: the registry is gone and the stream breaks.
ServerRestarts ==
    /\ Fault
    /\ registry' = [status |-> "ABSENT", pre |-> "none", shard |-> NoShard]
    /\ session' = "none" /\ up' = <<>>
    /\ UNCHANGED <<db, down, agent>>

\* CleanupOrphanShards: old started shards of an agent that has not registered.
CleanupOrphanShards ==
    /\ registry.status = "ABSENT" /\ Held \cap started # {}
    /\ Requeue(Held \cap started)
    /\ UNCHANGED <<server, up, down, agent, history>>

\* CancelTask, and NotifyCancelShard to the agent of an active shard; the
\* notice may fail.
CancelledRowMutant == "QUEUED"
CancelledRow == "CANCELLED"
CancelShard(s) ==
    /\ shard[s] \notin Ended
    /\ shard' = [shard EXCEPT ![s] = CancelledRow]
    /\ owner' = [owner EXCEPT ![s] = "none"]
    /\ started' = started \ {s}
    /\ \/ s \in Held /\ session \in {"loop", "assign", "reconnect"} /\ Deliver(<<Msg("CancelShard", s)>>)
       \/ UNCHANGED down
    /\ UNCHANGED <<server, up, agent, history>>

\* Another agent leases and starts a queued shard, and ends it or loses it.
OtherAgent(s) ==
    /\ \/ /\ shard[s] = "QUEUED"
          /\ shard' = [shard EXCEPT ![s] = "RUNNING"]
          /\ owner' = [owner EXCEPT ![s] = "other"]
          /\ started' = started \cup {s}
       \/ /\ shard[s] = "RUNNING" /\ owner[s] = "other"
          /\ \/ /\ \E status \in {"SUCCEEDED", "FAILED"} : shard' = [shard EXCEPT ![s] = status]
                /\ UNCHANGED <<owner, started>>
             \/ Requeue({s})
    /\ UNCHANGED <<server, up, down, agent, history>>

-----------------------------------------------------------------------------
Init ==
    /\ shard = [s \in Shards |-> "QUEUED"] /\ owner = [s \in Shards |-> "none"]
    /\ started = {}
    /\ registry = [status |-> "ABSENT", pre |-> "none", shard |-> NoShard]
    /\ session = "none"
    /\ up = <<>> /\ down = <<>>
    /\ client = "down" /\ current = NoShard /\ pending = NoShard
    /\ exec = [e \in Executions |-> NoExec] /\ tokens = {}
    /\ uploaded = {} /\ faults = 0

Execution(e) == ExecutionFails(e) \/ ExecutionResets(e) \/ ExecutionSucceeds(e)
Receive == ReceiveAssignShard \/ ReceiveCancelShard \/ ReceiveShardResultStored
Open == Connect \/ Opened \/ ResendPending \/ StreamEnded
HandleMessage == HandleHeartbeat \/ HandleShardStarted \/ HandleShardResultReady \/ HandleShardFailed
Serve == HandleRegister \/ HandleReconnectedAgent \/ TryAssignShard \/ ReceiveFails \/ HandlerReturns

Next ==
    \/ Open \/ SendHeartbeat \/ Receive \/ \E e \in Executions : Execution(e)
    \/ StreamBreaks \/ AgentRestarts
    \/ HandleMessage \/ Reject \/ Serve
    \/ HeartbeatTimeout \/ GraceExpires \/ ServerRestarts \/ CleanupOrphanShards
    \/ \E s \in Shards : CancelShard(s) \/ OtherAgent(s)

Spec == Init /\ [][Next]_vars

\* The agent's loop and its executions run on, and a lost stream is reopened;
\* the handler works through its messages, and the ticker keeps ticking.  Each
\* subscript names what every step of its action changes.
Fairness ==
    /\ WF_<<client, down>>(Open \/ Receive) /\ SF_up(SendHeartbeat)
    /\ \A e \in Executions : WF_exec(Execution(e))
    /\ WF_<<session, up>>(HandleMessage \/ Reject \/ Serve)

LiveSpec == Spec /\ Fairness

-----------------------------------------------------------------------------
(* Properties *)

\* Every variable holds a value of its type, and the bounds hold.
TypeOK ==
    /\ shard \in [Shards -> {"QUEUED"} \cup Active \cup Ended]
    /\ owner \in [Shards -> {"none", "self", "other"}]
    /\ started \subseteq Shards /\ uploaded \subseteq Shards
    /\ registry \in [status : {"ABSENT", "UNRESPONSIVE", "DISCONNECTED", "TIMED_OUT"} \cup Connected,
                     pre : {"none"} \cup Connected, shard : Shards \cup {NoShard}]
    /\ session \in {"none", "reconnect", "assign", "loop", "ending"}
    /\ up \in Seq(AgentMessage) /\ down \in Seq(ServerMessage)
    /\ client \in {"down", "opening", "opened", "up"}
    /\ current \in Shards \cup {NoShard} /\ pending \in Shards \cup {NoShard}
    /\ exec \in [Executions -> [shard : Shards \cup {NoShard}, own : BOOLEAN,
                                cancelled : BOOLEAN, reported : BOOLEAN]]
    /\ tokens \subseteq Executions
    /\ faults \in 0..MaxFaults

\* The agent runs at most one shard per stream, the one it reports in its
\* heartbeats, although assignments, acknowledgements and the ends of
\* executions change its status from different tasks.  The exception is a shard
\* it runs again after it has uploaded the output of an earlier run: the late
\* acknowledgement of that run frees the agent.
RunsWhatItReports ==
    \A e, f \in Executions :
        exec[e].own /\ exec[e].shard \notin uploaded =>
            /\ current = exec[e].shard
            /\ exec[f].own /\ exec[f].shard \notin uploaded => e = f

\* A shard this agent ends as SUCCEEDED has its output in the object store,
\* whatever was lost, sent again or rolled back before.
SuccessHasOutput ==
    [][\A s \in Shards :
         shard[s] = "RUNNING" /\ owner[s] = "self" /\ shard'[s] = "SUCCEEDED" => s \in uploaded]_vars

\* An execution is stopped only for a shard that was cancelled, although the
\* notice names the shard and not the attempt.
StopsOnlyCancelled ==
    \A e \in Executions : exec[e].cancelled => shard[exec[e].shard] = "CANCELLED"

\* A busy agent is never left waiting for nothing: it runs the shard it reports,
\* or its result is on the way to the server, or the acknowledgement on the way
\* back, or the server has ended the stream.  (The status outlives the execution:
\* only the acknowledgement, which a handler that refuses the result does not
\* send, resets it.)
BusyIsWatched ==
    client = "up" /\ current # NoShard =>
        \/ \E e \in Executions : exec[e].own /\ exec[e].shard = current
        \/ \E i \in 1..Len(up) : up[i] = Msg("ShardResultReady", current)
        \/ \E i \in 1..Len(down) : down[i] = Msg("ShardResultStored", current)
        \/ session \in {"none", "ending"}

\* A busy agent becomes free again: each result it reports is acknowledged, or
\* the stream ends and the next one starts without it.
AgentFreed == current # NoShard ~> current = NoShard

\* A shard leased to the agent does not stay with it for ever: it ends, or a
\* sweep puts it back, whichever messages were lost on the way.  The exception
\* is an agent for which the server never has a message: it waits for ever for
\* its stream to open, and sends no heartbeat that would free the shard.
LeaseResolved ==
    \A s \in Shards : <>[](client = "opening") \/ (s \in Held ~> s \notin Held)
=============================================================================
