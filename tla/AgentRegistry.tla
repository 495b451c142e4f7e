--------------------------- MODULE AgentRegistry ---------------------------
(***************************************************************************)
(* What the server remembers of one agent: its entry in the registry       *)
(* (internal/service/agent_service), its heartbeat and grace timers, and   *)
(* its control streams (internal/control).  Entries of different agents    *)
(* are independent, so one agent shows every race.                         *)
(*                                                                         *)
(* Three kinds of goroutine touch the entry: the handler of each control   *)
(* stream, the callbacks of fired timers, and NotifyCancelShard on behalf  *)
(* of CancelTask.  mu and timerMu are taken one after the other and        *)
(* released in between, so an action is one critical section of either, or *)
(* one service call.  Of the database only the shards recorded as active   *)
(* for the agent matter here (held), and a service call is one step: what  *)
(* its statements do is TaskStore's subject.                               *)
(***************************************************************************)
CONSTANTS
    Shards, NoShard,
    Streams, NoStream,   \* control streams; a closed one is used again
    Callbacks            \* bound on timer callbacks that run at once

ASSUME RegistryAssumption == NoShard \notin Shards /\ NoStream \notin Streams

VARIABLES
    agent,     \* agents[agentID]: Status, PreDisconnectStatus, CurrentShardID
    fresh,     \* less than heartbeatTimeout has passed since LastHeartbeatAt
    slot,      \* the timer in timers[agentID]
    leaked,    \* running timers that are no longer in the map
    callback,  \* goroutines running a timer's function
    session,   \* goroutines running OpenControlStream
    streams,   \* server.streams[agentID]
    notify,    \* the stream NotifyCancelShard has loaded
    client,    \* the stream the agent itself is using
    opened,    \* streams whose response headers have reached the agent
    held       \* shards LEASED or RUNNING in the database for this agent

registry == <<agent, fresh>>
clock == <<slot, leaked>>
link == <<client, opened>>
vars == <<agent, fresh, slot, leaked, callback, session, streams, notify, client, opened, held>>

Connected == {"IDLE", "RUNNING"}
Status == {"ABSENT", "UNRESPONSIVE", "DISCONNECTED", "TIMED_OUT"} \cup Connected
Timer == {"heartbeat", "grace"}
Idle == [step |-> "idle", grace |-> FALSE, shard |-> NoShard]
Closed == [step |-> "closed", shard |-> NoShard]

-----------------------------------------------------------------------------
(* agent_service: critical sections of mu *)

HeartbeatAgentMutant(status, shard) ==
    /\ agent' = [agent EXCEPT !.shard = shard,
                  !.status = IF agent.status = "TIMED_OUT" THEN agent.status ELSE status]
    /\ fresh' = TRUE
HeartbeatAgent(status, shard) ==
    /\ agent' = [agent EXCEPT !.status = status, !.shard = shard]
    /\ fresh' = TRUE

\* RegisterAgent refuses a second stream while the agent is IDLE or RUNNING.
MayRegisterMutant == agent.status \notin Connected \cup {"TIMED_OUT"}
MayRegister == agent.status \notin Connected
Recovered == IF agent.pre = "RUNNING" THEN "RUNNING" ELSE "IDLE"

\* PreDisconnectStatus keeps RUNNING and turns everything else into IDLE.
DisconnectedStatusMutant == agent.status
DisconnectedStatus == IF agent.status = "RUNNING" THEN "RUNNING" ELSE "IDLE"

(* agent_service: critical sections of timerMu *)

\* ResetHeartbeat and BeginGrace: stop the timer in the map, start another.
Arm(t) == slot' = t /\ UNCHANGED leaked

-----------------------------------------------------------------------------
(* Timer callbacks *)

Run(c, step, shard) ==
    callback' = [callback EXCEPT ![c].step = step, ![c].shard = shard]
Finish(c) == callback' = [callback EXCEPT ![c] = Idle]

Running == leaked \cup ({slot} \ {"off"})

\* A timer fires.  A grace period outlasts the one instruction between BeginGrace
\* and DisconnectAgent.
\* (leaked is a set: one of its members may stand for several timers.)
Fire(t, c) ==
    /\ callback[c].step = "idle"
    /\ t = "grace" => \A i \in Streams : session[i].step # "disconnect"
    /\ \/ t = slot /\ slot' = "off" /\ UNCHANGED leaked
       \/ t \in leaked /\ leaked' \in {leaked, leaked \ {t}} /\ UNCHANGED slot
    /\ callback' = [callback EXCEPT ![c] =
                      [step |-> "fired", grace |-> t = "grace", shard |-> NoShard]]
    /\ UNCHANGED <<registry, session, streams, notify, link, held>>

\* heartbeatTimeout has passed since LastHeartbeatAt.  That is no later than the
\* next heartbeat timer fires, unless a handler has called HeartbeatAgent, and
\* not ResetHeartbeat, since that timer was started: so it may come at any time.
Silence ==
    /\ fresh
    /\ fresh' = FALSE
    /\ UNCHANGED <<agent, clock, callback, session, streams, notify, link, held>>

\* delete(timers, agentID), whichever timer is in the map by now.
DeleteTimer(c) ==
    /\ callback[c].step = "fired"
    /\ slot' = "off" /\ leaked' = Running
    /\ Run(c, "check", NoShard)
    /\ UNCHANGED <<registry, session, streams, notify, link, held>>

\* The stale-callback guard of onHeartbeatTimeout.
Stale == fresh

OnHeartbeatTimeout(c) ==
    /\ callback[c].step = "check" /\ ~callback[c].grace
    /\ \/ /\ Stale
          /\ Run(c, "rearm", NoShard) /\ UNCHANGED agent
       \/ /\ ~Stale /\ agent.status \in {"DISCONNECTED", "TIMED_OUT"}
          /\ Finish(c) /\ UNCHANGED agent
       \/ /\ ~Stale /\ agent.status = "UNRESPONSIVE"
          /\ agent' = [agent EXCEPT !.status = "TIMED_OUT", !.shard = NoShard]
          /\ Run(c, "timeout", NoShard)
       \/ /\ ~Stale /\ agent.status \in Connected
          /\ agent' = [agent EXCEPT !.status = "UNRESPONSIVE"]
          /\ Run(c, "rearm", NoShard)
    /\ UNCHANGED <<fresh, clock, session, streams, notify, link, held>>

\* onHeartbeatTimeout's closing ResetHeartbeat, after mu is released.
RearmMutant(c) ==
    /\ callback[c].step = "rearm"
    /\ Finish(c)
    /\ UNCHANGED <<registry, clock, session, streams, notify, link, held>>
Rearm(c) ==
    /\ callback[c].step = "rearm"
    /\ Arm("heartbeat")
    /\ Finish(c)
    /\ UNCHANGED <<registry, session, streams, notify, link, held>>

OnGraceExpired(c) ==
    /\ callback[c].step = "check" /\ callback[c].grace
    /\ IF agent.status = "DISCONNECTED" THEN Run(c, "timeout", NoShard) ELSE Finish(c)
    /\ UNCHANGED <<registry, clock, session, streams, notify, link, held>>

\* After the rollback, HandleAgentTimeout marks a grace_expired agent.
AfterRollback(c) ==
    IF callback[c].grace THEN Run(c, "expire", NoShard) ELSE Finish(c)

\* HandleAgentTimeout reads CurrentShardID ...
HandleAgentTimeout(c) ==
    /\ callback[c].step = "timeout"
    /\ IF agent.shard # NoShard THEN Run(c, "rollback", agent.shard) ELSE AfterRollback(c)
    /\ UNCHANGED <<registry, clock, session, streams, notify, link, held>>

\* ... puts that shard back (an error is only logged) ...
RollbackTimedOutShard(c) ==
    /\ callback[c].step = "rollback"
    /\ held' \in {held, held \ {callback[c].shard}}
    /\ AfterRollback(c)
    /\ UNCHANGED <<registry, clock, session, streams, notify, link>>

\* ... and for a grace timer marks the agent, assuming nothing has changed.
MarkTimedOut(c) ==
    /\ callback[c].step = "expire"
    /\ HeartbeatAgent("TIMED_OUT", NoShard)
    /\ Finish(c)
    /\ UNCHANGED <<clock, session, streams, notify, link, held>>

-----------------------------------------------------------------------------
(* Control streams *)

Proceed(i, step, shard) == session' = [session EXCEPT ![i] = [step |-> step, shard |-> shard]]

\* OpenControlStream registers the agent ...
RegisterAgent(i) ==
    /\ client = NoStream /\ session[i].step = "closed"
    /\ MayRegister
    /\ agent' = [status |-> Recovered, pre |-> "none", shard |-> agent.shard]
    /\ fresh' = TRUE
    /\ client' = i
    /\ Proceed(i, "announce", NoShard)
    /\ UNCHANGED <<clock, callback, streams, notify, opened, held>>

\* ... or refuses it and ends the stream at once: the agent backs off and tries
\* again.
RefuseRegister(i) ==
    /\ client = NoStream /\ session[i].step = "closed"
    /\ ~MayRegister
    /\ UNCHANGED vars

\* CancelTimer, ResetHeartbeat and streams.Store.  They are three critical
\* sections, but no other goroutine can act on the difference: the first is
\* undone by the second, and whoever touches both the timer and the stream
\* (the clean-up below) does so in the opposite order.
AnnounceStream(i) ==
    /\ session[i].step = "announce"
    /\ Arm("heartbeat")
    /\ streams' = i
    /\ Proceed(i, "ready", NoShard)
    /\ UNCHANGED <<registry, callback, notify, link, held>>

\* HandleReconnectedAgent: a RUNNING agent is reset to IDLE and its shards are
\* put back (an error is only logged); an IDLE one is given work.
HandleReconnectedAgent(i) ==
    \/ /\ session[i].step = "ready" /\ agent.status = "RUNNING"
       /\ HeartbeatAgent("IDLE", NoShard)
       /\ Proceed(i, "sweep", NoShard)
       /\ UNCHANGED <<clock, callback, streams, notify, link, held>>
    \/ /\ session[i].step = "ready" /\ agent.status # "RUNNING"
       /\ Proceed(i, IF agent.status = "IDLE" THEN "assign" ELSE "loop", NoShard)
       /\ UNCHANGED <<registry, clock, callback, streams, notify, link, held>>
    \/ /\ session[i].step = "sweep"
       /\ held' \in SUBSET held
       /\ Proceed(i, IF agent.status = "IDLE" THEN "assign" ELSE "loop", NoShard)
       /\ UNCHANGED <<registry, clock, callback, streams, notify, link>>

\* The response headers go out with the first message to the agent; until then
\* the agent waits in open_control_stream and sends nothing after Register.
Reaches(i) == opened' = IF client = i THEN opened \cup {i} ELSE opened

\* A message is handled.  One that arrived before the agent left the stream
\* may still be waiting, so the agent need not be on the stream any more.
Receive(i) == session[i].step = "loop" /\ i \in opened

\* An IDLE heartbeat first puts back every shard the agent holds.
HandleIdleHeartbeat(i) ==
    /\ Receive(i)
    /\ held' = {}
    /\ Proceed(i, "swept", NoShard)
    /\ UNCHANGED <<registry, clock, callback, streams, notify, link>>

HandleRunningHeartbeat(i, s) ==
    /\ Receive(i)
    /\ HeartbeatAgent("RUNNING", s)
    /\ Proceed(i, "beat", NoShard)
    /\ UNCHANGED <<clock, callback, streams, notify, link, held>>

\* The HeartbeatAgent calls of the handlers, each after its service call.
MarkAgent(i) ==
    /\ \/ /\ session[i].step = "swept"
          /\ HeartbeatAgent("IDLE", NoShard) /\ Proceed(i, "beatIdle", NoShard)
       \/ /\ session[i].step = "started"
          /\ HeartbeatAgent("RUNNING", session[i].shard) /\ Proceed(i, "loop", NoShard)
       \/ /\ session[i].step = "reset"
          /\ HeartbeatAgent("IDLE", NoShard) /\ Proceed(i, "assign", NoShard)
       \/ /\ session[i].step = "leased"
          /\ HeartbeatAgent("RUNNING", session[i].shard) /\ Proceed(i, "send", session[i].shard)
       \/ /\ session[i].step = "unassigned"
          /\ HeartbeatAgent("IDLE", NoShard) /\ Proceed(i, "failed", NoShard)
    /\ UNCHANGED <<clock, callback, streams, notify, link, held>>

\* HandleHeartbeat's ResetHeartbeat.
ResetHeartbeat(i) ==
    /\ session[i].step \in {"beat", "beatIdle"}
    /\ Arm("heartbeat")
    /\ Proceed(i, IF session[i].step = "beat" THEN "loop" ELSE "assign", NoShard)
    /\ UNCHANGED <<registry, callback, streams, notify, link, held>>

HandleShardStarted(i, s) ==
    /\ Receive(i) /\ s \in held
    /\ Proceed(i, "started", s)
    /\ UNCHANGED <<registry, clock, callback, streams, notify, link, held>>

\* HandleShardResultReady and HandleShardFailed: the report ends a RUNNING
\* shard; for any other the agent is reset only if it is still on that shard.
\* When the acknowledgement cannot be sent the handler returns at once.
HandleShardEnded(i, s) ==
    /\ Receive(i)
    /\ \/ /\ s \in held /\ held' = held \ {s}
          /\ \E step \in {"reset", "failed"} : Proceed(i, step, NoShard)
       \/ /\ UNCHANGED held
          /\ \E step \in {IF agent.shard = s THEN "reset" ELSE "loop", "failed"} : Proceed(i, step, NoShard)
    /\ UNCHANGED <<registry, clock, callback, streams, notify, link>>

\* TryAssignShard: LeaseNextShard finds no shard, or one for the agent.
TryAssignShard(i) ==
    /\ session[i].step = "assign"
    /\ \/ Proceed(i, "loop", NoShard) /\ UNCHANGED held
       \/ \E s \in Shards \ held : held' = held \cup {s} /\ Proceed(i, "leased", s)
    /\ UNCHANGED <<registry, clock, callback, streams, notify, link>>

\* The assignment is sent, or signing or sending it fails and the deferred
\* rollback puts the shard back; the rollback may itself fail (HandlerReturns).
SendAssignment(i) ==
    /\ session[i].step = "send"
    /\ \/ Proceed(i, "loop", NoShard) /\ Reaches(i) /\ UNCHANGED held
       \/ held' = held \ {session[i].shard} /\ Proceed(i, "unassigned", NoShard) /\ UNCHANGED opened
    /\ UNCHANGED <<registry, clock, callback, streams, notify, client>>

\* The handler returns: the stream broke or ended, a message was rejected or
\* a service call failed.  The deferred clean-up acts on the agent's id, not
\* on this stream: first streams.Delete, then BeginGrace and DisconnectAgent.
HandlerReturnsMutant(i) ==
    /\ session[i].step \in {"loop", "assign", "send", "failed"}
    /\ streams' = IF client = i THEN NoStream ELSE streams
    /\ Proceed(i, "grace", NoShard)
    /\ UNCHANGED <<registry, clock, callback, notify, link, held>>
HandlerReturns(i) ==
    /\ session[i].step \in {"loop", "assign", "send", "failed"}
    /\ streams' = NoStream
    /\ Proceed(i, "grace", NoShard)
    /\ UNCHANGED <<registry, clock, callback, notify, link, held>>

BeginGrace(i) ==
    /\ session[i].step = "grace"
    /\ Arm("grace")
    /\ Proceed(i, "disconnect", NoShard)
    /\ UNCHANGED <<registry, callback, streams, notify, link, held>>

DisconnectAgent(i) ==
    /\ session[i].step = "disconnect"
    /\ agent' = [agent EXCEPT !.status = "DISCONNECTED", !.pre = DisconnectedStatus]
    /\ session' = [session EXCEPT ![i] = Closed]
    /\ client' = IF client = i THEN NoStream ELSE client
    /\ opened' = opened \ {i}
    /\ UNCHANGED <<fresh, clock, callback, streams, notify, held>>

-----------------------------------------------------------------------------
(* The agent's side of the client, and the rest of the server *)

\* The agent loses its connection or restarts; the server may learn it late.
AgentDrops ==
    /\ client # NoStream
    /\ client' = NoStream
    /\ UNCHANGED <<registry, clock, callback, session, streams, notify, opened, held>>

\* CancelTask ends a shard and looks up the agent's stream ...
CancelHeld ==
    /\ notify = NoStream
    /\ \E s \in held : held' = held \ {s}
    /\ notify' = streams
    /\ UNCHANGED <<registry, clock, callback, session, streams, link>>

\* ... and sends on it: on an error NotifyCancelShard drops the map entry.
NotifyCancelShard ==
    /\ notify # NoStream
    /\ notify' = NoStream
    /\ \/ Reaches(notify) /\ UNCHANGED streams
       \/ client # notify /\ streams' = NoStream /\ UNCHANGED opened
    /\ UNCHANGED <<registry, clock, callback, session, client, held>>

-----------------------------------------------------------------------------
Init ==
    /\ agent = [status |-> "ABSENT", pre |-> "none", shard |-> NoShard]
    /\ fresh = FALSE
    /\ slot = "off" /\ leaked = {}
    /\ callback = [c \in Callbacks |-> Idle]
    /\ session = [i \in Streams |-> Closed]
    /\ streams = NoStream /\ notify = NoStream
    /\ client = NoStream /\ opened = {}
    /\ held = {}

TimerStep(c) ==
    \/ DeleteTimer(c) \/ OnHeartbeatTimeout(c) \/ Rearm(c) \/ OnGraceExpired(c)
    \/ HandleAgentTimeout(c) \/ RollbackTimedOutShard(c) \/ MarkTimedOut(c)

HandleHeartbeat(i) ==
    HandleIdleHeartbeat(i) \/ \E s \in Shards : HandleRunningHeartbeat(i, s)
HandleReport(i) ==
    \E s \in Shards : HandleShardStarted(i, s) \/ HandleShardEnded(i, s)

\* The steps of a stream's handler.
StreamStep(i) ==
    \/ AnnounceStream(i) \/ HandleReconnectedAgent(i)
    \/ HandleHeartbeat(i) \/ HandleReport(i) \/ MarkAgent(i) \/ ResetHeartbeat(i) \/ TryAssignShard(i)
    \/ SendAssignment(i) \/ HandlerReturns(i)
    \/ BeginGrace(i) \/ DisconnectAgent(i)

Next ==
    \/ \E t \in Running, c \in Callbacks : Fire(t, c)
    \/ \E c \in Callbacks : TimerStep(c)
    \/ \E i \in Streams : RegisterAgent(i) \/ RefuseRegister(i) \/ StreamStep(i)
    \/ Silence \/ AgentDrops \/ CancelHeld \/ NotifyCancelShard

Spec == Init /\ [][Next]_vars

\* Timers fire, callbacks and handlers run on, an agent that has lost its
\* stream tries again and finds a free one, a stream the agent has left ends
\* (gRPC keepalive), and an agent on an opened stream heartbeats.  The handler of a
\* busy stream is often elsewhere, hence strong fairness for what it must do
\* again and again.
Fairness ==
    /\ SF_vars(\E t \in Running, c \in Callbacks : Fire(t, c))
    /\ \A c \in Callbacks : WF_vars(TimerStep(c))
    /\ WF_vars(\E i \in Streams : RegisterAgent(i))
    /\ \A i \in Streams : WF_vars(session[i].step # "loop" /\ StreamStep(i))
    /\ SF_vars(\E i \in Streams : client # i /\ HandlerReturns(i))
    /\ SF_vars(\E i \in Streams : client = i /\ HandleHeartbeat(i))

LiveSpec == Spec /\ Fairness

-----------------------------------------------------------------------------
\* Type invariant.
TypeOK ==
    /\ agent \in [status : Status, pre : {"none"} \cup Connected, shard : Shards \cup {NoShard}]
    /\ fresh \in BOOLEAN
    /\ slot \in {"off"} \cup Timer /\ leaked \subseteq Timer
    /\ callback \in [Callbacks -> [step : {"idle", "fired", "check", "rearm", "timeout", "rollback", "expire"},
                                   grace : BOOLEAN, shard : Shards \cup {NoShard}]]
    /\ session \in [Streams -> [step : {"closed", "announce", "ready", "sweep", "loop", "swept", "beat",
                                        "beatIdle", "started", "reset", "assign", "leased", "send",
                                        "unassigned", "failed", "grace", "disconnect"},
                                shard : Shards \cup {NoShard}]]
    /\ {streams, notify, client} \subseteq Streams \cup {NoStream} /\ opened \subseteq Streams
    /\ held \subseteq Shards

\* An agent marked UNRESPONSIVE is never forgotten: a heartbeat timer runs for
\* it, or the callback of one has yet to check it or to start the next wait, or
\* a stream's clean-up is about to mark it DISCONNECTED.  (onHeartbeatTimeout
\* starts the second wait only after releasing mu; meanwhile other callbacks and
\* clean-ups delete, stop and replace timers by agent id.)
UnresponsiveIsWatched ==
    agent.status = "UNRESPONSIVE" =>
        \/ "heartbeat" \in Running
        \/ \E c \in Callbacks : ~callback[c].grace /\ callback[c].step \in {"fired", "check", "rearm"}
        \/ \E i \in Streams : session[i].step = "disconnect"

\* RegisterAgent refuses an agent that is IDLE or RUNNING only while one of its
\* streams is open: the clean-up of that stream will mark it DISCONNECTED.
RefusedHasStream == ~MayRegister => \E i \in Streams : session[i].step # "closed"

\* Someone is always going to act on an agent that needs it: on one that went
\* silent, a timer or its callback; on one whose entry keeps it out, a stream.
AgentIsWatched == UnresponsiveIsWatched /\ RefusedHasStream

\* The map of streams never names one whose handler has returned, or not yet
\* announced itself: handlers of overlapping streams store and delete the entry
\* by agent id, in any order, and a cancellation is sent on what they leave.
EntryIsServed ==
    streams # NoStream => session[streams].step \notin {"closed", "announce", "grace", "disconnect"}

\* A stream on which the agent heartbeats gets it out of every wrong status:
\* whatever stale timers, callbacks and clean-ups of older streams wrote, the
\* agent is again IDLE or RUNNING while it is on the stream, or it leaves the
\* stream.  (Before the first message of the server has opened the stream to
\* it, the agent sends no heartbeat and nothing repairs the entry.)
HeartbeatRepairs ==
    client \in opened ~> (client = NoStream \/ agent.status \in Connected)

\* An agent that has lost its stream is not locked out: RegisterAgent refuses
\* it while the entry says IDLE or RUNNING, and that does not last.
Readmitted == client = NoStream ~> client # NoStream

-----------------------------------------------------------------------------
(* What comments and tests say of the code *)

\* HandleAgentTimeout "rolls back the agent's shard": it finds the shard that
\* the database records for the agent.
TimeoutFindsShard ==
    \A c \in Callbacks :
        callback[c].step = "timeout" /\ (\A i \in Streams : session[i].step \in {"closed", "loop"})
            => held = {} \/ agent.shard \in held
=============================================================================
