------------------------ MODULE AgentRegistryProofs ------------------------
(***************************************************************************)
(* An agent marked UNRESPONSIVE is watched, however many streams, timers   *)
(* and callbacks interleave.                                               *)
(***************************************************************************)
EXTENDS AgentRegistry, TLAPS

\* The conjuncts of TypeOK, one per goroutine's state.
EntryOK ==
    /\ agent \in [status : Status, pre : {"none"} \cup Connected, shard : Shards \cup {NoShard}]
    /\ fresh \in BOOLEAN
ClockOK == slot \in {"off"} \cup Timer /\ leaked \subseteq Timer
CallbackSteps == {"idle", "fired", "check", "rearm", "timeout", "rollback", "expire"}
CallbackOK ==
    callback \in [Callbacks -> [step : CallbackSteps, grace : BOOLEAN, shard : Shards \cup {NoShard}]]
SessionSteps ==
    {"closed", "announce", "ready", "sweep", "loop", "swept", "beat", "beatIdle", "started",
     "reset", "assign", "leased", "send", "unassigned", "failed", "grace", "disconnect"}
SessionOK == session \in [Streams -> [step : SessionSteps, shard : Shards \cup {NoShard}]]
RestOK ==
    /\ streams \in Streams \cup {NoStream} /\ notify \in Streams \cup {NoStream}
    /\ client \in Streams \cup {NoStream} /\ opened \subseteq Streams /\ held \subseteq Shards

\* TypeOK is the conjunction of the parts.
LEMMA Parts == TypeOK <=> EntryOK /\ ClockOK /\ CallbackOK /\ SessionOK /\ RestOK
  BY DEF TypeOK, EntryOK, ClockOK, CallbackOK, CallbackSteps, SessionOK, SessionSteps, RestOK

\* The same for the next state.
LEMMA PartsNext == TypeOK' <=> EntryOK' /\ ClockOK' /\ CallbackOK' /\ SessionOK' /\ RestOK'
  BY DEF TypeOK, EntryOK, ClockOK, CallbackOK, CallbackSteps, SessionOK, SessionSteps, RestOK

\* HeartbeatAgent writes a well-formed entry, whichever handler calls it.
LEMMA HeartbeatAgentType ==
    ASSUME EntryOK, NEW s \in Status, NEW x \in Shards \cup {NoShard}, HeartbeatAgent(s, x)
    PROVE  EntryOK' /\ agent'.status = s
  <1>1. agent' = [agent EXCEPT !.status = s, !.shard = x] /\ fresh' = TRUE
    BY DEF HeartbeatAgent
  <1>2. QED
    BY <1>1, Zenon DEF EntryOK

\* A handler that goes on keeps the sessions well formed.
LEMMA ProceedType ==
    ASSUME SessionOK, NEW i \in Streams, NEW step \in SessionSteps, NEW x \in Shards \cup {NoShard},
           Proceed(i, step, x)
    PROVE  SessionOK'
  BY DEF SessionOK, Proceed

\* A callback that goes on keeps the callbacks well formed ...
LEMMA RunType ==
    ASSUME CallbackOK, NEW c \in Callbacks, NEW step \in CallbackSteps, NEW x \in Shards \cup {NoShard},
           Run(c, step, x)
    PROVE  CallbackOK'
  <1>1. callback' = [callback EXCEPT ![c] = [callback[c] EXCEPT !.step = step, !.shard = x]]
    BY Zenon DEF Run, CallbackOK
  <1>2. [callback[c] EXCEPT !.step = step, !.shard = x]
          \in [step : CallbackSteps, grace : BOOLEAN, shard : Shards \cup {NoShard}]
    BY Zenon DEF CallbackOK
  <1>3. QED
    BY <1>1, <1>2 DEF CallbackOK

\* ... and so does one that ends.
LEMMA FinishType ==
    ASSUME CallbackOK, NEW c \in Callbacks, Finish(c)
    PROVE  CallbackOK'
  BY DEF CallbackOK, Finish, Idle, CallbackSteps

-----------------------------------------------------------------------------
\* Every step of a timer callback keeps the types.
LEMMA TimerStepType ==
    ASSUME TypeOK, NEW c \in Callbacks, TimerStep(c)
    PROVE  TypeOK'
  <1> USE Parts, PartsNext
  <1> /\ {"check", "rearm", "timeout", "rollback", "expire"} \subseteq CallbackSteps
      /\ {"IDLE", "RUNNING", "UNRESPONSIVE", "TIMED_OUT"} \subseteq Status
    BY DEF CallbackSteps, Status, Connected
  <1>1. CASE DeleteTimer(c)
    <2>1. ClockOK'
      BY <1>1 DEF DeleteTimer, ClockOK, Running
    <2>2. CallbackOK'
      BY <1>1, RunType DEF DeleteTimer
    <2>3. QED
      BY <1>1, <2>1, <2>2 DEF DeleteTimer, registry, EntryOK, SessionOK, RestOK, link
  <1>2. CASE OnHeartbeatTimeout(c)
    <2>1. EntryOK'
      BY <1>2, Zenon DEF OnHeartbeatTimeout, EntryOK, Status
    <2>2. CallbackOK'
      BY <1>2, RunType, FinishType DEF OnHeartbeatTimeout
    <2>3. QED
      BY <1>2, <2>1, <2>2 DEF OnHeartbeatTimeout, clock, ClockOK, SessionOK, RestOK, link
  <1>3. CASE Rearm(c)
    BY <1>3, FinishType DEF Rearm, Arm, Timer, ClockOK, registry, EntryOK, SessionOK, RestOK, link
  <1>4. CASE OnGraceExpired(c)
    BY <1>4, RunType, FinishType DEF OnGraceExpired, registry, clock, EntryOK, ClockOK, SessionOK, RestOK, link
  <1>5. CASE HandleAgentTimeout(c)
    <2>1. CallbackOK'
      BY <1>5, RunType, FinishType DEF HandleAgentTimeout, AfterRollback, EntryOK
    <2>2. QED
      BY <1>5, <2>1 DEF HandleAgentTimeout, registry, clock, EntryOK, ClockOK, SessionOK, RestOK, link
  <1>6. CASE RollbackTimedOutShard(c)
    <2>1. CallbackOK'
      BY <1>6, RunType, FinishType DEF RollbackTimedOutShard, AfterRollback
    <2>2. QED
      BY <1>6, <2>1 DEF RollbackTimedOutShard, registry, clock, EntryOK, ClockOK, SessionOK, RestOK, link
  <1>7. CASE MarkTimedOut(c)
    BY <1>7, FinishType, HeartbeatAgentType DEF MarkTimedOut, clock, ClockOK, SessionOK, RestOK, link
  <1>8. QED
    BY <1>1, <1>2, <1>3, <1>4, <1>5, <1>6, <1>7 DEF TimerStep

\* Every step of a stream's handler keeps the types.
LEMMA StreamStepType ==
    ASSUME TypeOK, NEW i \in Streams, StreamStep(i)
    PROVE  TypeOK'
  <1> USE Parts, PartsNext
  <1> /\ {"IDLE", "RUNNING"} \subseteq Status /\ NoShard \in Shards \cup {NoShard}
      /\ SessionSteps = SessionSteps \cup
           {"ready", "sweep", "loop", "swept", "beat", "beatIdle", "started", "reset", "assign",
            "leased", "send", "unassigned", "failed", "grace", "disconnect"}
      /\ session[i].shard \in Shards \cup {NoShard}
    BY DEF SessionSteps, Status, Connected, SessionOK
  <1>1. CASE AnnounceStream(i)
    BY <1>1, ProceedType DEF AnnounceStream, Arm, Timer, ClockOK, registry, EntryOK, CallbackOK, RestOK, link
  <1>2. CASE HandleReconnectedAgent(i)
    <2>1. SessionOK'
      BY <1>2, ProceedType DEF HandleReconnectedAgent
    <2>2. EntryOK' /\ ClockOK'
      BY <1>2, HeartbeatAgentType DEF HandleReconnectedAgent, registry, clock, EntryOK, ClockOK
    <2>3. CallbackOK' /\ RestOK'
      BY <1>2 DEF HandleReconnectedAgent, CallbackOK, RestOK, link
    <2>4. QED
      BY <2>1, <2>2, <2>3
  <1>3. CASE HandleHeartbeat(i)
    <2>1. CASE HandleIdleHeartbeat(i)
      BY <2>1, ProceedType
      DEF HandleIdleHeartbeat, registry, clock, EntryOK, ClockOK, CallbackOK, RestOK, link
    <2>2. ASSUME NEW s \in Shards, HandleRunningHeartbeat(i, s)
          PROVE  TypeOK'
      BY <2>2, ProceedType, HeartbeatAgentType, Zenon DEF HandleRunningHeartbeat, clock, ClockOK, CallbackOK, RestOK, link
    <2>3. QED
      BY <1>3, <2>1, <2>2 DEF HandleHeartbeat
  <1>4. CASE HandleReport(i)
    <2>1. PICK s \in Shards : HandleShardStarted(i, s) \/ HandleShardEnded(i, s)
      BY <1>4 DEF HandleReport
    <2>2. SessionOK'
      BY <2>1, ProceedType, Zenon DEF HandleShardStarted, HandleShardEnded
    <2>3. QED
      BY <2>1, <2>2
      DEF HandleShardStarted, HandleShardEnded, registry, clock, EntryOK, ClockOK, CallbackOK, RestOK, link
  <1>5. CASE MarkAgent(i)
    <2>1. SessionOK'
      BY <1>5, ProceedType DEF MarkAgent
    <2>2. EntryOK' /\ ClockOK'
      BY <1>5, HeartbeatAgentType DEF MarkAgent, clock, ClockOK
    <2>3. QED
      BY <1>5, <2>1, <2>2 DEF MarkAgent, CallbackOK, RestOK, link
  <1>6. CASE ResetHeartbeat(i)
    BY <1>6, ProceedType, Zenon DEF ResetHeartbeat, Arm, Timer, ClockOK, registry, EntryOK, CallbackOK, RestOK, link
  <1>7. CASE TryAssignShard(i)
    <2>1. SessionOK'
      BY <1>7, ProceedType, Zenon DEF TryAssignShard
    <2>2. QED
      BY <1>7, <2>1 DEF TryAssignShard, registry, clock, EntryOK, ClockOK, CallbackOK, RestOK, link
  <1>8. CASE SendAssignment(i)
    <2>1. SessionOK'
      BY <1>8, ProceedType, Zenon DEF SendAssignment
    <2>2. QED
      BY <1>8, <2>1 DEF SendAssignment, Reaches, registry, clock, EntryOK, ClockOK, CallbackOK, RestOK
  <1>9. CASE HandlerReturns(i)
    BY <1>9, ProceedType DEF HandlerReturns, registry, clock, EntryOK, ClockOK, CallbackOK, RestOK, link
  <1>10. CASE BeginGrace(i)
    BY <1>10, ProceedType, Zenon DEF BeginGrace, Arm, Timer, ClockOK, registry, EntryOK, CallbackOK, RestOK, link
  <1>11. CASE DisconnectAgent(i)
    <2>1. SessionOK'
      BY <1>11 DEF DisconnectAgent, SessionOK, Closed, SessionSteps
    <2>2. EntryOK'
      BY <1>11, Zenon DEF DisconnectAgent, DisconnectedStatus, EntryOK, Status, Connected
    <2>3. QED
      BY <1>11, <2>1, <2>2 DEF DisconnectAgent, clock, ClockOK, CallbackOK, RestOK
  <1>12. QED
    BY <1>1, <1>2, <1>3, <1>4, <1>5, <1>6, <1>7, <1>8, <1>9, <1>10, <1>11 DEF StreamStep

\* Registering, firing and the rest of the system keep the types.
LEMMA TypeStep ==
    ASSUME TypeOK, [Next]_vars
    PROVE  TypeOK'
  <1> USE Parts, PartsNext
  <1>1. ASSUME NEW t \in Running, NEW c \in Callbacks, Fire(t, c)
        PROVE  TypeOK'
    <2>1. ClockOK' /\ fresh' \in BOOLEAN
      BY <1>1 DEF Fire, registry, ClockOK, EntryOK
    <2>2. CallbackOK'
      BY <1>1 DEF Fire, CallbackOK, CallbackSteps
    <2>3. QED
      BY <1>1, <2>1, <2>2 DEF Fire, registry, EntryOK, SessionOK, RestOK, link
  <1>2. ASSUME NEW i \in Streams, RegisterAgent(i)
        PROVE  TypeOK'
    <2>1. SessionOK'
      BY <1>2, ProceedType DEF RegisterAgent, SessionSteps
    <2>2. EntryOK' /\ ClockOK'
      BY <1>2 DEF RegisterAgent, clock, ClockOK, EntryOK, Recovered, Status, Connected
    <2>3. QED
      BY <1>2, <2>1, <2>2 DEF RegisterAgent, CallbackOK, RestOK
  <1>3. CASE Silence \/ AgentDrops \/ CancelHeld \/ NotifyCancelShard
    BY <1>3, Zenon DEF Silence, AgentDrops, CancelHeld, NotifyCancelShard, Reaches, registry, clock, link,
                EntryOK, ClockOK, CallbackOK, SessionOK, RestOK
  <1>4. CASE UNCHANGED vars
    BY <1>4 DEF vars, EntryOK, ClockOK, CallbackOK, SessionOK, RestOK
  <1>5. QED
    BY <1>1, <1>2, <1>3, <1>4, TimerStepType, StreamStepType DEF Next, RefuseRegister

-----------------------------------------------------------------------------
(* The three ways in which UnresponsiveIsWatched holds *)

Waits == "heartbeat" \in Running
Checks == \E c \in Callbacks : ~callback[c].grace /\ callback[c].step \in {"fired", "check", "rearm"}
Leaves == \E i \in Streams : session[i].step = "disconnect"

\* UnresponsiveIsWatched by name.
LEMMA Watched == UnresponsiveIsWatched <=> (agent.status = "UNRESPONSIVE" => Waits \/ Checks \/ Leaves)
  BY DEF UnresponsiveIsWatched, Waits, Checks, Leaves

\* The same for the next state.
LEMMA WatchedNext ==
    UnresponsiveIsWatched' <=> (agent'.status = "UNRESPONSIVE" => Waits' \/ Checks' \/ Leaves')
  BY DEF UnresponsiveIsWatched, Waits, Checks, Leaves

\* A firing heartbeat timer passes the watch to its callback; a grace timer is
\* not a heartbeat timer and takes only an idle callback.
LEMMA FireWatch ==
    ASSUME TypeOK, UnresponsiveIsWatched, NEW t \in Running, NEW c \in Callbacks, Fire(t, c)
    PROVE  UnresponsiveIsWatched'
  <1> USE Parts
  <1>1. agent' = agent /\ session' = session
    BY DEF Fire, registry
  <1>2. t \in Timer
    BY DEF Running, ClockOK
  <1>3. Leaves => Leaves'
    BY <1>1 DEF Leaves
  <1>4. CASE t # "grace"
    <2>1. callback'[c].step = "fired" /\ ~callback'[c].grace
      BY <1>4, Zenon DEF Fire, CallbackOK
    <2>2. QED
      BY <2>1, WatchedNext DEF Checks
  <1>5. CASE t = "grace"
    <2>1. Waits => Waits'
      BY <1>5 DEF Fire, Waits, Running
    <2>2. \A d \in Callbacks : callback[d].step # "idle" => callback'[d] = callback[d]
      BY DEF Fire, CallbackOK
    <2>3. Checks => Checks'
      BY <2>2 DEF Checks
    <2>4. QED
      BY <1>1, <1>3, <2>1, <2>3, Watched, WatchedNext
  <1>6. QED
    BY <1>4, <1>5

\* A callback that deletes the map entry does not stop the timer in it; one
\* that ends has started a wait or found nothing to watch.
LEMMA TimerStepWatch ==
    ASSUME TypeOK, UnresponsiveIsWatched, NEW c \in Callbacks, TimerStep(c)
    PROVE  UnresponsiveIsWatched'
  <1> USE Parts, Watched, WatchedNext
  <1>1. CASE DeleteTimer(c)
    <2>1. agent' = agent /\ session' = session /\ (Running)' = Running
      BY <1>1 DEF DeleteTimer, registry, Running, ClockOK
    <2>2. callback' = [callback EXCEPT ![c].step = "check", ![c].shard = NoShard]
      BY <1>1 DEF DeleteTimer, Run
    <2>3. Checks => Checks'
      BY <1>1, <2>2 DEF Checks, CallbackOK, DeleteTimer
    <2>4. QED
      BY <2>1, <2>3 DEF Waits, Leaves
  <1>2. CASE OnHeartbeatTimeout(c)
    <2>1. session' = session /\ (Running)' = Running
      BY <1>2 DEF OnHeartbeatTimeout, clock, Running
    <2>2. CASE Run(c, "rearm", NoShard)
      <3>1. callback'[c].step = "rearm" /\ ~callback'[c].grace
        BY <1>2, <2>2 DEF OnHeartbeatTimeout, Run, CallbackOK
      <3>2. QED
        BY <3>1 DEF Checks
    <2>3. CASE ~Run(c, "rearm", NoShard)
      <3>1. agent'.status # "UNRESPONSIVE"
        BY <1>2, <2>3, Zenon DEF OnHeartbeatTimeout, EntryOK
      <3>2. QED
        BY <3>1
    <2>4. QED
      BY <2>2, <2>3
  <1>3. CASE Rearm(c)
    BY <1>3 DEF Rearm, Arm, Waits, Running
  <1>4. CASE OnGraceExpired(c) \/ HandleAgentTimeout(c) \/ RollbackTimedOutShard(c)
    <2>1. agent' = agent /\ session' = session /\ (Running)' = Running
      BY <1>4 DEF OnGraceExpired, HandleAgentTimeout, RollbackTimedOutShard, registry, clock, Running
    <2>2. callback[c].grace \/ callback[c].step \in {"timeout", "rollback"}
      BY <1>4 DEF OnGraceExpired, HandleAgentTimeout, RollbackTimedOutShard
    <2>3. \A d \in Callbacks : d # c => callback'[d] = callback[d]
      BY <1>4 DEF OnGraceExpired, HandleAgentTimeout, RollbackTimedOutShard, AfterRollback, Run, Finish,
                  CallbackOK
    <2>4. Checks => Checks'
      BY <2>2, <2>3 DEF Checks
    <2>5. QED
      BY <2>1, <2>4 DEF Waits, Leaves
  <1>5. CASE MarkTimedOut(c)
    BY <1>5, HeartbeatAgentType DEF MarkTimedOut, Status
  <1>6. QED
    BY <1>1, <1>2, <1>3, <1>4, <1>5 DEF TimerStep

\* A step that leaves the callbacks and the sessions at "disconnect" alone
\* keeps the watch if it keeps the heartbeat timers.
LEMMA KeepsWatch ==
    ASSUME UnresponsiveIsWatched, agent'.status = agent.status, callback' = callback,
           Waits => Waits', Leaves => Leaves'
    PROVE  UnresponsiveIsWatched'
  <1>1. Checks => Checks'
    BY DEF Checks
  <1>2. QED
    BY <1>1, Watched, WatchedNext

\* A session that proceeds from another step keeps every session that is
\* about to mark the agent DISCONNECTED.
LEMMA ProceedLeaves ==
    ASSUME SessionOK, NEW i \in Streams, session[i].step # "disconnect", NEW step, NEW x,
           Proceed(i, step, x)
    PROVE  Leaves => Leaves'
  <1>1. \A j \in Streams : j # i => session'[j] = session[j]
    BY DEF Proceed, SessionOK
  <1>2. QED
    BY <1>1 DEF Leaves

\* Only BeginGrace stops a heartbeat timer, and DisconnectAgent follows it; the
\* other steps of a handler start one, or make the agent IDLE or RUNNING.
LEMMA StreamStepWatch ==
    ASSUME TypeOK, UnresponsiveIsWatched, NEW i \in Streams, StreamStep(i)
    PROVE  UnresponsiveIsWatched'
  <1> USE Parts, WatchedNext
  <1>1. CASE AnnounceStream(i) \/ ResetHeartbeat(i)
    BY <1>1 DEF AnnounceStream, ResetHeartbeat, Arm, Waits, Running
  <1>2. ASSUME NEW x \in Shards \cup {NoShard}, NEW st \in {"IDLE", "RUNNING"}, HeartbeatAgent(st, x)
        PROVE  UnresponsiveIsWatched'
    BY <1>2, HeartbeatAgentType DEF Status, Connected
  <1>3. ASSUME NEW step, NEW x, Proceed(i, step, x), session[i].step # "disconnect",
               UNCHANGED <<registry, clock, callback>>
        PROVE  UnresponsiveIsWatched'
    <2>1. Waits => Waits'
      BY <1>3 DEF Waits, Running, clock
    <2>2. QED
      BY <1>3, <2>1, ProceedLeaves, KeepsWatch DEF registry
  <1>4. CASE HandleReconnectedAgent(i)
    BY <1>2, <1>3, <1>4 DEF HandleReconnectedAgent
  <1>5. CASE HandleHeartbeat(i)
    BY <1>2, <1>3, <1>5 DEF HandleHeartbeat, HandleIdleHeartbeat, HandleRunningHeartbeat, Receive
  <1>6. CASE HandleReport(i)
    <2>1. PICK s \in Shards : HandleShardStarted(i, s) \/ HandleShardEnded(i, s)
      BY <1>6 DEF HandleReport
    <2>2. QED
      BY <1>3, <2>1 DEF HandleShardStarted, HandleShardEnded, Receive
  <1>7. CASE MarkAgent(i)
    <2>1. session[i].shard \in Shards \cup {NoShard}
      BY DEF SessionOK
    <2>2. QED
      BY <1>2, <1>7, <2>1 DEF MarkAgent
  <1>8. CASE TryAssignShard(i) \/ SendAssignment(i)
    BY <1>3, <1>8 DEF TryAssignShard, SendAssignment
  <1>9. CASE HandlerReturns(i)
    BY <1>3, <1>9 DEF HandlerReturns
  <1>10. CASE BeginGrace(i)
    <2>1. session'[i].step = "disconnect"
      BY <1>10 DEF BeginGrace, Proceed, SessionOK
    <2>2. QED
      BY <2>1 DEF Leaves
  <1>11. CASE DisconnectAgent(i)
    BY <1>11 DEF DisconnectAgent, EntryOK
  <1>12. QED
    BY <1>1, <1>4, <1>5, <1>6, <1>7, <1>8, <1>9, <1>10, <1>11 DEF StreamStep

\* Every step keeps the agent watched.
LEMMA WatchStep ==
    ASSUME TypeOK, UnresponsiveIsWatched, [Next]_vars
    PROVE  UnresponsiveIsWatched'
  <1> USE Parts
  <1>1. ASSUME NEW i \in Streams, RegisterAgent(i)
        PROVE  UnresponsiveIsWatched'
    BY <1>1, WatchedNext DEF RegisterAgent, Recovered
  <1>2. CASE Silence \/ AgentDrops \/ CancelHeld \/ NotifyCancelShard \/ UNCHANGED vars
    <2>1. agent' = agent /\ callback' = callback /\ session' = session /\ slot' = slot /\ leaked' = leaked
      BY <1>2 DEF Silence, AgentDrops, CancelHeld, NotifyCancelShard, vars, registry, clock
    <2>2. QED
      BY <2>1, KeepsWatch DEF Waits, Leaves, Running
  <1>3. QED
    BY <1>1, <1>2, FireWatch, TimerStepWatch, StreamStepWatch DEF Next, RefuseRegister

-----------------------------------------------------------------------------
(* Who lets a refused agent in again *)

Opened == \E i \in Streams : session[i].step # "closed"

\* Only the handler of an open stream makes the agent IDLE or RUNNING, and a
\* stream that closes leaves it DISCONNECTED.
LEMMA RefusedStep ==
    ASSUME TypeOK, RefusedHasStream, [Next]_vars
    PROVE  RefusedHasStream'
  <1> USE Parts DEF RefusedHasStream, MayRegister
  <1>1. ASSUME NEW i \in Streams, NEW step, step # "closed", NEW x, Proceed(i, step, x)
        PROVE  Opened'
    BY <1>1 DEF Proceed, SessionOK, Opened
  <1>2. ASSUME NEW i \in Streams, StreamStep(i), ~DisconnectAgent(i)
        PROVE  \E step, x : step # "closed" /\ Proceed(i, step, x)
    <2>1. CASE AnnounceStream(i) \/ HandleReconnectedAgent(i) \/ HandleHeartbeat(i) \/ MarkAgent(i)
      BY <2>1, Zenon DEF AnnounceStream, HandleReconnectedAgent, HandleHeartbeat, HandleIdleHeartbeat,
                  HandleRunningHeartbeat, MarkAgent
    <2>2. CASE HandleReport(i) \/ ResetHeartbeat(i) \/ TryAssignShard(i) \/ SendAssignment(i)
      BY <2>2, Zenon DEF HandleReport, HandleShardStarted, HandleShardEnded, ResetHeartbeat, TryAssignShard,
                  SendAssignment
    <2>3. CASE HandlerReturns(i) \/ BeginGrace(i)
      BY <2>3, Zenon DEF HandlerReturns, BeginGrace
    <2>4. QED
      BY <1>2, <2>1, <2>2, <2>3 DEF StreamStep
  <1>3. ASSUME NEW i \in Streams, DisconnectAgent(i) PROVE RefusedHasStream'
    BY <1>3 DEF DisconnectAgent, EntryOK, Connected
  <1>4. ASSUME NEW i \in Streams, RegisterAgent(i) PROVE Opened'
    BY <1>1, <1>4 DEF RegisterAgent
  <1>5. ASSUME NEW c \in Callbacks, TimerStep(c)
        PROVE  session' = session /\ (agent'.status = agent.status \/ agent'.status \notin Connected)
    <2>1. CASE DeleteTimer(c) \/ Rearm(c) \/ OnGraceExpired(c) \/ HandleAgentTimeout(c) \/ RollbackTimedOutShard(c)
      BY <2>1 DEF DeleteTimer, Rearm, OnGraceExpired, HandleAgentTimeout, RollbackTimedOutShard, registry
    <2>2. CASE OnHeartbeatTimeout(c)
      BY <2>2 DEF OnHeartbeatTimeout, EntryOK, Connected
    <2>3. CASE MarkTimedOut(c)
      BY <2>3, HeartbeatAgentType DEF MarkTimedOut, Status, Connected
    <2>4. QED
      BY <1>5, <2>1, <2>2, <2>3 DEF TimerStep
  <1>6. ASSUME session' = session, agent'.status = agent.status \/ agent'.status \notin Connected
        PROVE  RefusedHasStream'
    BY <1>6
  <1>7. CASE \/ \E t \in Running, c \in Callbacks : Fire(t, c)
             \/ Silence \/ AgentDrops \/ CancelHeld \/ NotifyCancelShard \/ UNCHANGED vars
    <2>1. session' = session /\ agent' = agent
      BY <1>7, Zenon DEF Fire, Silence, AgentDrops, CancelHeld, NotifyCancelShard, vars, registry
    <2>2. QED
      BY <1>6, <2>1
  <1>8. Opened' => RefusedHasStream'
    BY DEF Opened
  <1>9. ASSUME NEW i \in Streams, StreamStep(i) PROVE RefusedHasStream'
    BY <1>1, <1>2, <1>3, <1>8, <1>9, Zenon
  <1>10. QED
    BY <1>4, <1>5, <1>6, <1>7, <1>8, <1>9 DEF Next, RefuseRegister

-----------------------------------------------------------------------------
\* A handler stores its stream before it serves it and deletes the entry before
\* anything else of its clean-up; nobody else stores one.
LEMMA EntryStep ==
    ASSUME TypeOK, EntryIsServed, [Next]_vars
    PROVE  EntryIsServed'
  <1> DEFINE Off == {"closed", "announce", "grace", "disconnect"}
  <1> USE Parts DEF EntryIsServed
  <1> NoStream \notin Streams
    BY RegistryAssumption
  <1>1. ASSUME NEW i \in Streams, NEW step, step \notin Off, NEW x, Proceed(i, step, x),
               streams' \in {streams, i, NoStream}
        PROVE  EntryIsServed'
    BY <1>1 DEF Proceed, SessionOK, RestOK
  <1>2. ASSUME session' = session, streams' \in {streams, NoStream}
        PROVE  EntryIsServed'
    BY <1>2
  <1>3. ASSUME NEW i \in Streams, StreamStep(i) PROVE EntryIsServed'
    <2>1. CASE AnnounceStream(i) \/ HandleReconnectedAgent(i) \/ HandleHeartbeat(i) \/ MarkAgent(i)
      BY <1>1, <2>1 DEF AnnounceStream, HandleReconnectedAgent, HandleHeartbeat, HandleIdleHeartbeat,
                        HandleRunningHeartbeat, MarkAgent
    <2>2. CASE HandleReport(i) \/ ResetHeartbeat(i) \/ TryAssignShard(i) \/ SendAssignment(i)
      BY <1>1, <2>2 DEF HandleReport, HandleShardStarted, HandleShardEnded, ResetHeartbeat,
                        TryAssignShard, SendAssignment
    <2>3. CASE HandlerReturns(i)
      BY <2>3 DEF HandlerReturns
    <2>4. CASE BeginGrace(i) \/ DisconnectAgent(i)
      BY <2>4 DEF BeginGrace, DisconnectAgent, Proceed, SessionOK, RestOK
    <2>5. QED
      BY <1>3, <2>1, <2>2, <2>3, <2>4 DEF StreamStep
  <1>4. ASSUME NEW i \in Streams, RegisterAgent(i) PROVE EntryIsServed'
    BY <1>4 DEF RegisterAgent, Proceed, SessionOK, RestOK
  <1>5. ASSUME NEW c \in Callbacks, TimerStep(c) PROVE session' = session /\ streams' = streams
    BY <1>5 DEF TimerStep, DeleteTimer, OnHeartbeatTimeout, Rearm, OnGraceExpired, HandleAgentTimeout,
                RollbackTimedOutShard, MarkTimedOut
  <1>6. CASE \/ \E t \in Running, c \in Callbacks : Fire(t, c)
             \/ Silence \/ AgentDrops \/ CancelHeld \/ NotifyCancelShard \/ UNCHANGED vars
    <2>1. session' = session /\ streams' \in {streams, NoStream}
      BY <1>6, Zenon DEF Fire, Silence, AgentDrops, CancelHeld, NotifyCancelShard, vars
    <2>2. QED
      BY <1>2, <2>1
  <1>7. QED
    BY <1>2, <1>3, <1>4, <1>5, <1>6 DEF Next, RefuseRegister

-----------------------------------------------------------------------------
\* The entry, the timers, the callbacks and the sessions stay well formed:
\* among others, PreDisconnectStatus is only ever IDLE or RUNNING, so that
\* RegisterAgent recovers a status an agent can be in.
THEOREM RegistryTypes == Spec => []TypeOK
  <1>1. ASSUME Init PROVE TypeOK
    <2>1. EntryOK /\ ClockOK /\ RestOK
      BY <1>1, Zenon DEF Init, EntryOK, ClockOK, RestOK, Status
    <2>2. CallbackOK
      BY <1>1 DEF Init, CallbackOK, CallbackSteps, Idle
    <2>3. SessionOK
      BY <1>1 DEF Init, SessionOK, SessionSteps, Closed
    <2>4. QED
      BY <2>1, <2>2, <2>3, Parts
  <1>2. TypeOK /\ [Next]_vars => TypeOK'
    BY TypeStep
  <1>3. QED
    BY <1>1, <1>2, PTL DEF Spec

\* An agent that onHeartbeatTimeout marked UNRESPONSIVE is never forgotten, and
\* one that RegisterAgent refuses has a stream that will end, for any number of
\* streams, shards and concurrent callbacks.
THEOREM NeverForgotten == Spec => []AgentIsWatched
  <1>1. Init => AgentIsWatched
    BY DEF Init, AgentIsWatched, UnresponsiveIsWatched, RefusedHasStream, MayRegister, Connected
  <1>2. TypeOK /\ AgentIsWatched /\ [Next]_vars => AgentIsWatched'
    BY WatchStep, RefusedStep DEF AgentIsWatched
  <1>3. QED
    BY <1>1, <1>2, RegistryTypes, PTL DEF Spec

\* Whatever the order in which handlers of overlapping streams announce
\* themselves and clean up, the map of streams never names a stream whose
\* handler has returned, for any number of streams, shards and callbacks.
THEOREM EntryServed == Spec => []EntryIsServed
  <1>1. Init => EntryIsServed
    BY DEF Init, EntryIsServed
  <1>2. TypeOK /\ EntryIsServed /\ [Next]_vars => EntryIsServed'
    BY EntryStep
  <1>3. QED
    BY <1>1, <1>2, RegistryTypes, PTL DEF Spec
=============================================================================
