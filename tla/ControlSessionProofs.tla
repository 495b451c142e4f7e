------------------------ MODULE ControlSessionProofs ------------------------
(***************************************************************************)
(* The agent and the server over a stream that breaks: for any number of   *)
(* shards, executions, messages in flight and faults, the agent runs what  *)
(* it reports, stops only what was cancelled, and no shard ends as         *)
(* SUCCEEDED without its output.                                           *)
(***************************************************************************)
EXTENDS ControlSession, SequenceTheorems, TLAPS

\* The messages of a queue.
Sent(q) == {q[i] : i \in 1..Len(q)}

\* A result is announced only after its upload; every report names a shard.
ResultsUploaded ==
    /\ pending \in uploaded \cup {NoShard}
    /\ \A m \in Sent(up) :
        /\ m.kind \notin {"Register", "Heartbeat"} => m.shard \in Shards
        /\ m.kind = "ShardResultReady" => m.shard \in uploaded

\* An acknowledgement follows an upload, a cancellation notice the CANCELLED row.
NoticesTrue ==
    \A m \in Sent(down) :
        /\ m.shard \in Shards
        /\ m.kind = "ShardResultStored" => m.shard \in uploaded
        /\ m.kind = "CancelShard" => shard[m.shard] = "CANCELLED"

\* A stopped execution is one of a CANCELLED shard; an execution belongs to the
\* stream only while the agent is on it.
ExecutionsTrue ==
    \A e \in Executions :
        /\ exec[e].cancelled => exec[e].shard \in Shards /\ shard[exec[e].shard] = "CANCELLED"
        /\ exec[e].own => client = "up" /\ exec[e].shard \in Shards

IndInv == TypeOK /\ ResultsUploaded /\ NoticesTrue /\ ExecutionsTrue /\ RunsWhatItReports

-----------------------------------------------------------------------------
(* Queues *)

\* A message put at the end.
LEMMA SentAppend ==
    ASSUME NEW S, NEW q \in Seq(S), NEW m \in S
    PROVE  Append(q, m) \in Seq(S) /\ Sent(Append(q, m)) = Sent(q) \cup {m}
  <1>1. /\ Append(q, m) \in Seq(S) /\ Len(Append(q, m)) = Len(q) + 1 /\ Len(q) \in Nat
        /\ \A i \in 1..Len(q) : Append(q, m)[i] = q[i]
        /\ Append(q, m)[Len(q) + 1] = m
    OBVIOUS
  <1>2. 1..(Len(q) + 1) = (1..Len(q)) \cup {Len(q) + 1}
    BY <1>1
  <1>3. QED
    BY <1>1, <1>2 DEF Sent

\* The first message, and what remains after it.
LEMMA SentTail ==
    ASSUME NEW S, NEW q \in Seq(S), q # <<>>
    PROVE  /\ Head(q) \in S /\ Head(q) \in Sent(q)
           /\ Tail(q) \in Seq(S) /\ Sent(Tail(q)) \subseteq Sent(q)
  <1>1. Len(q) \in Nat \ {0} /\ Head(q) = q[1] /\ 1 \in 1..Len(q)
    OBVIOUS
  <1>2. Head(q) \in S /\ Head(q) \in Sent(q)
    BY <1>1 DEF Sent
  <1>3. /\ Tail(q) \in Seq(S) /\ Len(Tail(q)) = Len(q) - 1
        /\ \A i \in 1..Len(Tail(q)) : Tail(q)[i] = q[i + 1] /\ i + 1 \in 1..Len(q)
    BY <1>1
  <1>4. QED
    BY <1>2, <1>3 DEF Sent

\* What is left of a queue when its end is lost.
LEMMA SentPrefix ==
    ASSUME NEW S, NEW q \in Seq(S), NEW n \in 0..Len(q)
    PROVE  SubSeq(q, 1, n) \in Seq(S) /\ Sent(SubSeq(q, 1, n)) \subseteq Sent(q)
  <1>1. /\ SubSeq(q, 1, n) \in Seq(S) /\ Len(SubSeq(q, 1, n)) = n
        /\ \A i \in 1..n : SubSeq(q, 1, n)[i] = q[i] /\ i \in 1..Len(q)
    OBVIOUS
  <1>2. QED
    BY <1>1 DEF Sent

\* No message, and one.
LEMMA SentShort ==
    ASSUME NEW S, NEW m \in S
    PROVE  <<>> \in Seq(S) /\ Sent(<<>>) = {} /\ <<m>> \in Seq(S) /\ Sent(<<m>>) = {m}
  <1>1. Sent(<<>>) = {}
    BY DEF Sent
  <1>2. Sent(<<m>>) = {m}
    <2>1. Len(<<m>>) = 1 /\ <<m>>[1] = m /\ 1..1 = {1}
      OBVIOUS
    <2>2. QED
      BY <2>1 DEF Sent
  <1>3. QED
    BY <1>1, <1>2

\* One message, or none, sent to the agent.
LEMMA Delivered ==
    ASSUME NEW S, down \in Seq(S), NEW m \in S, Deliver(<<m>>) \/ Deliver(<<>>)
    PROVE  down' \in Seq(S) /\ Sent(down') \subseteq Sent(down) \cup {m}
  <1>1. down \o <<m>> = Append(down, m)
    BY AppendIsConcat
  <1>2. down \o <<>> = down
    BY ConcatEmptySeq
  <1>3. CASE client = "down"
    <2>1. down' = <<>>
      BY <1>3 DEF Deliver
    <2>2. <<>> \in Seq(S) /\ Sent(<<>>) = {}
      BY SentShort
    <2>3. QED
      BY <2>1, <2>2
  <1>4. CASE client # "down"
    <2>1. down' = Append(down, m) \/ down' = down
      BY <1>1, <1>2, <1>4 DEF Deliver
    <2>2. Append(down, m) \in Seq(S) /\ Sent(Append(down, m)) = Sent(down) \cup {m}
      BY SentAppend
    <2>3. QED
      BY <2>1, <2>2, Zenon
  <1>5. QED
    BY <1>3, <1>4

-----------------------------------------------------------------------------
(* The parts of TypeOK *)

MaybeShard == Shards \cup {NoShard}
RowStatus == {"QUEUED"} \cup Active \cup Ended
DbOK ==
    /\ shard \in [Shards -> RowStatus] /\ owner \in [Shards -> {"none", "self", "other"}]
    /\ started \subseteq Shards
ServerOK ==
    /\ registry \in [status : {"ABSENT", "UNRESPONSIVE", "DISCONNECTED", "TIMED_OUT"} \cup Connected,
                     pre : {"none"} \cup Connected, shard : MaybeShard]
    /\ session \in {"none", "reconnect", "assign", "loop", "ending"}
ExecType == [shard : MaybeShard, own : BOOLEAN, cancelled : BOOLEAN, reported : BOOLEAN]
AgentOK ==
    /\ client \in {"down", "opening", "opened", "up"}
    /\ current \in MaybeShard /\ pending \in MaybeShard
    /\ exec \in [Executions -> ExecType] /\ tokens \subseteq Executions
QueuesOK == up \in Seq(AgentMessage) /\ down \in Seq(ServerMessage)
HistoryOK == uploaded \subseteq Shards /\ faults \in 0..MaxFaults

\* TypeOK is the conjunction of its parts.
LEMMA Parts == TypeOK <=> DbOK /\ ServerOK /\ AgentOK /\ QueuesOK /\ HistoryOK
  BY DEF TypeOK, DbOK, ServerOK, AgentOK, QueuesOK, HistoryOK, RowStatus, MaybeShard, ExecType

\* The same for the next state.
LEMMA PartsNext == TypeOK' <=> DbOK' /\ ServerOK' /\ AgentOK' /\ QueuesOK' /\ HistoryOK'
  BY DEF TypeOK, DbOK, ServerOK, AgentOK, QueuesOK, HistoryOK, RowStatus, MaybeShard, ExecType

\* A fault is counted, and nothing is uploaded by it.
LEMMA FaultCounted ==
    ASSUME HistoryOK, Fault \/ UNCHANGED history
    PROVE  HistoryOK' /\ uploaded' = uploaded
  BY SessionAssumption DEF HistoryOK, Fault, history

\* What the loop leaves behind when it returns.
LEMMA LoopReturned ==
    ASSUME IndInv, LoopReturns, shard' = shard, uploaded' = uploaded, pending' = pending
    PROVE  /\ AgentOK' /\ down' \in Seq(ServerMessage)
           /\ NoticesTrue' /\ ExecutionsTrue' /\ RunsWhatItReports'
  <1> USE Parts DEF IndInv
  <1>1. \A e \in Executions : /\ exec'[e] \in ExecType /\ ~exec'[e].own
                             /\ exec'[e].cancelled = exec[e].cancelled /\ exec'[e].shard = exec[e].shard
    BY Zenon DEF LoopReturns, AgentOK, ExecType
  <1>2. AgentOK'
    BY <1>1 DEF LoopReturns, AgentOK, MaybeShard
  <1>3. down' \in Seq(ServerMessage) /\ Sent(down') = {}
    BY SentShort DEF LoopReturns, Sent
  <1>4. NoticesTrue'
    BY <1>3 DEF NoticesTrue
  <1>5. ExecutionsTrue' /\ RunsWhatItReports'
    BY <1>1 DEF ExecutionsTrue, RunsWhatItReports
  <1>6. QED
    BY <1>2, <1>3, <1>4, <1>5

\* Reports in a shorter queue are still true when uploads are only added.
LEMMA ReportsKept ==
    ASSUME ResultsUploaded, uploaded \subseteq uploaded', pending' \in uploaded' \cup {NoShard},
           NEW m, Sent(up') \subseteq Sent(up) \cup {m},
           m.kind \notin {"Register", "Heartbeat"} => m.shard \in Shards,
           m.kind = "ShardResultReady" => m.shard \in uploaded'
    PROVE  ResultsUploaded'
  BY DEF ResultsUploaded

\* So are the notices, when CANCELLED rows stay as they are.
LEMMA NoticesKept ==
    ASSUME NoticesTrue, uploaded \subseteq uploaded',
           \A s \in Shards : shard[s] = "CANCELLED" => shard'[s] = "CANCELLED",
           NEW m, Sent(down') \subseteq Sent(down) \cup {m},
           m \in Sent(down) \/
             (/\ m.shard \in Shards
              /\ m.kind = "ShardResultStored" => m.shard \in uploaded'
              /\ m.kind = "CancelShard" => shard'[m.shard] = "CANCELLED")
    PROVE  NoticesTrue'
  BY DEF NoticesTrue

-----------------------------------------------------------------------------
(* The agent *)

\* A message the agent may send.
LEMMA AgentMessages ==
    ASSUME NEW s \in MaybeShard,
           NEW k \in {"Register", "Heartbeat", "ShardStarted", "ShardResultReady", "ShardFailed"}
    PROVE  Msg(k, s) \in AgentMessage /\ Msg(k, s).kind = k /\ Msg(k, s).shard = s
  BY DEF Msg, AgentMessage, Message, MaybeShard

\* Opening a stream: no execution belongs to it yet.
LEMMA OpenStep ==
    ASSUME IndInv, Open \/ StreamBreaks \/ AgentRestarts
    PROVE  IndInv'
  <1> USE Parts, PartsNext DEF IndInv
  <1>1. DbOK' /\ ServerOK' /\ shard' = shard
    BY DEF Open, Connect, Opened, ResendPending, StreamEnded, StreamBreaks, AgentRestarts, db, server,
           DbOK, ServerOK
  <1>2. HistoryOK' /\ uploaded' = uploaded
    BY FaultCounted DEF Open, Connect, Opened, ResendPending, StreamEnded, StreamBreaks, AgentRestarts
  <1>3. CASE Connect
    <2>1. up' = <<Msg("Register", NoShard)>> /\ down' = down
      BY <1>3 DEF Connect
    <2>2. Msg("Register", NoShard) \in AgentMessage /\ Msg("Register", NoShard).kind = "Register"
      BY AgentMessages DEF MaybeShard
    <2>3. up' \in Seq(AgentMessage) /\ Sent(up') = {Msg("Register", NoShard)}
      BY <2>1, <2>2, SentShort
    <2>4. ResultsUploaded'
      BY <1>2, <1>3, <2>2, <2>3 DEF ResultsUploaded, Connect
    <2>5. AgentOK' /\ QueuesOK'
      BY <1>3, <2>1, <2>3 DEF Connect, AgentOK, QueuesOK
    <2>6. NoticesTrue' /\ ExecutionsTrue' /\ RunsWhatItReports'
      BY <1>1, <1>2, <1>3, <2>1 DEF Connect, NoticesTrue, ExecutionsTrue, RunsWhatItReports
    <2>7. QED
      BY <1>1, <1>2, <2>4, <2>5, <2>6
  <1>4. CASE Opened
    <2>1. \A e \in Executions : ~exec[e].own
      BY <1>4 DEF Opened, ExecutionsTrue
    <2>2. AgentOK' /\ QueuesOK'
      BY <1>4 DEF Opened, AgentOK, QueuesOK
    <2>3. ResultsUploaded' /\ NoticesTrue' /\ ExecutionsTrue' /\ RunsWhatItReports'
      BY <1>1, <1>2, <1>4, <2>1
      DEF Opened, ResultsUploaded, NoticesTrue, ExecutionsTrue, RunsWhatItReports
    <2>4. QED
      BY <1>1, <1>2, <2>2, <2>3
  <1>5. CASE ResendPending
    <2> DEFINE m == Msg("ShardResultReady", pending)
    <2>1. m \in AgentMessage /\ m.kind = "ShardResultReady" /\ m.shard = pending
      BY AgentMessages DEF AgentOK
    <2>2. up' \in Seq(AgentMessage)
          /\ (pending # NoShard => Sent(up') \subseteq Sent(up) \cup {m})
          /\ (pending = NoShard => up' = up)
      BY <1>5, <2>1, SentAppend DEF ResendPending, QueuesOK
    <2>3. ResultsUploaded'
      <3> HIDE DEF m
      <3>1. CASE pending = NoShard
        BY <1>2, <1>5, <2>2, <3>1 DEF ResultsUploaded, ResendPending
      <3>2. CASE pending # NoShard
        <4>1. pending \in uploaded /\ pending \in Shards
          BY <3>2 DEF ResultsUploaded, HistoryOK
        <4>2. QED
          BY <1>2, <1>5, <2>1, <2>2, <3>2, <4>1, ReportsKept DEF ResendPending
      <3>3. QED
        BY <3>1, <3>2
    <2>4. AgentOK' /\ QueuesOK'
      BY <1>5, <2>2 DEF ResendPending, AgentOK, QueuesOK, MaybeShard
    <2>5. NoticesTrue' /\ ExecutionsTrue' /\ RunsWhatItReports'
      BY <1>1, <1>2, <1>5 DEF ResendPending, NoticesTrue, ExecutionsTrue, RunsWhatItReports
    <2>6. QED
      BY <1>1, <1>2, <2>3, <2>4, <2>5
  <1>6. CASE StreamEnded \/ StreamBreaks
    <2>1. LoopReturns /\ pending' = pending
      BY <1>6 DEF StreamEnded, StreamBreaks
    <2>2. up' \in Seq(AgentMessage) /\ Sent(up') \subseteq Sent(up)
      BY <1>6, SentPrefix, Zenon DEF StreamEnded, StreamBreaks, QueuesOK
    <2>3. ResultsUploaded'
      BY <1>2, <2>1, <2>2 DEF ResultsUploaded
    <2>4. QED
      BY <1>1, <1>2, <2>1, <2>2, <2>3, LoopReturned DEF QueuesOK
  <1>7. CASE AgentRestarts
    <2>1. up' \in Seq(AgentMessage) /\ Sent(up') \subseteq Sent(up)
      <3>1. <<>> \in Seq(AgentMessage) /\ Sent(<<>>) = {}
        BY DEF Sent
      <3>2. QED
        BY <1>7, <3>1 DEF AgentRestarts, QueuesOK
    <2>2. down' \in Seq(ServerMessage) /\ Sent(down') = {}
      BY <1>7 DEF AgentRestarts, Sent
    <2>3. ResultsUploaded' /\ NoticesTrue'
      BY <1>2, <1>7, <2>1, <2>2 DEF ResultsUploaded, NoticesTrue, AgentRestarts
    <2>4. \A e \in Executions : exec'[e] = NoExec
      BY <1>7 DEF AgentRestarts
    <2>5. ExecutionsTrue' /\ RunsWhatItReports'
      BY <2>4 DEF ExecutionsTrue, RunsWhatItReports, NoExec
    <2>6. AgentOK'
      BY <1>7 DEF AgentRestarts, AgentOK, MaybeShard, NoExec, ExecType
    <2>7. QED
      BY <1>1, <1>2, <2>1, <2>2, <2>3, <2>5, <2>6 DEF QueuesOK
  <1>8. QED
    BY <1>3, <1>4, <1>5, <1>6, <1>7 DEF Open

\* The ticker reports the status.
LEMMA HeartbeatStep ==
    ASSUME IndInv, SendHeartbeat
    PROVE  IndInv'
  <1> USE Parts, PartsNext DEF IndInv
  <1> DEFINE m == Msg("Heartbeat", current)
  <1>1. m \in AgentMessage /\ m.kind = "Heartbeat"
    BY AgentMessages DEF AgentOK
  <1>2. up' \in Seq(AgentMessage) /\ Sent(up') \subseteq Sent(up) \cup {m}
    BY <1>1, SentAppend DEF SendHeartbeat, QueuesOK
  <1> HIDE DEF m
  <1>3. uploaded' = uploaded /\ pending' = pending /\ UNCHANGED <<db, server, down, agent, history>>
    BY DEF SendHeartbeat, agent, history
  <1>4. ResultsUploaded'
    BY <1>1, <1>2, <1>3, ReportsKept DEF ResultsUploaded
  <1>5. QED
    BY <1>2, <1>3, <1>4
    DEF db, server, agent, history, DbOK, ServerOK, AgentOK, QueuesOK, HistoryOK, NoticesTrue,
        ExecutionsTrue, RunsWhatItReports

\* An assignment is accepted only when the agent runs nothing it reports.
LEMMA AssignStep ==
    ASSUME IndInv, ReceiveAssignShard
    PROVE  IndInv'
  <1> USE Parts, PartsNext DEF IndInv
  <1> DEFINE s == Head(down).shard
  <1>1. /\ Head(down) \in Sent(down) /\ s \in Shards
        /\ Tail(down) \in Seq(ServerMessage) /\ Sent(Tail(down)) \subseteq Sent(down)
    BY SentTail DEF ReceiveAssignShard, Received, QueuesOK, NoticesTrue
  <1>2. client = "up" /\ pending' = pending /\ UNCHANGED <<db, server, history>>
    BY DEF ReceiveAssignShard, Received
  <1>3. DbOK' /\ ServerOK' /\ HistoryOK' /\ shard' = shard /\ uploaded' = uploaded
    BY <1>2 DEF db, server, history, DbOK, ServerOK, HistoryOK
  <1>4. CASE LoopReturns /\ up' = up
    <2>1. ResultsUploaded'
      BY <1>2, <1>3, <1>4 DEF ResultsUploaded
    <2>2. QED
      BY <1>2, <1>3, <1>4, <2>1, LoopReturned DEF QueuesOK
  <1>5. CASE ~(LoopReturns /\ up' = up)
    <2>1. /\ CanAccept /\ Busy # Executions
          /\ exec' = [exec EXCEPT ![FreeSlot] = [NoExec EXCEPT !.shard = s, !.own = TRUE]]
          /\ tokens' = (tokens \ TokensOf(s)) \cup {FreeSlot}
          /\ current' = s /\ down' = Tail(down) /\ client' = client
          /\ up' = Append(up, Msg("ShardStarted", s))
      BY <1>5 DEF ReceiveAssignShard
    <2>2. FreeSlot \in Executions
      BY <2>1 DEF FreeSlot, Busy
    <2> DEFINE r == [NoExec EXCEPT !.shard = s, !.own = TRUE]
    <2>3. r \in ExecType /\ r.shard = s /\ r.own /\ ~r.cancelled
      BY <1>1, Zenon DEF NoExec, ExecType, MaybeShard
    <2> HIDE DEF s, r
    <2>4. exec'[FreeSlot] = r /\ \A e \in Executions : e # FreeSlot => exec'[e] = exec[e]
      BY <2>1, <2>2 DEF AgentOK, r
    <2>5. AgentOK'
      <3>1. exec' \in [Executions -> ExecType]
        BY <2>1, <2>2, <2>3 DEF AgentOK, r
      <3>2. QED
        BY <1>1, <1>2, <2>1, <2>2, <3>1 DEF AgentOK, MaybeShard
    <2>6. \A e \in Executions : exec[e].own => exec[e].shard \in uploaded
      BY <2>1, SessionAssumption DEF RunsWhatItReports, ExecutionsTrue, CanAccept
    <2>7. RunsWhatItReports'
      <3>1. \A e \in Executions : exec'[e].own /\ exec'[e].shard \notin uploaded' => e = FreeSlot
        BY <1>3, <2>4, <2>6
      <3>2. QED
        BY <2>1, <2>3, <2>4, <3>1 DEF RunsWhatItReports
    <2>8. ExecutionsTrue'
      BY <1>1, <1>2, <1>3, <2>1, <2>3, <2>4, ZenonT(30) DEF ExecutionsTrue
    <2>9. /\ Msg("ShardStarted", s) \in AgentMessage
          /\ Msg("ShardStarted", s).kind = "ShardStarted" /\ Msg("ShardStarted", s).shard = s
      BY <1>1, AgentMessages DEF MaybeShard
    <2>10. up' \in Seq(AgentMessage) /\ Sent(up') \subseteq Sent(up) \cup {Msg("ShardStarted", s)}
      BY <2>1, <2>9, SentAppend DEF QueuesOK
    <2>11. ResultsUploaded'
      BY <1>1, <1>2, <1>3, <2>9, <2>10, ReportsKept DEF ResultsUploaded
    <2>12. NoticesTrue'
      BY <1>1, <1>3, <2>1 DEF NoticesTrue
    <2>13. QED
      BY <1>1, <1>3, <2>1, <2>5, <2>7, <2>8, <2>10, <2>11, <2>12 DEF QueuesOK
  <1>6. QED
    BY <1>4, <1>5

\* A cancellation stops the executions of a CANCELLED shard.
LEMMA CancelNoticeStep ==
    ASSUME IndInv, ReceiveCancelShard
    PROVE  IndInv'
  <1> USE Parts, PartsNext DEF IndInv
  <1> DEFINE s == Head(down).shard
  <1>1. /\ s \in Shards /\ shard[s] = "CANCELLED"
        /\ Tail(down) \in Seq(ServerMessage) /\ Sent(Tail(down)) \subseteq Sent(down)
    BY SentTail DEF ReceiveCancelShard, Received, QueuesOK, NoticesTrue
  <1>2. /\ UNCHANGED <<db, server, up, client, current, pending, tokens, history>> /\ down' = Tail(down)
        /\ exec' = [e \in Executions |-> [exec[e] EXCEPT !.cancelled = @ \/ e \in TokensOf(s)]]
    BY DEF ReceiveCancelShard
  <1> HIDE DEF s
  <1>3. DbOK' /\ ServerOK' /\ HistoryOK' /\ shard' = shard /\ uploaded' = uploaded
    BY <1>2 DEF db, server, history, DbOK, ServerOK, HistoryOK
  <1>4. \A e \in Executions :
          /\ exec'[e] \in ExecType /\ exec'[e].own = exec[e].own /\ exec'[e].shard = exec[e].shard
          /\ exec'[e].cancelled => exec[e].cancelled \/ exec[e].shard = s
    <2> TAKE e \in Executions
    <2>1. exec[e] \in ExecType
      BY DEF AgentOK
    <2>2. exec'[e] = [exec[e] EXCEPT !.cancelled = exec[e].cancelled \/ e \in TokensOf(s)]
      BY <1>2
    <2>3. e \in TokensOf(s) => exec[e].shard = s
      BY DEF TokensOf
    <2>4. QED
      BY <2>1, <2>2, <2>3 DEF ExecType
  <1>5. AgentOK' /\ QueuesOK'
    BY <1>1, <1>2, <1>4, Zenon DEF AgentOK, QueuesOK
  <1>6. ExecutionsTrue' /\ RunsWhatItReports'
    BY <1>1, <1>2, <1>3, <1>4 DEF ExecutionsTrue, RunsWhatItReports
  <1>7. ResultsUploaded' /\ NoticesTrue'
    BY <1>1, <1>2, <1>3 DEF ResultsUploaded, NoticesTrue
  <1>8. QED
    BY <1>3, <1>5, <1>6, <1>7

\* An acknowledgement frees the agent only from a shard it has uploaded.
LEMMA StoredStep ==
    ASSUME IndInv, ReceiveShardResultStored
    PROVE  IndInv'
  <1> USE Parts, PartsNext DEF IndInv
  <1> DEFINE s == Head(down).shard
  <1>1. /\ s \in uploaded
        /\ Tail(down) \in Seq(ServerMessage) /\ Sent(Tail(down)) \subseteq Sent(down)
    BY SentTail DEF ReceiveShardResultStored, Received, QueuesOK, NoticesTrue
  <1>2. /\ UNCHANGED <<db, server, up, client, exec, tokens, history>> /\ down' = Tail(down)
        /\ pending' \in {pending, NoShard} /\ current' = Cleared(s)
    BY DEF ReceiveShardResultStored
  <1> HIDE DEF s
  <1>3. DbOK' /\ ServerOK' /\ HistoryOK' /\ shard' = shard /\ uploaded' = uploaded
    BY <1>2 DEF db, server, history, DbOK, ServerOK, HistoryOK
  <1>4. AgentOK' /\ QueuesOK'
    BY <1>1, <1>2 DEF AgentOK, QueuesOK, Cleared, MaybeShard
  <1>5. ExecutionsTrue' /\ RunsWhatItReports'
    BY <1>1, <1>2, <1>3 DEF ExecutionsTrue, RunsWhatItReports, Cleared
  <1>6. ResultsUploaded' /\ NoticesTrue'
    BY <1>1, <1>2, <1>3 DEF ResultsUploaded, NoticesTrue
  <1>7. QED
    BY <1>3, <1>4, <1>5, <1>6

\* What a spawned task sends reaches the queue, or nobody.
LEMMA SendFromKeeps ==
    ASSUME IndInv, NEW e \in Executions, exec[e].shard # NoShard,
           NEW k \in {"ShardResultReady", "ShardFailed"}, SendFrom(e, k),
           uploaded \subseteq uploaded', pending' \in uploaded' \cup {NoShard},
           k = "ShardResultReady" => exec[e].shard \in uploaded'
    PROVE  up' \in Seq(AgentMessage) /\ ResultsUploaded'
  <1> USE Parts DEF IndInv
  <1> DEFINE m == Msg(k, exec[e].shard)
  <1>1. exec[e].shard \in Shards
    BY DEF AgentOK, ExecType, MaybeShard
  <1>2. m \in AgentMessage /\ m.kind = k /\ m.shard = exec[e].shard
    BY <1>1, AgentMessages DEF MaybeShard
  <1>3. up' \in Seq(AgentMessage) /\ Sent(up') \subseteq Sent(up) \cup {m}
    BY <1>2, SentAppend DEF SendFrom, QueuesOK
  <1> HIDE DEF m
  <1>4. QED
    BY <1>1, <1>2, <1>3, ReportsKept

\* An execution ends.
LEMMA ExecutionStep ==
    ASSUME IndInv, NEW e \in Executions, Execution(e)
    PROVE  IndInv'
  <1> USE Parts, PartsNext DEF IndInv
  <1>1. DbOK' /\ ServerOK' /\ shard' = shard /\ down' = down /\ client' = client
    BY DEF Execution, ExecutionFails, ExecutionResets, ExecutionSucceeds, db, server, DbOK, ServerOK
  <1>2. exec[e] \in ExecType /\ NoExec \in ExecType /\ tokens' \subseteq Executions
    BY DEF AgentOK, NoExec, ExecType, MaybeShard, Execution, ExecutionFails, ExecutionResets,
           ExecutionSucceeds, RemoveToken
  <1>3. CASE ExecutionFails(e)
    <2>1. HistoryOK' /\ uploaded' = uploaded /\ pending' = pending /\ current' = current
      BY <1>3 DEF ExecutionFails, history, HistoryOK
    <2>2. up' \in Seq(AgentMessage) /\ ResultsUploaded'
      BY <1>3, <2>1, SendFromKeeps DEF ExecutionFails, FailureReport, ResultsUploaded
    <2>3. exec' = [exec EXCEPT ![e].reported = TRUE]
      BY <1>3 DEF ExecutionFails
    <2>4. \A f \in Executions : /\ exec'[f] \in ExecType /\ exec'[f].own = exec[f].own
                                /\ exec'[f].shard = exec[f].shard /\ exec'[f].cancelled = exec[f].cancelled
      BY <2>3, Zenon DEF AgentOK, ExecType
    <2>5. exec' \in [Executions -> ExecType]
      BY <2>3, <2>4, Zenon DEF AgentOK
    <2>6. ExecutionsTrue' /\ RunsWhatItReports'
      BY <1>1, <2>1, <2>4, SMTT(30) DEF ExecutionsTrue, RunsWhatItReports
    <2>7. NoticesTrue'
      BY <1>1, <2>1 DEF NoticesTrue
    <2>8. QED
      BY <1>1, <1>2, <2>1, <2>2, <2>5, <2>6, <2>7 DEF AgentOK, QueuesOK
  <1>4. CASE ExecutionResets(e)
    <2>1. HistoryOK' /\ uploaded' = uploaded /\ pending' = pending /\ up' = up
      BY <1>4 DEF ExecutionResets, history, HistoryOK
    <2>2. exec' \in [Executions -> ExecType] /\ exec'[e] = NoExec
          /\ \A f \in Executions : f # e => exec'[f] = exec[f]
      BY <1>2, <1>4 DEF ExecutionResets, AgentOK
    <2>3. current' = IF exec[e].own THEN Cleared(exec[e].shard) ELSE current
      BY <1>4 DEF ExecutionResets
    <2>4. ExecutionsTrue'
      BY <1>1, <2>2 DEF ExecutionsTrue, NoExec
    <2>5. RunsWhatItReports'
      <3>1. \A f \in Executions : exec'[f].own => f # e /\ exec'[f] = exec[f]
        BY <2>2 DEF NoExec
      <3>2. ASSUME NEW f \in Executions, f # e, exec[f].own, exec[f].shard \notin uploaded
            PROVE  current' = current
        <4>1. current = exec[f].shard
          BY <3>2 DEF RunsWhatItReports
        <4>2. exec[e].own => exec[e].shard \in uploaded
          BY <3>2 DEF RunsWhatItReports
        <4>3. QED
          BY <2>3, <3>2, <4>1, <4>2 DEF Cleared
      <3>3. QED
        BY <2>1, <3>1, <3>2 DEF RunsWhatItReports
    <2>6. ResultsUploaded' /\ NoticesTrue'
      BY <1>1, <2>1 DEF ResultsUploaded, NoticesTrue
    <2>7. QED
      BY <1>1, <1>2, <2>1, <2>2, <2>3, <2>4, <2>5, <2>6 DEF AgentOK, QueuesOK, Cleared, MaybeShard
  <1>5. CASE ExecutionSucceeds(e)
    <2>1. /\ exec[e].shard \in Shards /\ pending' = exec[e].shard /\ current' = current
          /\ uploaded' = uploaded \cup {exec[e].shard} /\ HistoryOK'
      BY <1>2, <1>5 DEF ExecutionSucceeds, ExecType, MaybeShard, HistoryOK
    <2>2. up' \in Seq(AgentMessage) /\ ResultsUploaded'
      BY <1>5, <2>1, SendFromKeeps DEF ExecutionSucceeds
    <2>3. exec' \in [Executions -> ExecType] /\ exec'[e] = NoExec
          /\ \A f \in Executions : f # e => exec'[f] = exec[f]
      BY <1>2, <1>5 DEF ExecutionSucceeds, AgentOK
    <2>4. ExecutionsTrue'
      BY <1>1, <2>3 DEF ExecutionsTrue, NoExec
    <2>5. RunsWhatItReports'
      <3>1. \A f \in Executions : exec'[f].own => f # e /\ exec'[f] = exec[f]
        BY <2>3 DEF NoExec
      <3>2. QED
        BY <2>1, <3>1 DEF RunsWhatItReports
    <2>6. NoticesTrue'
      BY <1>1, <2>1 DEF NoticesTrue
    <2>7. QED
      BY <1>1, <1>2, <2>1, <2>2, <2>3, <2>4, <2>5, <2>6 DEF AgentOK, QueuesOK, MaybeShard
  <1>6. QED
    BY <1>3, <1>4, <1>5 DEF Execution

-----------------------------------------------------------------------------
(* The server and its surroundings *)

\* CANCELLED is final, whoever writes the rows.
CancelledStays == \A s \in Shards : shard[s] = "CANCELLED" => shard'[s] = "CANCELLED"

\* A step of the server leaves the agent alone, takes messages from the queue
\* and adds a true notice at most.
LEMMA ServerKeeps ==
    ASSUME IndInv, UNCHANGED agent, uploaded' = uploaded, HistoryOK', DbOK', ServerOK', CancelledStays,
           up' \in Seq(AgentMessage), Sent(up') \subseteq Sent(up),
           down' \in Seq(ServerMessage), NEW m, Sent(down') \subseteq Sent(down) \cup {m},
           m \in Sent(down) \/
             (/\ m.shard \in Shards
              /\ m.kind = "ShardResultStored" => m.shard \in uploaded
              /\ m.kind = "CancelShard" => shard'[m.shard] = "CANCELLED")
    PROVE  IndInv'
  <1> USE Parts, PartsNext DEF IndInv
  <1>1. TypeOK'
    BY DEF agent, AgentOK, QueuesOK
  <1>2. ResultsUploaded'
    BY DEF agent, ResultsUploaded
  <1>3. NoticesTrue'
    BY NoticesKept DEF CancelledStays
  <1>4. ExecutionsTrue' /\ RunsWhatItReports'
    BY DEF agent, ExecutionsTrue, RunsWhatItReports, CancelledStays
  <1>5. QED
    BY <1>1, <1>2, <1>3, <1>4

\* The usual case: nothing is sent.
LEMMA ServerSilent ==
    ASSUME IndInv, UNCHANGED agent, uploaded' = uploaded, HistoryOK', DbOK', ServerOK', CancelledStays,
           up' = up \/ up' = <<>> \/ (up # <<>> /\ up' = Tail(up)), down' = down
    PROVE  IndInv'
  <1> USE Parts, PartsNext DEF IndInv
  <1>1. up' \in Seq(AgentMessage) /\ Sent(up') \subseteq Sent(up)
    <2>1. <<>> \in Seq(AgentMessage) /\ Sent(<<>>) = {}
      BY DEF Sent
    <2>2. QED
      BY <2>1, SentTail, Zenon DEF QueuesOK
  <1>2. TypeOK'
    BY <1>1 DEF agent, AgentOK, QueuesOK
  <1>3. ResultsUploaded' /\ NoticesTrue'
    BY <1>1 DEF agent, ResultsUploaded, NoticesTrue, CancelledStays
  <1>4. ExecutionsTrue' /\ RunsWhatItReports'
    BY DEF agent, ExecutionsTrue, RunsWhatItReports, CancelledStays
  <1>5. QED
    BY <1>2, <1>3, <1>4

\* Rows that are not touched.
LEMMA RowsSame ==
    ASSUME DbOK, UNCHANGED db
    PROVE  DbOK' /\ CancelledStays
  BY DEF db, DbOK, CancelledStays

\* A rollback touches only shards that are LEASED or RUNNING.
LEMMA RequeueKeeps ==
    ASSUME DbOK, NEW S, \A s \in S \cap Shards : shard[s] # "CANCELLED", Requeue(S)
    PROVE  DbOK' /\ CancelledStays
  BY DEF Requeue, DbOK, RowStatus, CancelledStays

\* The sweep rolls back shards the agent holds.
LEMMA SweepKeeps ==
    ASSUME DbOK, HistoryOK, Sweep
    PROVE  DbOK' /\ CancelledStays /\ HistoryOK' /\ uploaded' = uploaded
  <1>1. \A s \in Held : shard[s] # "CANCELLED"
    BY DEF Held, Active
  <1>2. CASE Requeue(Held) /\ UNCHANGED history
    BY <1>1, <1>2, RequeueKeeps, FaultCounted
  <1>3. ASSUME NEW s \in Held, Requeue(Held \ {s}), Fault
        PROVE  DbOK' /\ CancelledStays /\ HistoryOK' /\ uploaded' = uploaded
    BY <1>1, <1>3, RequeueKeeps, FaultCounted
  <1>4. QED
    BY <1>2, <1>3, Zenon DEF Sweep

\* The registry entry after SetAgent.
LEMMA SetAgentType ==
    ASSUME ServerOK, NEW st \in {"TIMED_OUT"} \cup Connected, NEW s \in MaybeShard, SetAgent(st, s)
    PROVE  registry' \in [status : {"ABSENT", "UNRESPONSIVE", "DISCONNECTED", "TIMED_OUT"} \cup Connected,
                          pre : {"none"} \cup Connected, shard : MaybeShard]
  BY Zenon DEF ServerOK, SetAgent

\* The message at the head of the queue.
LEMMA HeadOfUp ==
    ASSUME IndInv, up # <<>>
    PROVE  /\ Head(up).shard \in MaybeShard
           /\ Head(up).kind \notin {"Register", "Heartbeat"} => Head(up).shard \in Shards
           /\ Head(up).kind = "ShardResultReady" => Head(up).shard \in uploaded
           /\ Tail(up) \in Seq(AgentMessage) /\ Sent(Tail(up)) \subseteq Sent(up)
  <1>1. /\ Head(up) \in AgentMessage /\ Head(up) \in Sent(up)
        /\ Tail(up) \in Seq(AgentMessage) /\ Sent(Tail(up)) \subseteq Sent(up)
    BY SentTail, Parts DEF IndInv, QueuesOK
  <1>2. QED
    BY <1>1 DEF IndInv, ResultsUploaded, AgentMessage, Message, MaybeShard

\* Opening and closing the stream on the server, and timers: rows change at
\* most by a rollback.
LEMMA ServeStep ==
    ASSUME IndInv,
           \/ HandleRegister \/ HandleReconnectedAgent \/ ReceiveFails \/ HandlerReturns
           \/ HandleHeartbeat \/ Reject
    PROVE  IndInv'
  <1> USE Parts DEF IndInv
  <1>1. UNCHANGED agent /\ down' = down
    BY DEF HandleRegister, HandleReconnectedAgent, ReceiveFails, HandlerReturns, HandleHeartbeat, Reject
  <1>2. up' = up \/ up' = <<>> \/ (up # <<>> /\ up' = Tail(up))
    BY DEF HandleRegister, HandleReconnectedAgent, ReceiveFails, HandlerReturns, HandleHeartbeat, Reject,
           Handle
  <1>3. DbOK' /\ CancelledStays /\ HistoryOK' /\ uploaded' = uploaded
    <2>1. CASE HandleRegister \/ ReceiveFails \/ HandlerReturns \/ Reject
      BY <2>1, RowsSame, FaultCounted DEF HandleRegister, ReceiveFails, HandlerReturns, Reject
    <2>2. CASE HandleReconnectedAgent \/ HandleHeartbeat
      BY <2>2, RowsSame, FaultCounted, SweepKeeps DEF HandleReconnectedAgent, HandleHeartbeat
    <2>3. QED
      BY <2>1, <2>2
  <1>4. ServerOK'
    <2>1. CASE HandleRegister \/ HandlerReturns
      BY <2>1, Zenon DEF HandleRegister, HandlerReturns, Recovered, ServerOK, Connected
    <2>2. CASE ReceiveFails \/ Reject
      BY <2>2 DEF ReceiveFails, Reject, ServerOK
    <2>3. CASE HandleReconnectedAgent
      BY <2>3, SetAgentType DEF HandleReconnectedAgent, ServerOK, MaybeShard, Connected
    <2>4. CASE HandleHeartbeat
      <3>1. Head(up).shard \in MaybeShard
        BY <2>4, HeadOfUp DEF HandleHeartbeat, Handle
      <3>2. QED
        BY <2>4, <3>1, SetAgentType DEF HandleHeartbeat, ServerOK, MaybeShard, Connected
    <2>5. QED
      BY <2>1, <2>2, <2>3, <2>4
  <1>5. QED
    BY <1>1, <1>2, <1>3, <1>4, ServerSilent

\* A start report makes a LEASED shard RUNNING.
LEMMA StartedStep ==
    ASSUME IndInv, HandleShardStarted
    PROVE  IndInv'
  <1> USE Parts DEF IndInv
  <1> DEFINE s == Head(up).shard
  <1>1. up # <<>> /\ Head(up).kind = "ShardStarted" /\ up' = Tail(up)
    BY DEF HandleShardStarted, Handle
  <1>2. s \in Shards
    BY <1>1, HeadOfUp
  <1>3. shard[s] = "LEASED"
    BY <1>1 DEF HandleShardStarted, Acceptable
  <1>4. /\ shard' = [shard EXCEPT ![s] = "RUNNING"] /\ started' = started \cup {s}
        /\ SetAgent("RUNNING", s) /\ UNCHANGED <<owner, session, down, agent, history>>
    BY DEF HandleShardStarted
  <1> HIDE DEF s
  <1>5. DbOK' /\ CancelledStays
    BY <1>2, <1>3, <1>4 DEF DbOK, RowStatus, Active, CancelledStays
  <1>6. ServerOK'
    BY <1>2, <1>4, SetAgentType DEF ServerOK, Connected, MaybeShard
  <1>7. HistoryOK' /\ uploaded' = uploaded
    BY <1>4, FaultCounted
  <1>8. QED
    BY <1>1, <1>4, <1>5, <1>6, <1>7, ServerSilent

\* A report ends a RUNNING shard; a result is acknowledged, and it was uploaded.
LEMMA ReportStep ==
    ASSUME IndInv, HandleShardResultReady \/ HandleShardFailed
    PROVE  IndInv'
  <1> USE Parts DEF IndInv
  <1> DEFINE s == Head(up).shard
             m == Msg("ShardResultStored", s)
  <1>1. /\ up # <<>> /\ Head(up).kind \in {"ShardResultReady", "ShardFailed"} /\ up' = Tail(up)
        /\ HandleShardResultReady => Head(up).kind = "ShardResultReady"
    BY DEF HandleShardResultReady, HandleShardFailed, HandleReport, Handle
  <1>2. /\ s \in Shards /\ (HandleShardResultReady => s \in uploaded)
        /\ up' \in Seq(AgentMessage) /\ Sent(up') \subseteq Sent(up)
    BY <1>1, HeadOfUp
  <1>3. /\ shard' = shard \/ (shard[s] = "RUNNING" /\ shard' \in {[shard EXCEPT ![s] = "SUCCEEDED"],
                                                             [shard EXCEPT ![s] = "FAILED"]})
        /\ (Deliver(<<m>>) /\ HandleShardResultReady) \/ Deliver(<<>>) \/ down' = down
        /\ \/ SetAgent("IDLE", NoShard) /\ session' = "assign"
           \/ UNCHANGED <<registry, session>>
           \/ session' = "ending" /\ registry' = registry
        /\ UNCHANGED <<owner, started, agent>> /\ (UNCHANGED history \/ Fault)
    BY DEF HandleShardResultReady, HandleShardFailed, HandleReport, Stored, SendFails, server
  <1>4. m \in ServerMessage /\ m.kind = "ShardResultStored" /\ m.shard = s
    BY <1>2 DEF Msg, ServerMessage, Message
  <1>5. down' \in Seq(ServerMessage) /\ Sent(down') \subseteq Sent(down) \cup {m}
    BY <1>3, <1>4, Delivered DEF QueuesOK
  <1>6. HandleShardResultReady \/ Sent(down') \subseteq Sent(down)
    <2>1. <<>> \in Seq(ServerMessage) /\ Sent(<<>>) = {} /\ down \o <<>> = down
      BY ConcatEmptySeq DEF Sent, QueuesOK
    <2>2. QED
      BY <1>3, <2>1 DEF Deliver
  <1> HIDE DEF s, m
  <1>7. DbOK' /\ CancelledStays
    BY <1>2, <1>3 DEF DbOK, RowStatus, Ended, CancelledStays
  <1>8. ServerOK'
    BY <1>3, SetAgentType DEF ServerOK, Connected, MaybeShard
  <1>9. HistoryOK' /\ uploaded' = uploaded
    BY <1>3, FaultCounted
  <1>10. CASE HandleShardResultReady
    BY <1>2, <1>3, <1>4, <1>5, <1>7, <1>8, <1>9, <1>10, ServerKeeps
  <1>11. CASE Sent(down') \subseteq Sent(down)
    <2>1. NoticesTrue'
      BY <1>7, <1>9, <1>11, SMTT(30) DEF NoticesTrue, CancelledStays
    <2>2. ResultsUploaded' /\ ExecutionsTrue' /\ RunsWhatItReports'
      BY <1>2, <1>3, <1>7, <1>9, SMTT(30)
      DEF agent, ResultsUploaded, ExecutionsTrue, RunsWhatItReports, CancelledStays
    <2>3. QED
      BY <1>2, <1>3, <1>5, <1>7, <1>8, <1>9, <2>1, <2>2, PartsNext DEF agent, AgentOK, QueuesOK
  <1>12. QED
    BY <1>6, <1>10, <1>11

\* A QUEUED shard is leased to the agent.
LEMMA AssignmentStep ==
    ASSUME IndInv, TryAssignShard
    PROVE  IndInv'
  <1> USE Parts DEF IndInv
  <1>1. UNCHANGED agent /\ up' = up /\ up \in Seq(AgentMessage)
    BY DEF TryAssignShard, QueuesOK
  <1>2. HistoryOK' /\ uploaded' = uploaded
    BY FaultCounted, Zenon DEF TryAssignShard, SendFails
  <1>3. CASE UNCHANGED db /\ down' = down
    <2>1. ServerOK'
      BY SetAgentType, Zenon DEF TryAssignShard, ServerOK, Connected, MaybeShard
    <2>2. QED
      BY <1>1, <1>2, <1>3, <2>1, RowsSame, ServerSilent
  <1>4. ASSUME NEW s \in Shards, shard[s] = "QUEUED", shard' = [shard EXCEPT ![s] = "LEASED"],
               owner' = [owner EXCEPT ![s] = "self"], SetAgent("RUNNING", s), started' = started,
               session' \in {"loop", "ending"}, Deliver(<<Msg("AssignShard", s)>>) \/ down' = down
        PROVE  IndInv'
    <2> DEFINE m == Msg("AssignShard", s)
    <2>1. m \in ServerMessage /\ m.kind = "AssignShard" /\ m.shard = s
      BY DEF Msg, ServerMessage, Message
    <2>2. down' \in Seq(ServerMessage) /\ Sent(down') \subseteq Sent(down) \cup {m}
      BY <1>4, <2>1, Delivered DEF QueuesOK
    <2> HIDE DEF m
    <2>3. DbOK' /\ CancelledStays
      BY <1>4 DEF DbOK, RowStatus, Active, CancelledStays
    <2>4. ServerOK'
      BY <1>4, SetAgentType DEF ServerOK, Connected, MaybeShard
    <2>5. QED
      BY <1>1, <1>2, <2>1, <2>2, <2>3, <2>4, ServerKeeps
  <1>5. QED
    BY <1>3, <1>4, Zenon DEF TryAssignShard

\* Timers, restart, clean-up and the other agents.
LEMMA SurroundingsStep ==
    ASSUME IndInv,
           \/ HeartbeatTimeout \/ GraceExpires \/ ServerRestarts \/ CleanupOrphanShards
           \/ \E s \in Shards : OtherAgent(s)
    PROVE  IndInv'
  <1> USE Parts DEF IndInv
  <1>1. UNCHANGED agent /\ down' = down /\ (up' = up \/ up' = <<>>)
    BY Zenon DEF HeartbeatTimeout, GraceExpires, ServerRestarts, CleanupOrphanShards, OtherAgent
  <1>2. HistoryOK' /\ uploaded' = uploaded
    BY FaultCounted, Zenon DEF HeartbeatTimeout, GraceExpires, ServerRestarts, CleanupOrphanShards, OtherAgent
  <1>3. \A s \in Held : shard[s] # "CANCELLED"
    BY DEF Held, Active
  <1>4. CASE HeartbeatTimeout \/ ServerRestarts
    <2>1. ServerOK'
      BY <1>4, SetAgentType DEF HeartbeatTimeout, ServerRestarts, ServerOK, Connected, MaybeShard
    <2>2. QED
      BY <1>1, <1>2, <1>4, <2>1, RowsSame, ServerSilent DEF HeartbeatTimeout, ServerRestarts
  <1>5. CASE GraceExpires
    <2>1. DbOK' /\ CancelledStays
      BY <1>3, <1>5, RequeueKeeps DEF GraceExpires
    <2>2. ServerOK'
      BY <1>5, SetAgentType DEF GraceExpires, ServerOK, MaybeShard
    <2>3. QED
      BY <1>1, <1>2, <2>1, <2>2, ServerSilent
  <1>6. CASE CleanupOrphanShards
    <2>1. DbOK' /\ CancelledStays
      BY <1>3, <1>6, RequeueKeeps DEF CleanupOrphanShards
    <2>2. ServerOK'
      BY <1>6 DEF CleanupOrphanShards, server, ServerOK
    <2>3. QED
      BY <1>1, <1>2, <2>1, <2>2, ServerSilent
  <1>7. ASSUME NEW s \in Shards, OtherAgent(s)
        PROVE  IndInv'
    <2>1. DbOK' /\ CancelledStays
      <3>1. CASE shard[s] = "RUNNING" /\ Requeue({s})
        BY <3>1, RequeueKeeps
      <3>2. CASE shard[s] = "QUEUED" /\ shard' = [shard EXCEPT ![s] = "RUNNING"]
                 /\ owner' = [owner EXCEPT ![s] = "other"] /\ started' = started \cup {s}
        BY <3>2 DEF DbOK, RowStatus, Active, CancelledStays
      <3>3. ASSUME shard[s] = "RUNNING", NEW st \in {"SUCCEEDED", "FAILED"},
                   shard' = [shard EXCEPT ![s] = st], UNCHANGED <<owner, started>>
            PROVE  DbOK' /\ CancelledStays
        BY <3>3 DEF DbOK, RowStatus, Ended, CancelledStays
      <3>4. QED
        BY <1>7, <3>1, <3>2, <3>3 DEF OtherAgent
    <2>2. ServerOK'
      BY <1>7 DEF OtherAgent, server, ServerOK
    <2>3. QED
      BY <1>1, <1>2, <2>1, <2>2, ServerSilent
  <1>8. QED
    BY <1>4, <1>5, <1>6, <1>7

\* A shard is cancelled, and its agent told.
LEMMA CancelStep ==
    ASSUME IndInv, NEW s \in Shards, CancelShard(s)
    PROVE  IndInv'
  <1> USE Parts DEF IndInv
  <1> DEFINE m == Msg("CancelShard", s)
  <1>1. UNCHANGED <<server, up, agent, history>> /\ (Deliver(<<m>>) \/ down' = down)
    BY DEF CancelShard
  <1>2. m \in ServerMessage /\ m.kind = "CancelShard" /\ m.shard = s
    BY DEF Msg, ServerMessage, Message
  <1>3. down' \in Seq(ServerMessage) /\ Sent(down') \subseteq Sent(down) \cup {m}
    BY <1>1, <1>2, Delivered DEF QueuesOK
  <1> HIDE DEF m
  <1>4. DbOK' /\ CancelledStays /\ shard'[s] = "CANCELLED"
    BY DEF CancelShard, CancelledRow, DbOK, RowStatus, Ended, CancelledStays
  <1>5. ServerOK' /\ up' = up /\ up \in Seq(AgentMessage)
    BY <1>1 DEF server, ServerOK, QueuesOK
  <1>6. HistoryOK' /\ uploaded' = uploaded
    BY <1>1, FaultCounted
  <1>7. QED
    BY <1>1, <1>2, <1>3, <1>4, <1>5, <1>6, ServerKeeps

-----------------------------------------------------------------------------
\* Every step keeps the invariant.
LEMMA IndInvStep ==
    ASSUME IndInv, [Next]_vars
    PROVE  IndInv'
  <1>1. CASE UNCHANGED vars
    <2>1. TypeOK'
      BY <1>1, Parts, PartsNext
      DEF IndInv, vars, DbOK, ServerOK, AgentOK, QueuesOK, HistoryOK
    <2>2. QED
      BY <1>1, <2>1
      DEF IndInv, vars, ResultsUploaded, NoticesTrue, ExecutionsTrue, RunsWhatItReports
  <1>2. CASE Next
    BY <1>2, OpenStep, HeartbeatStep, AssignStep, CancelNoticeStep, StoredStep, ExecutionStep, ServeStep,
       StartedStep, ReportStep, AssignmentStep, SurroundingsStep, CancelStep
    DEF Next, Receive, HandleMessage, Serve
  <1>3. QED
    BY <1>1, <1>2, SMTT(30)

\* The invariant holds of every reachable state.
LEMMA Inductive == Spec => []IndInv
  <1>1. ASSUME Init PROVE IndInv
    <2>1. DbOK /\ ServerOK /\ HistoryOK
      BY <1>1, SessionAssumption DEF Init, DbOK, ServerOK, HistoryOK, RowStatus, MaybeShard
    <2>2. AgentOK
      BY <1>1 DEF Init, AgentOK, NoExec, ExecType, MaybeShard
    <2>3. QueuesOK /\ Sent(up) = {} /\ Sent(down) = {}
      BY <1>1 DEF Init, QueuesOK, Sent
    <2>4. \A e \in Executions : exec[e] = NoExec
      BY <1>1 DEF Init
    <2>5. ResultsUploaded /\ NoticesTrue
      BY <1>1, <2>3 DEF Init, ResultsUploaded, NoticesTrue
    <2>6. ExecutionsTrue /\ RunsWhatItReports
      BY <2>4 DEF ExecutionsTrue, RunsWhatItReports, NoExec
    <2>7. QED
      BY <2>1, <2>2, <2>3, <2>5, <2>6, Parts DEF IndInv
  <1>2. IndInv /\ [Next]_vars => IndInv'
    BY IndInvStep
  <1>3. QED
    BY <1>1, <1>2, PTL DEF Spec

\* The rows, the registry, the queues and the agent stay well formed.
THEOREM SessionTypes == Spec => []TypeOK
  BY Inductive, PTL DEF IndInv

\* The agent runs at most one shard per stream, the one it reports, unless it
\* runs again what it has uploaded before.
THEOREM OneShardAtATime == Spec => []RunsWhatItReports
  BY Inductive, PTL DEF IndInv

\* A cancellation notice stops only executions of CANCELLED shards, however late
\* it arrives.
THEOREM StopsAreJustified == Spec => []StopsOnlyCancelled
  <1>1. IndInv => StopsOnlyCancelled
    BY DEF IndInv, ExecutionsTrue, StopsOnlyCancelled
  <1>2. QED
    BY <1>1, Inductive, PTL

\* HandleShardResultReady ends a shard as SUCCEEDED only over an uploaded output,
\* although the result may have been sent on an earlier stream and sent again.
THEOREM SuccessIsReal == Spec => SuccessHasOutput
  <1> DEFINE Covered ==
        \A s \in Shards :
          shard[s] = "RUNNING" /\ owner[s] = "self" /\ shard'[s] = "SUCCEEDED" => s \in uploaded
  <1>1. ASSUME IndInv, [Next]_vars
        PROVE  Covered
    <2> USE <1>1, Parts DEF IndInv, DbOK
    <2>1. CASE UNCHANGED shard
      BY <2>1
    <2>2. CASE HandleShardResultReady
      <3>1. up # <<>> /\ Head(up).kind = "ShardResultReady"
        BY <2>2 DEF HandleShardResultReady, HandleReport, Handle
      <3>2. Head(up).shard \in uploaded
        BY <3>1, HeadOfUp
      <3>3. shard' = shard \/ shard' = [shard EXCEPT ![Head(up).shard] = "SUCCEEDED"]
        BY <2>2 DEF HandleShardResultReady, HandleReport
      <3>4. QED
        BY <3>2, <3>3
    <2>3. CASE HandleShardFailed
      BY <2>3 DEF HandleShardFailed, HandleReport
    <2>4. ASSUME NEW S, Requeue(S) PROVE Covered
      BY <2>4, SMTT(30) DEF Requeue
    <2>5. CASE HandleHeartbeat \/ HandleReconnectedAgent \/ GraceExpires \/ CleanupOrphanShards
      BY <2>1, <2>4, <2>5, Zenon
      DEF HandleHeartbeat, HandleReconnectedAgent, Sweep, GraceExpires, CleanupOrphanShards, db
    <2>6. CASE HandleShardStarted \/ TryAssignShard \/ \E s \in Shards : CancelShard(s)
      BY <2>6, Zenon DEF HandleShardStarted, TryAssignShard, CancelShard, CancelledRow, db
    <2>7. ASSUME NEW s \in Shards, OtherAgent(s) PROVE Covered
      BY <2>4, <2>7 DEF OtherAgent
    <2>8. CASE \/ Open \/ SendHeartbeat \/ Receive \/ \E e \in Executions : Execution(e)
               \/ StreamBreaks \/ AgentRestarts \/ Reject \/ HandleRegister \/ ReceiveFails
               \/ HandlerReturns \/ HeartbeatTimeout \/ ServerRestarts
      <3>1. UNCHANGED shard
        BY <2>8, Zenon DEF Open, Connect, Opened, ResendPending, StreamEnded, SendHeartbeat, Receive,
             ReceiveAssignShard, ReceiveCancelShard, ReceiveShardResultStored, Execution, ExecutionFails,
             ExecutionResets, ExecutionSucceeds, StreamBreaks, AgentRestarts, Reject, HandleRegister,
             ReceiveFails, HandlerReturns, HeartbeatTimeout, ServerRestarts, db
      <3>2. QED
        BY <3>1
    <2>9. CASE UNCHANGED vars
      BY <2>9 DEF vars
    <2>10. QED
      BY <2>2, <2>3, <2>5, <2>6, <2>7, <2>8, <2>9 DEF Next, HandleMessage, Serve
  <1>2. IndInv /\ [Next]_vars => [Covered]_vars
    BY <1>1
  <1>3. QED
    BY <1>2, Inductive, PTL DEF Spec, SuccessHasOutput

-----------------------------------------------------------------------------
(* What a busy agent waits for *)

\* Register is the only message of a stream the agent is opening, and of one it
\* has left before the server read it.
NoRegister(q) == \A m \in Sent(q) : m.kind # "Register"
RegisterAlone ==
    \/ NoRegister(up)
    \/ /\ session = "none" /\ client \in {"down", "opening"}
       /\ up = <<Msg("Register", NoShard)>>

\* Nothing is on the way to an agent that has left, or that the server has not
\* registered yet.
FirstMessage == client = "down" \/ up = <<Msg("Register", NoShard)>> => down = <<>>

\* The status of a new stream is the pending result, which is sent next.
OpensWithPending == client = "opened" => current \in {pending, NoShard}

\* The four ways in which BusyIsWatched holds.
Runs == \E e \in Executions : exec[e].own /\ exec[e].shard = current
Announced == Msg("ShardResultReady", current) \in Sent(up)
Acknowledged == Msg("ShardResultStored", current) \in Sent(down)
Over == session \in {"none", "ending"}

\* BusyIsWatched by name ...
LEMMA Watched ==
    BusyIsWatched <=> (client = "up" /\ current # NoShard => Runs \/ Announced \/ Acknowledged \/ Over)
  <1>1. Announced <=> \E i \in 1..Len(up) : up[i] = Msg("ShardResultReady", current)
    BY DEF Announced, Sent
  <1>2. Acknowledged <=> \E i \in 1..Len(down) : down[i] = Msg("ShardResultStored", current)
    BY DEF Acknowledged, Sent
  <1>3. QED
    BY <1>1, <1>2, Zenon DEF BusyIsWatched, Runs, Over

\* ... and in the next state.
LEMMA WatchedNext ==
    BusyIsWatched' <=>
      (client' = "up" /\ current' # NoShard => Runs' \/ Announced' \/ Acknowledged' \/ Over')
  <1>1. Announced' <=> \E i \in 1..Len(up') : up'[i] = Msg("ShardResultReady", current')
    BY DEF Announced, Sent
  <1>2. Acknowledged' <=> \E i \in 1..Len(down') : down'[i] = Msg("ShardResultStored", current')
    BY DEF Acknowledged, Sent
  <1>3. QED
    BY <1>1, <1>2, Zenon DEF BusyIsWatched, Runs, Over

\* Taking the first message leaves all others.
LEMMA SentLater ==
    ASSUME NEW S, NEW q \in Seq(S), q # <<>>, NEW m \in Sent(q), m # Head(q)
    PROVE  m \in Sent(Tail(q))
  <1>1. PICK i \in 1..Len(q) : m = q[i]
    BY DEF Sent
  <1>2. i # 1 /\ Len(q) \in Nat
    BY <1>1
  <1>3. /\ Len(Tail(q)) = Len(q) - 1 /\ i - 1 \in 1..(Len(q) - 1)
        /\ Tail(q)[i - 1] = q[i]
    BY <1>1, <1>2
  <1>4. QED
    BY <1>1, <1>3, Zenon DEF Sent

\* A message for an agent that is on the stream is added to the others.
LEMMA DeliveredUp ==
    ASSUME NEW S, down \in Seq(S), NEW m \in S, client = "up", Deliver(<<m>>)
    PROVE  Sent(down') = Sent(down) \cup {m}
  <1>1. down' = Append(down, m)
    BY AppendIsConcat DEF Deliver
  <1>2. QED
    BY <1>1, SentAppend

\* Two messages are the same only if their kinds and shards are.
LEMMA MsgFields ==
    ASSUME NEW k, NEW x
    PROVE  Msg(k, x).kind = k /\ Msg(k, x).shard = x
  BY DEF Msg

-----------------------------------------------------------------------------
\* Adding anything but a Register keeps a queue free of it, and so does taking
\* something away.
LEMMA RegisterKept ==
    ASSUME NEW q, NEW r, NoRegister(q), NEW m, m.kind # "Register", Sent(r) \subseteq Sent(q) \cup {m}
    PROVE  NoRegister(r)
  BY DEF NoRegister

\* The agent sends Register first and once.
LEMMA RegisterAgentStep ==
    ASSUME IndInv, RegisterAlone, FirstMessage,
           \/ Open \/ SendHeartbeat \/ Receive \/ StreamBreaks \/ AgentRestarts
           \/ \E e \in Executions : Execution(e)
    PROVE  RegisterAlone'
  <1> USE Parts DEF IndInv
  <1> DEFINE R == Msg("Register", NoShard)
  <1>1. session' = session /\ up \in Seq(AgentMessage)
    BY Zenon DEF Open, Connect, Opened, ResendPending, StreamEnded, SendHeartbeat, Receive, ReceiveAssignShard,
       ReceiveCancelShard, ReceiveShardResultStored, Execution, ExecutionFails, ExecutionResets,
       ExecutionSucceeds, StreamBreaks, AgentRestarts, server, QueuesOK
  <1>2. Sent(<<>>) = {} /\ NoRegister(<<>>)
    BY DEF Sent, NoRegister
  <1>3. CASE Connect
    BY <1>3 DEF Connect, RegisterAlone, server
  <1>4. ASSUME client' \in {"down", "opening"} \/ client' = client, up' = up \/ up' = <<>>
        PROVE  RegisterAlone'
    BY <1>1, <1>2, <1>4, Zenon DEF RegisterAlone
  <1>5. CASE Opened
    BY <1>1, <1>5 DEF Opened, RegisterAlone, FirstMessage
  <1>6. ASSUME client \in {"opened", "up"}, NEW m \in AgentMessage, m.kind # "Register", up' = Append(up, m)
        PROVE  RegisterAlone'
    <2>1. NoRegister(up)
      BY <1>6 DEF RegisterAlone
    <2>2. Sent(up') \subseteq Sent(up) \cup {m}
      BY <1>1, <1>6, SentAppend
    <2>3. QED
      BY <1>6, <2>1, <2>2, RegisterKept DEF RegisterAlone
  <1>7. CASE ResendPending
    <2>1. Msg("ShardResultReady", pending) \in AgentMessage /\ Msg("ShardResultReady", pending).kind # "Register"
      BY AgentMessages DEF AgentOK
    <2>2. CASE up' = up
      BY <1>1, <1>7, <2>2 DEF ResendPending, RegisterAlone
    <2>3. QED
      BY <1>6, <1>7, <2>1, <2>2 DEF ResendPending
  <1>8. CASE SendHeartbeat
    <2>1. Msg("Heartbeat", current) \in AgentMessage /\ Msg("Heartbeat", current).kind # "Register"
      BY AgentMessages DEF AgentOK
    <2>2. QED
      BY <1>6, <1>8, <2>1 DEF SendHeartbeat
  <1>9. CASE StreamBreaks
    <2>1. PICK n \in 0..Len(up) : up' = SubSeq(up, 1, n)
      BY <1>9 DEF StreamBreaks
    <2>2. client' = "down" /\ Sent(up') \subseteq Sent(up)
      BY <1>1, <1>9, <2>1, SentPrefix DEF StreamBreaks, LoopReturns
    <2>3. CASE NoRegister(up)
      BY <2>2, <2>3 DEF NoRegister, RegisterAlone
    <2>4. CASE up = <<R>>
      <3>1. Len(up) = 1
        BY <2>4
      <3>2. n = Len(up) \/ n < 1
        BY <3>1
      <3>3. up' = up \/ up' = <<>>
        BY <1>1, <2>1, <3>2, SubSeqFull, SubSeqEmpty
      <3>4. QED
        BY <1>4, <2>2, <3>3
    <2>5. QED
      BY <2>3, <2>4 DEF RegisterAlone
  <1>10. CASE StreamEnded \/ AgentRestarts
    BY <1>4, <1>10 DEF StreamEnded, AgentRestarts, LoopReturns
  <1>11. CASE ReceiveAssignShard
    <2> DEFINE m == Msg("ShardStarted", Head(down).shard)
    <2>1. client = "up" /\ down # <<>>
      BY <1>11 DEF ReceiveAssignShard, Received
    <2>2. m \in AgentMessage /\ m.kind # "Register"
      <3>1. Head(down) \in Sent(down)
        BY <2>1, SentTail DEF QueuesOK
      <3>2. Head(down).shard \in MaybeShard
        BY <3>1 DEF NoticesTrue, MaybeShard
      <3>3. QED
        BY <3>2, AgentMessages
    <2>3. (LoopReturns /\ up' = up) \/ up' = Append(up, m)
      BY <1>11, Zenon DEF ReceiveAssignShard
    <2> HIDE DEF m
    <2>4. QED
      BY <1>4, <1>6, <2>1, <2>2, <2>3 DEF LoopReturns
  <1>12. CASE ReceiveCancelShard \/ ReceiveShardResultStored
    BY <1>4, <1>12 DEF ReceiveCancelShard, ReceiveShardResultStored
  <1>13. ASSUME NEW e \in Executions, Execution(e) PROVE RegisterAlone'
    <2>1. client' = client
      BY <1>13, Zenon DEF Execution, ExecutionFails, ExecutionResets, ExecutionSucceeds
    <2>2. PICK k \in {"ShardFailed", "ShardResultReady"} : up' = up \/ SendFrom(e, k)
      BY <1>13, Zenon DEF Execution, ExecutionFails, ExecutionResets, ExecutionSucceeds, FailureReport
    <2>3. Msg(k, exec[e].shard) \in AgentMessage /\ Msg(k, exec[e].shard).kind # "Register"
      BY AgentMessages DEF AgentOK, ExecType
    <2>4. CASE up' = up
      BY <1>4, <2>1, <2>4
    <2>5. CASE exec[e].own /\ up' = Append(up, Msg(k, exec[e].shard))
      <3>1. client = "up"
        BY <2>5 DEF ExecutionsTrue
      <3>2. QED
        BY <1>6, <2>3, <2>5, <3>1
    <2>6. QED
      BY <2>2, <2>4, <2>5 DEF SendFrom
  <1>14. QED
    BY <1>3, <1>5, <1>7, <1>8, <1>9, <1>10, <1>11, <1>12, <1>13 DEF Open, Receive

\* The server takes Register before it reads anything else.
LEMMA RegisterServerStep ==
    ASSUME IndInv, RegisterAlone, UNCHANGED agent,
           \/ UNCHANGED <<session, up>>
           \/ up' = <<>>
           \/ session # "none" /\ up' = up
           \/ up # <<>> /\ up' = Tail(up) /\ (session # "none" \/ Head(up).kind = "Register")
    PROVE  RegisterAlone'
  <1> USE Parts DEF IndInv
  <1>1. NoRegister(<<>>)
    BY DEF Sent, NoRegister
  <1>2. CASE UNCHANGED <<session, up>>
    BY <1>2 DEF agent, RegisterAlone
  <1>3. CASE up' = <<>>
    BY <1>1, <1>3, Zenon DEF RegisterAlone
  <1>4. CASE session # "none" /\ up' = up
    BY <1>4, Zenon DEF RegisterAlone
  <1>5. CASE up # <<>> /\ up' = Tail(up)
    <2>1. CASE NoRegister(up)
      <3>1. Sent(up') \subseteq Sent(up)
        BY <1>5, SentTail DEF QueuesOK
      <3>2. QED
        BY <2>1, <3>1 DEF NoRegister, RegisterAlone
    <2>2. CASE up = <<Msg("Register", NoShard)>>
      <3>1. up' = <<>>
        BY <1>5, <2>2
      <3>2. QED
        BY <1>3, <3>1
    <2>3. QED
      BY <2>1, <2>2 DEF RegisterAlone
  <1>6. QED
    BY <1>2, <1>3, <1>4, <1>5

\* Only the loop of an agent on the stream reads messages, and they are gone
\* when it returns.
LEMMA FirstAgentStep ==
    ASSUME IndInv, RegisterAlone, FirstMessage,
           \/ Open \/ SendHeartbeat \/ Receive \/ StreamBreaks \/ AgentRestarts
           \/ \E e \in Executions : Execution(e)
    PROVE  FirstMessage'
  <1>1. RegisterAlone'
    BY RegisterAgentStep
  <1> DEFINE R == <<Msg("Register", NoShard)>>
  <1>2. up' = R => client' \in {"down", "opening"}
    <2>1. Msg("Register", NoShard) \in Sent(R) /\ Msg("Register", NoShard).kind = "Register"
      BY SentShort, MsgFields
    <2>2. QED
      BY <1>1, <2>1 DEF RegisterAlone, NoRegister
  <1>3. CASE StreamEnded \/ StreamBreaks \/ AgentRestarts \/ LoopReturns
    BY <1>3 DEF StreamEnded, StreamBreaks, AgentRestarts, LoopReturns, FirstMessage
  <1>4. CASE Connect
    BY <1>4 DEF Connect, FirstMessage
  <1>5. CASE Opened \/ ResendPending
    BY <1>2, <1>5 DEF Opened, ResendPending, FirstMessage
  <1>6. CASE SendHeartbeat \/ (Receive /\ ~LoopReturns)
    <2>1. client = "up" /\ client' = client
      BY <1>6, Zenon DEF SendHeartbeat, agent, Receive, ReceiveAssignShard, ReceiveCancelShard,
                         ReceiveShardResultStored, Received
    <2>2. QED
      BY <1>2, <2>1 DEF FirstMessage
  <1>7. ASSUME NEW e \in Executions, Execution(e) PROVE FirstMessage'
    <2>1. client' = client /\ down' = down
      BY <1>7, Zenon DEF Execution, ExecutionFails, ExecutionResets, ExecutionSucceeds
    <2>2. client # "up" => up' = up
      BY <1>7 DEF Execution, ExecutionFails, ExecutionResets, ExecutionSucceeds, SendFrom,
                  IndInv, ExecutionsTrue
    <2>3. QED
      BY <1>2, <2>1, <2>2 DEF FirstMessage
  <1>8. QED
    BY <1>3, <1>4, <1>5, <1>6, <1>7 DEF Open

\* The server sends only once it has registered the agent.
LEMMA FirstServerStep ==
    ASSUME IndInv, RegisterAlone, FirstMessage,
           \/ HandleMessage \/ Reject \/ Serve
           \/ HeartbeatTimeout \/ GraceExpires \/ ServerRestarts \/ CleanupOrphanShards
           \/ \E s \in Shards : CancelShard(s) \/ OtherAgent(s)
    PROVE  FirstMessage'
  <1> USE Parts DEF IndInv
  <1> DEFINE R == <<Msg("Register", NoShard)>>
  <1>1. client' = client
    BY Zenon DEF HandleMessage, HandleHeartbeat, HandleShardStarted, HandleShardResultReady, HandleShardFailed,
       HandleReport, Reject, Serve, HandleRegister, HandleReconnectedAgent, TryAssignShard, ReceiveFails,
       HandlerReturns, HeartbeatTimeout, GraceExpires, ServerRestarts, CleanupOrphanShards, CancelShard,
       OtherAgent, agent
  <1>2. up' = up \/ up' = <<>> \/ (up # <<>> /\ up' = Tail(up))
    BY Zenon DEF HandleMessage, HandleHeartbeat, HandleShardStarted, HandleShardResultReady, HandleShardFailed,
       HandleReport, Handle, Reject, Serve, HandleRegister, HandleReconnectedAgent, TryAssignShard, ReceiveFails,
       HandlerReturns, HeartbeatTimeout, GraceExpires, ServerRestarts, CleanupOrphanShards, CancelShard,
       OtherAgent
  <1>3. down' = down \/ (session # "none" /\ (client = "down" => down' = <<>>))
    <2>1. ASSUME NEW msgs, Deliver(msgs) PROVE client = "down" => down' = <<>>
      BY <2>1 DEF Deliver
    <2>2. CASE HandleShardResultReady \/ HandleShardFailed
      <3>1. session = "loop" /\ (down' = down \/ \E msgs : Deliver(msgs))
        BY <2>2, Zenon DEF HandleShardResultReady, HandleShardFailed, HandleReport, Handle
      <3>2. QED
        BY <2>1, <3>1
    <2>3. CASE TryAssignShard
      <3>1. session = "assign" /\ (down' = down \/ \E msgs : Deliver(msgs))
        BY <2>3, Zenon DEF TryAssignShard
      <3>2. QED
        BY <2>1, <3>1
    <2>4. ASSUME NEW s \in Shards, CancelShard(s)
          PROVE  down' = down \/ (session # "none" /\ (client = "down" => down' = <<>>))
      <3>1. down' = down \/ (session \in {"loop", "assign", "reconnect"} /\ \E msgs : Deliver(msgs))
        BY <2>4, Zenon DEF CancelShard
      <3>2. QED
        BY <2>1, <3>1
    <2>5. QED
      BY <2>2, <2>3, <2>4, Zenon
      DEF HandleMessage, HandleHeartbeat, HandleShardStarted, Reject, Serve, HandleRegister,
          HandleReconnectedAgent, ReceiveFails, HandlerReturns, HeartbeatTimeout, GraceExpires,
          ServerRestarts, CleanupOrphanShards, OtherAgent
  <1>4. up' = R => up = R
    <2>1. Sent(R) = {Msg("Register", NoShard)} /\ Msg("Register", NoShard).kind = "Register" /\ R # <<>>
      BY SentShort, MsgFields
    <2>2. CASE up # <<>> /\ up' = Tail(up) /\ up' = R
      <3>1. Sent(R) \subseteq Sent(up)
        BY <2>2, SentTail DEF QueuesOK
      <3>2. up = R
        BY <2>1, <3>1 DEF RegisterAlone, NoRegister
      <3>3. QED
        BY <3>2
    <2>3. QED
      BY <1>2, <2>1, <2>2
  <1>5. up = R => session = "none"
    <2>1. Msg("Register", NoShard) \in Sent(R) /\ Msg("Register", NoShard).kind = "Register"
      BY SentShort, MsgFields
    <2>2. QED
      BY <2>1 DEF RegisterAlone, NoRegister
  <1>6. QED
    BY <1>1, <1>3, <1>4, <1>5 DEF FirstMessage

-----------------------------------------------------------------------------
WatchInv == RegisterAlone /\ FirstMessage /\ OpensWithPending /\ BusyIsWatched

\* While the agent opens and leaves streams it is busy only with a result that
\* it announces at once.
LEMMA WatchOpen ==
    ASSUME IndInv, WatchInv, Open \/ StreamBreaks \/ AgentRestarts
    PROVE  OpensWithPending' /\ BusyIsWatched'
  <1> USE Parts DEF IndInv, WatchInv
  <1>1. CASE Connect \/ StreamEnded \/ StreamBreaks \/ AgentRestarts
    <2>1. client' \in {"down", "opening"}
      BY <1>1 DEF Connect, StreamEnded, StreamBreaks, AgentRestarts, LoopReturns
    <2>2. QED
      BY <2>1, WatchedNext DEF OpensWithPending
  <1>2. CASE Opened
    BY <1>2, WatchedNext DEF Opened, OpensWithPending
  <1>3. CASE ResendPending
    <2>1. client' = "up" /\ current' = current /\ current \in {pending, NoShard}
      BY <1>3 DEF ResendPending, OpensWithPending
    <2>2. ASSUME current # NoShard PROVE Announced'
      <3> DEFINE m == Msg("ShardResultReady", pending)
      <3>1. m \in AgentMessage /\ up' = Append(up, m) /\ pending = current
        BY <1>3, <2>1, <2>2, AgentMessages DEF AgentOK, ResendPending
      <3>2. m \in Sent(up')
        BY <3>1, SentAppend DEF QueuesOK
      <3>3. QED
        BY <2>1, <3>1, <3>2 DEF Announced
    <2>3. QED
      BY <2>1, <2>2, WatchedNext DEF OpensWithPending
  <1>4. QED
    BY <1>1, <1>2, <1>3 DEF Open

\* Heartbeats and messages from the server.
LEMMA WatchReceive ==
    ASSUME IndInv, WatchInv, SendHeartbeat \/ Receive
    PROVE  OpensWithPending' /\ BusyIsWatched'
  <1> USE Parts DEF IndInv, WatchInv
  <1>1. client = "up" /\ session' = session /\ client' \in {"up", "down"}
    BY Zenon DEF SendHeartbeat, Receive, ReceiveAssignShard, ReceiveCancelShard, ReceiveShardResultStored, Received,
       LoopReturns, agent, server
  <1>2. OpensWithPending'
    BY <1>1 DEF OpensWithPending
  <1>3. CASE SendHeartbeat
    <2>1. Msg("Heartbeat", current) \in AgentMessage
      BY AgentMessages DEF AgentOK
    <2>2. Sent(up) \subseteq Sent(up')
      BY <1>3, <2>1, SentAppend DEF SendHeartbeat, QueuesOK
    <2>3. UNCHANGED <<client, current, exec, down, session>>
      BY <1>3 DEF SendHeartbeat, agent, server
    <2>4. QED
      BY <1>2, <2>2, <2>3, Watched, WatchedNext DEF Runs, Announced, Acknowledged, Over
  <1>4. CASE ReceiveAssignShard
    <2>1. CASE LoopReturns
      BY <1>2, <2>1, WatchedNext DEF LoopReturns
    <2>2. CASE ~LoopReturns
      <3> DEFINE r == [NoExec EXCEPT !.shard = Head(down).shard, !.own = TRUE]
      <3>1. Busy # Executions /\ exec' = [exec EXCEPT ![FreeSlot] = r] /\ current' = Head(down).shard
        BY <1>4, <2>2, Zenon DEF ReceiveAssignShard
      <3>2. FreeSlot \in Executions
        BY <3>1 DEF FreeSlot, Busy
      <3>3. r.own /\ r.shard = Head(down).shard
        BY Zenon DEF NoExec
      <3> HIDE DEF r
      <3>4. exec'[FreeSlot] = r
        BY <3>1, <3>2 DEF AgentOK
      <3>5. QED
        BY <1>2, <3>1, <3>2, <3>3, <3>4, WatchedNext, Zenon DEF Runs
    <2>3. QED
      BY <2>1, <2>2
  <1>5. ASSUME NEW k, k = "CancelShard" \/ Head(down) # Msg("ShardResultStored", current), Received(k),
               down' = Tail(down), UNCHANGED <<up, client, current>>,
               \A e \in Executions : exec'[e].own = exec[e].own /\ exec'[e].shard = exec[e].shard
        PROVE  BusyIsWatched'
    <2>1. down # <<>> /\ Head(down) # Msg("ShardResultStored", current)
      BY <1>5, MsgFields DEF Received
    <2>2. Acknowledged => Acknowledged'
      BY <1>5, <2>1, SentLater DEF Acknowledged, QueuesOK
    <2>3. QED
      BY <1>1, <1>5, <2>2, Watched, WatchedNext DEF Runs, Announced, Over
  <1>6. CASE ReceiveCancelShard
    <2>1. \A e \in Executions : exec'[e].own = exec[e].own /\ exec'[e].shard = exec[e].shard
      BY <1>6, Zenon DEF ReceiveCancelShard, AgentOK, ExecType
    <2>2. QED
      BY <1>2, <1>5, <1>6, <2>1, Zenon DEF ReceiveCancelShard
  <1>7. CASE ReceiveShardResultStored
    <2>1. CASE current = Head(down).shard
      BY <1>2, <1>7, <2>1, WatchedNext DEF ReceiveShardResultStored, Cleared
    <2>2. CASE current # Head(down).shard
      <3>1. Head(down) # Msg("ShardResultStored", current)
        BY <2>2, MsgFields
      <3>2. UNCHANGED <<up, client, current, exec>> /\ down' = Tail(down) /\ Received("ShardResultStored")
        BY <1>7, <2>2 DEF ReceiveShardResultStored, Cleared
      <3>3. QED
        BY <1>2, <1>5, <3>1, <3>2
    <2>3. QED
      BY <2>1, <2>2
  <1>8. QED
    BY <1>3, <1>4, <1>6, <1>7 DEF Receive

\* An execution that ends frees the agent or announces its result.
LEMMA WatchExecution ==
    ASSUME IndInv, WatchInv, NEW e \in Executions, Execution(e)
    PROVE  OpensWithPending' /\ BusyIsWatched'
  <1> USE Parts DEF IndInv, WatchInv
  <1>1. UNCHANGED <<client, down, session>>
    BY Zenon DEF Execution, ExecutionFails, ExecutionResets, ExecutionSucceeds, server
  <1>2. Acknowledged /\ current' = current => Acknowledged'
    BY <1>1 DEF Acknowledged
  <1>3. Over => Over'
    BY <1>1 DEF Over
  <1>4. ASSUME NEW k \in {"ShardFailed", "ShardResultReady"}, SendFrom(e, k)
        PROVE  /\ Sent(up) \subseteq Sent(up')
               /\ exec[e].own => Msg(k, exec[e].shard) \in Sent(up')
    <2> DEFINE m == Msg(k, exec[e].shard)
    <2>1. m \in AgentMessage
      BY AgentMessages DEF AgentOK, ExecType
    <2> HIDE DEF m
    <2>2. QED
      BY <1>4, <2>1, SentAppend DEF SendFrom, QueuesOK, m
  <1>5. CASE ExecutionFails(e)
    <2>1. Sent(up) \subseteq Sent(up') /\ UNCHANGED <<current, pending>>
      BY <1>4, <1>5 DEF ExecutionFails, FailureReport
    <2>2. \A f \in Executions : exec'[f].own = exec[f].own /\ exec'[f].shard = exec[f].shard
      BY <1>5, Zenon DEF ExecutionFails, AgentOK, ExecType
    <2>3. QED
      BY <1>1, <1>2, <1>3, <2>1, <2>2, Watched, WatchedNext DEF Runs, Announced, OpensWithPending
  <1>6. \A f \in Executions : f # e => exec'[f] = exec[f]
    BY Zenon DEF Execution, ExecutionFails, ExecutionResets, ExecutionSucceeds, AgentOK
  <1>7. CASE ExecutionResets(e)
    <2>1. up' = up /\ pending' = pending
      BY <1>7 DEF ExecutionResets
    <2>2. current' = NoShard \/ (current' = current /\ ~(exec[e].own /\ exec[e].shard = current))
      BY <1>7 DEF ExecutionResets, Cleared
    <2>3. OpensWithPending'
      BY <1>1, <2>1, <2>2 DEF OpensWithPending
    <2>4. current' = current /\ current # NoShard /\ Runs => Runs'
      BY <1>6, <2>2 DEF Runs
    <2>5. QED
      BY <1>1, <1>2, <1>3, <2>1, <2>2, <2>3, <2>4, Watched, WatchedNext DEF Announced
  <1>8. CASE ExecutionSucceeds(e)
    <2>1. /\ Sent(up) \subseteq Sent(up') /\ current' = current
          /\ exec[e].own => Msg("ShardResultReady", exec[e].shard) \in Sent(up')
      BY <1>4, <1>8 DEF ExecutionSucceeds
    <2>2. OpensWithPending'
      BY <1>1, <1>8 DEF ExecutionSucceeds, OpensWithPending
    <2>3. Runs => Runs' \/ Announced'
      BY <1>6, <2>1 DEF Runs, Announced
    <2>4. Announced => Announced'
      BY <2>1 DEF Announced
    <2>5. QED
      BY <1>1, <1>2, <1>3, <2>1, <2>2, <2>3, <2>4, Watched, WatchedNext
  <1>9. QED
    BY <1>5, <1>7, <1>8 DEF Execution

\* The server answers the result of a busy agent, or ends the stream.
LEMMA WatchServer ==
    ASSUME IndInv, WatchInv, UNCHANGED agent,
           client = "up" => Sent(down) \subseteq Sent(down'),
           client = "up" /\ Over => Over',
           client = "up" /\ Announced => Announced' \/ Acknowledged' \/ Over'
    PROVE  OpensWithPending' /\ BusyIsWatched'
  <1> USE DEF WatchInv
  <1>1. client' = client /\ current' = current /\ exec' = exec /\ pending' = pending
    BY DEF agent
  <1>2. client = "up" /\ Acknowledged => Acknowledged'
    BY <1>1 DEF Acknowledged
  <1>3. Runs => Runs'
    BY <1>1 DEF Runs
  <1>4. QED
    BY <1>1, <1>2, <1>3, Watched, WatchedNext DEF OpensWithPending

\* A step of the server that reads nothing from the queue, or a Register, or a
\* message other than a result.
LEMMA WatchQuiet ==
    ASSUME IndInv, WatchInv, UNCHANGED agent,
           client = "up" => Sent(down) \subseteq Sent(down'),
           client = "up" /\ Over => Over',
           \/ up' = up \/ Over'
           \/ up # <<>> /\ up' = Tail(up) /\ Head(up).kind # "ShardResultReady"
    PROVE  OpensWithPending' /\ BusyIsWatched'
  <1>1. Announced => Announced' \/ Over'
    <2>1. CASE up' = up
      BY <2>1 DEF Announced, agent
    <2>2. CASE up # <<>> /\ up' = Tail(up) /\ Head(up).kind # "ShardResultReady"
      <3>1. Head(up) # Msg("ShardResultReady", current)
        BY <2>2, MsgFields
      <3>2. QED
        BY <2>2, <3>1, SentLater, Parts DEF IndInv, QueuesOK, Announced, agent
    <2>3. QED
      BY <2>1, <2>2
  <1>2. QED
    BY <1>1, WatchServer

\* A notice to an agent on the stream joins the others, as every message does.
LEMMA WatchDeliver ==
    ASSUME IndInv, NEW m \in ServerMessage, Deliver(<<m>>) \/ Deliver(<<>>) \/ down' = down
    PROVE  client = "up" => Sent(down) \subseteq Sent(down')
  <1>1. CASE client = "up" /\ Deliver(<<m>>)
    BY <1>1, DeliveredUp, Parts DEF IndInv, QueuesOK
  <1>2. CASE client = "up" /\ Deliver(<<>>)
    <2>1. down' = down
      BY <1>2, ConcatEmptySeq, Parts DEF Deliver, IndInv, QueuesOK
    <2>2. QED
      BY <2>1
  <1>3. QED
    BY <1>1, <1>2

\* Every step of the server and of its surroundings.
LEMMA WatchServe ==
    ASSUME IndInv, WatchInv,
           \/ HandleMessage \/ Reject \/ Serve
           \/ HeartbeatTimeout \/ GraceExpires \/ ServerRestarts \/ CleanupOrphanShards
           \/ \E s \in Shards : CancelShard(s) \/ OtherAgent(s)
    PROVE  WatchInv'
  <1> USE Parts DEF WatchInv
  <1> FirstMessage'
    BY FirstServerStep
  <1>1. UNCHANGED agent
    BY Zenon DEF HandleMessage, HandleHeartbeat, HandleShardStarted, HandleShardResultReady, HandleShardFailed,
       HandleReport, Reject, Serve, HandleRegister, HandleReconnectedAgent, TryAssignShard, ReceiveFails,
       HandlerReturns, HeartbeatTimeout, GraceExpires, ServerRestarts, CleanupOrphanShards, CancelShard, OtherAgent
  <1>2. CASE HandleRegister
    <2>1. session = "none" /\ up # <<>> /\ Head(up).kind = "Register" /\ up' = Tail(up) /\ down' = down
      BY <1>2 DEF HandleRegister
    <2>2. client # "up"
      <3>1. Head(up) \in Sent(up)
        BY <2>1, SentTail DEF IndInv, QueuesOK
      <3>2. QED
        BY <2>1, <3>1 DEF RegisterAlone, NoRegister
    <2>3. RegisterAlone'
      BY <1>1, <2>1, RegisterServerStep
    <2>4. QED
      BY <1>1, <2>2, <2>3, WatchServer
  <1>3. CASE ReceiveFails \/ Reject
    <2>1. session = "loop" /\ session' = "ending" /\ down' = down /\ (up' = up \/ (up # <<>> /\ up' = Tail(up)))
      BY <1>3 DEF ReceiveFails, Reject
    <2>2. QED
      BY <1>1, <2>1, RegisterServerStep, WatchQuiet DEF Over
  <1>4. CASE HandlerReturns \/ ServerRestarts
    <2>1. session' = "none" /\ up' = <<>> /\ down' = down
      BY <1>4 DEF HandlerReturns, ServerRestarts
    <2>2. QED
      BY <1>1, <2>1, RegisterServerStep, WatchQuiet DEF Over
  <1>5. CASE HandleReconnectedAgent \/ HandleHeartbeat \/ HandleShardStarted
    <2>1. session \in {"reconnect", "loop"} /\ down' = down
      BY <1>5 DEF HandleReconnectedAgent, HandleHeartbeat, HandleShardStarted, Handle
    <2>2. up' = up \/ (up # <<>> /\ up' = Tail(up) /\ Head(up).kind # "ShardResultReady")
      BY <1>5 DEF HandleReconnectedAgent, HandleHeartbeat, HandleShardStarted, Handle
    <2>3. QED
      BY <1>1, <2>1, <2>2, RegisterServerStep, WatchQuiet DEF Over
  <1>6. CASE TryAssignShard
    <2>1. session = "assign" /\ up' = up
      BY <1>6 DEF TryAssignShard
    <2>2. down' = down \/ \E s \in Shards : Deliver(<<Msg("AssignShard", s)>>)
      BY <1>6, Zenon DEF TryAssignShard
    <2>3. \A s \in Shards : Msg("AssignShard", s) \in ServerMessage
      BY DEF Msg, ServerMessage, Message
    <2>4. client = "up" => Sent(down) \subseteq Sent(down')
      BY <2>2, <2>3, WatchDeliver
    <2>5. QED
      BY <1>1, <2>1, <2>4, RegisterServerStep, WatchQuiet DEF Over
  <1>7. CASE HandleShardFailed
    <2>1. /\ session = "loop" /\ up # <<>> /\ up' = Tail(up) /\ Head(up).kind = "ShardFailed"
          /\ Deliver(<<>>)
      BY <1>7 DEF HandleShardFailed, HandleReport, Handle
    <2>2. Msg("AssignShard", NoShard) \in ServerMessage
      BY DEF Msg, ServerMessage, Message
    <2>3. QED
      BY <1>1, <2>1, <2>2, RegisterServerStep, WatchQuiet, WatchDeliver DEF Over
  <1>8. CASE HandleShardResultReady
    <2> DEFINE m == Msg("ShardResultStored", Head(up).shard)
    <2>1. /\ session = "loop" /\ up # <<>> /\ up' = Tail(up) /\ Head(up).kind = "ShardResultReady"
          /\ Deliver(<<m>>) \/ (down' = down /\ session' = "ending")
      BY <1>8 DEF HandleShardResultReady, HandleReport, Handle, Stored
    <2>2. Head(up).shard \in Shards
      BY <2>1, HeadOfUp
    <2>3. m \in ServerMessage
      BY <2>2 DEF Msg, ServerMessage, Message
    <2> HIDE DEF m
    <2>4. CASE down' = down /\ session' = "ending"
      BY <1>1, <2>1, <2>4, RegisterServerStep, WatchQuiet DEF Over
    <2>5. CASE Deliver(<<m>>)
      <3>1. client = "up" => Sent(down') = Sent(down) \cup {m}
        BY <2>3, <2>5, DeliveredUp DEF IndInv, QueuesOK
      <3>2. client = "up" /\ Announced => Announced' \/ Acknowledged'
        <4>1. CASE Head(up) = Msg("ShardResultReady", current)
          <5>1. Head(up).shard = current
            BY <4>1, MsgFields
          <5>2. QED
            BY <1>1, <3>1, <5>1 DEF m, Acknowledged, agent
        <4>2. CASE Head(up) # Msg("ShardResultReady", current)
          BY <1>1, <2>1, <4>2, SentLater DEF IndInv, QueuesOK, Announced, agent
        <4>3. QED
          BY <4>1, <4>2
      <3>3. QED
        BY <1>1, <2>1, <3>1, <3>2, RegisterServerStep, WatchServer DEF Over
    <2>6. QED
      BY <2>1, <2>4, <2>5
  <1>9. CASE HeartbeatTimeout \/ GraceExpires \/ CleanupOrphanShards \/ \E s \in Shards : OtherAgent(s)
    <2>1. UNCHANGED <<session, up, down>>
      BY <1>9, Zenon DEF HeartbeatTimeout, GraceExpires, CleanupOrphanShards, OtherAgent, server
    <2>2. QED
      BY <1>1, <2>1, RegisterServerStep, WatchQuiet DEF Over
  <1>10. ASSUME NEW s \in Shards, CancelShard(s) PROVE WatchInv'
    <2>1. UNCHANGED <<session, up>> /\ (Deliver(<<Msg("CancelShard", s)>>) \/ down' = down)
      BY <1>10, Zenon DEF CancelShard, server
    <2>2. Msg("CancelShard", s) \in ServerMessage
      BY DEF Msg, ServerMessage, Message
    <2>3. QED
      BY <1>1, <2>1, <2>2, RegisterServerStep, WatchQuiet, WatchDeliver DEF Over
  <1>11. QED
    BY <1>2, <1>3, <1>4, <1>5, <1>6, <1>7, <1>8, <1>9, <1>10, Zenon DEF HandleMessage, Serve

\* A busy agent runs its shard, or its result or the acknowledgement is under
\* way, or the server has ended the stream, whatever is lost, late or refused.
THEOREM NeverStranded == Spec => []BusyIsWatched
  <1>1. ASSUME Init PROVE WatchInv
    <2>1. NoRegister(up)
      BY <1>1 DEF Init, NoRegister, Sent
    <2>2. QED
      BY <1>1, <2>1 DEF Init, WatchInv, RegisterAlone, FirstMessage, OpensWithPending, BusyIsWatched
  <1>2. ASSUME IndInv, WatchInv, [Next]_vars PROVE WatchInv'
    <2>1. CASE UNCHANGED vars
      BY <1>2, <2>1, Zenon DEF vars, WatchInv, RegisterAlone, FirstMessage, OpensWithPending, BusyIsWatched
    <2>2. CASE \/ Open \/ SendHeartbeat \/ Receive \/ StreamBreaks \/ AgentRestarts
               \/ \E e \in Executions : Execution(e)
      BY <1>2, <2>2, RegisterAgentStep, FirstAgentStep, WatchOpen, WatchReceive, WatchExecution, Zenon DEF WatchInv
    <2>3. QED
      BY <1>2, <2>1, <2>2, WatchServe, Zenon DEF Next
  <1>3. WatchInv => BusyIsWatched
    BY DEF WatchInv
  <1>4. QED
    BY <1>1, <1>2, <1>3, Inductive, PTL DEF Spec
=============================================================================
