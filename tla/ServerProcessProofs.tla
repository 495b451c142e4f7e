------------------------ MODULE ServerProcessProofs ------------------------
(***************************************************************************)
(* The server process for any number of loops, streams and requests and in *)
(* any environment: nothing works before everything it uses is in place,   *)
(* and nothing that was waited for is left when the process ends.          *)
(***************************************************************************)
EXTENDS ServerProcess, NaturalFacts, TLAPS

\* What main has completed at each step of its start-up.
Completed ==
    /\ pc \in {"loadEnv", "initConfig"} => done = {}
    /\ pc = "openDb" => done = {"config"}
    /\ pc = "migrate" => done = {"config", "db"}
    /\ pc = "provider" => done = {"config", "db", "schema"}
    /\ pc = "listen" => done = {"config", "db", "schema", "timeouts", "provider"}
    /\ pc = "cleanUp" => done = Steps \ {"orphans"}
    /\ pc \in {"start", "select", "shutDown", "close", "wait"} => done = Steps

\* The goroutines that serve are started after that.
Off ==
    /\ \A l \in Loops : loop[l] = "off"
    /\ grpc = "off" /\ http = "off" /\ conns = {} /\ streams = {} /\ requests = {}
Wired == done = Steps \/ (Off /\ pc # "start")

\* A server that shuts down accepts no connection, and has waited for the ones it
\* had when it is done.
Drained ==
    /\ grpcStop \in {"running", "done"} => quit
    /\ grpcStop = "done" => streams = {} /\ conns \cap Streams = {}
    /\ httpStop \in {"running", "done"} => inShutdown
    /\ httpStop = "done" => (requests = {} /\ conns \cap Requests = {}) \/ "http" \in expired

LoopsOK == loop \in [Loops -> {"off", "waiting", "pass", "done"}]
IndInv == LoopsOK /\ Completed /\ Wired /\ Drained

-----------------------------------------------------------------------------
(* Configuration *)

\* int arithmetic gives an int.
LEMMA WrapType ==
    ASSUME NEW n \in Int
    PROVE  Wrap(n) \in Int
  <1>1. IntBits \in Nat /\ IntBits - 1 \in Nat
    BY ProcessAssumption
  <1>2. 2^IntBits \in Nat \ {0} /\ 2^(IntBits - 1) \in Nat \ {0}
    BY <1>1, PowerOfTwo
  <1> DEFINE a == 2^IntBits
             b == 2^(IntBits - 1)
  <1>3. a \in Nat \ {0} /\ b \in Nat \ {0}
    BY <1>2
  <1>4. Wrap(n) = ((n + b) % a) - b
    BY DEF Wrap
  <1> HIDE DEF a, b
  <1>5. QED
    BY <1>3, <1>4

\* One turn of the loop of envOrInt.
Turn(raw, v, i) == Wrap(v * 10 + raw[i])

\* The loop ends, with an int, whatever the characters are.
LEMMA AccumulatedType ==
    ASSUME NEW raw \in Seq(0..10)
    PROVE  Accumulated(raw) \in Int
  <1> DEFINE n == Len(raw)
             Runs(k, g) == g[0] = 0 /\ \A i \in 1..k : g[i] = Turn(raw, g[i - 1], i)
             Body(v) == [i \in 0..n |-> IF i = 0 THEN 0 ELSE Turn(raw, v[i - 1], i)]
  <1>1. n \in Nat /\ \A i \in 1..n : raw[i] \in Int
    <2>1. n \in Nat
      OBVIOUS
    <2>2. ASSUME NEW i \in 1..n PROVE raw[i] \in 0..10
      BY <2>2
    <2>3. QED
      BY <2>1, <2>2
  <1>2. ASSUME NEW v \in Int, NEW i \in 1..n PROVE Turn(raw, v, i) \in Int
    <2>1. raw[i] \in Int
      BY <1>1
    <2>2. v * 10 + raw[i] \in Int
      BY <2>1
    <2>3. Wrap(v * 10 + raw[i]) \in Int
      BY <2>2, WrapType, Zenon
    <2>4. QED
      BY <2>3, Zenon DEF Turn
  <1> HIDE DEF n
  <1>3. \E g \in [0..n -> Int] : Runs(n, g)
    <2> DEFINE S == {k \in 0..n : \E g \in [0..k -> Int] : Runs(k, g)}
    <2>1. 0 \in S
      <3> DEFINE g == [i \in 0..0 |-> 0]
      <3>1. g \in [0..0 -> Int] /\ g[0] = 0 /\ 1..0 = {}
        OBVIOUS
      <3> HIDE DEF g
      <3>2. Runs(0, g)
        BY <3>1
      <3>3. QED
        BY <1>1, <3>1, <3>2
    <2>2. ASSUME NEW k \in 1..n, k - 1 \in S PROVE k \in S
      <3>1. PICK g \in [0..(k - 1) -> Int] : Runs(k - 1, g)
        BY <2>2
      <3> DEFINE x == Turn(raw, g[k - 1], k)
                 h == [j \in 0..k |-> IF j = k THEN x ELSE g[j]]
      <3>2. g[k - 1] \in Int /\ k \in Nat /\ k # 0
        BY <1>1
      <3>3. x \in Int
        BY <1>2, <3>2
      <3>4. h[k] = x /\ \A j \in 0..(k - 1) : h[j] = g[j]
        BY <3>2
      <3>5. h \in [0..k -> Int]
        BY <3>2, <3>3
      <3> HIDE DEF h
      <3>6. h[0] = 0
        BY <3>1, <3>2, <3>4
      <3>7. ASSUME NEW i \in 1..k PROVE h[i] = Turn(raw, h[i - 1], i)
        <4>1. h[i - 1] = g[i - 1]
          BY <3>2, <3>4
        <4>2. CASE i = k
          BY <3>4, <4>1, <4>2
        <4>3. CASE i # k
          <5>1. i \in 1..(k - 1) /\ i \in 0..(k - 1)
            BY <3>2, <4>3
          <5>2. QED
            BY <3>1, <3>4, <4>1, <5>1
        <4>4. QED
          BY <4>2, <4>3
      <3>8. QED
        BY <3>5, <3>6, <3>7
    <2> HIDE DEF S
    <2>3. 0..n \subseteq S
      BY <1>1, <2>1, <2>2, InductionUpTo
    <2>4. n \in S
      BY <1>1, <2>3
    <2>5. QED
      BY <2>4 DEF S
  <1>4. \E v : v = Body(v)
    <2>1. PICK g \in [0..n -> Int] : Runs(n, g)
      BY <1>3
    <2>2. ASSUME NEW i \in 0..n PROVE g[i] = IF i = 0 THEN 0 ELSE Turn(raw, g[i - 1], i)
      BY <1>1, <2>1
    <2>3. g = Body(g)
      BY <2>2
    <2>4. QED
      BY <2>3
  <1> DEFINE v == CHOOSE v : v = Body(v)
  <1>5. v = Body(v)
    BY <1>4
  <1>6. Accumulated(raw) = v[n]
    BY DEF Accumulated, n, Turn
  <1> HIDE DEF v
  <1>7. \A i \in 0..n : v[i] \in Int
    <2> DEFINE S == {k \in 0..n : v[k] \in Int}
    <2>1. 0 \in S
      BY <1>1, <1>5
    <2>2. ASSUME NEW k \in 1..n, k - 1 \in S PROVE k \in S
      <3>1. k \in 0..n /\ k # 0 /\ v[k - 1] \in Int
        BY <1>1, <2>2
      <3>2. v[k] = Turn(raw, v[k - 1], k)
        BY <1>5, <3>1
      <3>3. QED
        BY <1>2, <3>1, <3>2
    <2> HIDE DEF S
    <2>3. 0..n \subseteq S
      BY <1>1, <2>1, <2>2, InductionUpTo
    <2>4. QED
      BY <2>3 DEF S
  <1>8. QED
    BY <1>1, <1>6, <1>7

-----------------------------------------------------------------------------
\* main starts up.
LEMMA StartupStep ==
    ASSUME IndInv, Startup
    PROVE  IndInv'
  <1> USE DEF IndInv
  <1>1. CASE Returns
    BY <1>1 DEF Returns, startup, serving, stopping, work, LoopsOK, Completed, Wired, Off, Drained
  <1>2. CASE StartGoroutines
    BY <1>2 DEF StartGoroutines, startup, stopping, LoopsOK, Completed, Wired, Drained
  <1>3. CASE Startup /\ ~Returns /\ ~StartGoroutines
    <2>1. UNCHANGED <<stopping, work>> /\ grpc' = grpc /\ http' = http
      BY <1>3, SMTT(30) DEF Startup, LoadEnvVariable, InitGlobalConfig, Open, AutoMigrate, NewProvider, Listen,
                  StartupCleanup, Did, serving
    <2>2. Completed'
      BY <1>3 DEF Startup, LoadEnvVariable, InitGlobalConfig, Open, AutoMigrate, NewProvider, Listen,
                  StartupCleanup, Did, Register, Callbacks, Steps, Completed
    <2>3. Off
      <3>1. pc \in {"loadEnv", "initConfig", "openDb", "migrate", "provider", "listen", "cleanUp"}
        BY <1>3 DEF Startup, LoadEnvVariable, InitGlobalConfig, Open, AutoMigrate, NewProvider, Listen,
                    StartupCleanup
      <3>2. "orphans" \notin done
        BY <3>1 DEF Completed
      <3>3. QED
        BY <3>2 DEF Wired, Steps
    <2>4. LoopsOK' /\ Wired' /\ Drained'
      BY <2>1, <2>2, <2>3 DEF stopping, work, LoopsOK, Wired, Off, Drained, Completed
    <2>5. QED
      BY <2>2, <2>4, SMTT(30)
  <1>4. QED
    BY <1>1, <1>2, <1>3

\* A goroutine of the server takes a step, or a client does.
LEMMA ServingStep ==
    ASSUME IndInv,
           \/ Servers \/ GrpcAcceptFails \/ HttpFails
           \/ \E l \in Loops : Tick(l) \/ PassEnds(l) \/ LoopStops(l)
           \/ \E s \in Streams : AcceptStream(s) \/ StreamEnds(s)
           \/ \E r \in Requests : AcceptRequest(r) \/ RequestEnds(r)
    PROVE  IndInv'
  <1> USE DEF IndInv
  <1>1. CASE Servers \/ GrpcAcceptFails \/ HttpFails
    <2>1. grpc # "off" \/ http # "off"
      BY <1>1, ZenonT(30) DEF Servers, GrpcServes, GrpcAcceptFails, GrpcStopped, GrpcStep, HttpServes, HttpFails, HttpClosed,
                  HttpStep, SendError
    <2>2. UNCHANGED <<pc, startup, stopping, work>>
      BY <1>1, ZenonT(30) DEF Servers, GrpcServes, GrpcAcceptFails, GrpcStopped, GrpcStep, HttpServes, HttpFails, HttpClosed,
                  HttpStep, SendError
    <2>3. QED
      BY <2>1, <2>2, SMTT(30) DEF startup, stopping, work, LoopsOK, Completed, Wired, Off, Drained
  <1>2. CASE \E l \in Loops : Tick(l) \/ PassEnds(l) \/ LoopStops(l)
    BY <1>2 DEF Tick, PassEnds, LoopStops, LoopStep, startup, serving, stopping, LoopsOK, Completed, Wired, Off,
                Drained
  <1>3. CASE \E s \in Streams : AcceptStream(s) \/ StreamEnds(s)
    BY <1>3, ProcessAssumption DEF AcceptStream, StreamEnds, startup, serving, stopping, LoopsOK, Completed, Wired, Off, Drained
  <1>4. CASE \E r \in Requests : AcceptRequest(r) \/ RequestEnds(r)
    BY <1>4, ProcessAssumption DEF AcceptRequest, RequestEnds, startup, serving, stopping, LoopsOK, Completed, Wired, Off, Drained
  <1>5. QED
    BY <1>1, <1>2, <1>3, <1>4, SMTT(30)

\* The process is told to stop, and shuts down.
LEMMA StoppingStep ==
    ASSUME IndInv,
           \/ Signal \/ Stop \/ Shutdown \/ GracefulStop
           \/ \E t \in {"http", "grpc"} : TimerFires(t)
    PROVE  IndInv'
  <1> USE DEF IndInv
  <1>1. CASE Signal
    BY <1>1, SMTT(30) DEF Signal, startup, serving, stopping, work, LoopsOK, Completed, Wired, Off, Drained
  <1>2. CASE Select \/ ShutDown \/ CloseListener
    BY <1>2 DEF Select, ShutDown, CloseListener, startup, serving, stopping, work, LoopsOK, Completed, Wired, Off,
                Drained
  <1>3. CASE WaitReturns
    BY <1>3 DEF WaitReturns, Returns, startup, serving, stopping, work, LoopsOK, Completed, Wired, Off, Drained
  <1>4. CASE Shutdown
    BY <1>4 DEF Shutdown, startup, serving, work, LoopsOK, Completed, Wired, Off, Drained
  <1>5. CASE GracefulStop
    BY <1>5 DEF GracefulStop, startup, work, LoopsOK, Completed, Wired, Off, Drained
  <1>6. CASE \E t \in {"http", "grpc"} : TimerFires(t)
    BY <1>6 DEF TimerFires, startup, work, LoopsOK, Completed, Wired, Off, Drained
  <1>7. QED
    BY <1>1, <1>2, <1>3, <1>4, <1>5, <1>6, SMTT(30) DEF Stop

\* IndInv holds in every state of the process.
LEMMA Inductive == Spec => []IndInv
  <1>1. Init => IndInv
    BY DEF Init, IndInv, LoopsOK, Completed, Wired, Off, Drained
  <1>2. IndInv /\ [Next]_vars => IndInv'
    <2> SUFFICES ASSUME IndInv, [Next]_vars PROVE IndInv'
      OBVIOUS
    <2>1. CASE UNCHANGED vars
      BY <2>1 DEF vars, IndInv, LoopsOK, Completed, Wired, Off, Drained
    <2>2. CASE Next
      BY <2>2, StartupStep, ServingStep, StoppingStep, SMTT(30) DEF Next
    <2>3. QED
      BY <2>1, <2>2
  <1>3. QED
    BY <1>1, <1>2, PTL DEF Spec

-----------------------------------------------------------------------------
\* Whatever the environment, no stream or request handler runs and no loop works
\* before main has completed all the steps those depend on.
THEOREM NothingRunsUnwired == Spec => []ServesWired
  <1>1. IndInv => ServesWired
    BY DEF IndInv, LoopsOK, Wired, Off, ServesWired
  <1>2. QED
    BY <1>1, Inductive, PTL

\* When wg.Wait returns every loop has ended, every stream handler has returned,
\* and requests are left only if Shutdown ran into its ten seconds.
THEOREM NothingLeftBehind == Spec => EndsCleanly
  <1> DEFINE Clean ==
        pc = "wait" /\ pc' = "exited" =>
          /\ \A l \in Loops : loop[l] = "done"
          /\ streams = {}
          /\ requests = {} \/ "http" \in expired
  <1>1. IndInv /\ [Next]_vars => [Clean]_vars
    <2> SUFFICES ASSUME IndInv, Next, pc = "wait", pc' = "exited"
                 PROVE  /\ \A l \in Loops : loop[l] = "done"
                        /\ streams = {}
                        /\ requests = {} \/ "http" \in expired
      OBVIOUS
    <2>1. WaitReturns
      <3>1. ~Startup
        BY DEF Startup, LoadEnvVariable, InitGlobalConfig, Open, AutoMigrate, NewProvider, Listen,
               StartupCleanup, StartGoroutines
      <3>2. ~(Servers \/ GrpcAcceptFails \/ HttpFails)
        BY DEF Servers, GrpcServes, GrpcAcceptFails, GrpcStopped, GrpcStep, HttpServes, HttpFails, HttpClosed,
               HttpStep, SendError
      <3>3. /\ ~\E l \in Loops : Tick(l) \/ PassEnds(l) \/ LoopStops(l)
            /\ ~\E s \in Streams : AcceptStream(s) \/ StreamEnds(s)
            /\ ~\E r \in Requests : AcceptRequest(r) \/ RequestEnds(r)
        BY DEF Tick, PassEnds, LoopStops, LoopStep, AcceptStream, StreamEnds, AcceptRequest, RequestEnds
      <3>4. ~(Signal \/ Shutdown \/ GracefulStop \/ \E t \in {"http", "grpc"} : TimerFires(t))
        BY DEF Signal, Shutdown, GracefulStop, TimerFires
      <3>5. ~(Select \/ ShutDown \/ CloseListener)
        BY DEF Select, ShutDown, CloseListener
      <3>6. QED
        BY <3>1, <3>2, <3>3, <3>4, <3>5, SMTT(30) DEF Next, Stop
    <2>2. QED
      BY <2>1 DEF WaitReturns, Awaited, IndInv, Drained
  <1>2. QED
    BY <1>1, Inductive, PTL DEF Spec, EndsCleanly

-----------------------------------------------------------------------------
(* Types, the numbers of the configuration and the channel of the errors *)

\* A number of the environment is an int, and so is its fallback.
LEMMA EnvOrIntType ==
    ASSUME NEW raw \in Seq(0..10), NEW fallback \in Int
    PROVE  envOrInt(raw, fallback) \in Int
  BY AccumulatedType DEF envOrInt

\* The guard behind envOrInt makes a number positive.
LEMMA PositiveType ==
    ASSUME NEW v \in Int, NEW fallback \in Nat \ {0}
    PROVE  Positive(v, fallback) \in Int /\ Positive(v, fallback) > 0
  BY DEF Positive

\* What LoadFromEnv reads from any environment.
LEMMA LoadFromEnvType ==
    ASSUME NEW e \in EnvironmentType
    PROVE  /\ LoadFromEnv(e) \in [cycle : Int, advance : Int, idle : Int]
           /\ LoadFromEnv(e).cycle > 0 /\ LoadFromEnv(e).advance > 0
  <1> DEFINE raw(v) == e.vars[v]
  <1>1. \A v \in Variables : raw(v) \in Seq(0..10)
    <2>1. e.vars \in Settings
      BY DEF EnvironmentType
    <2>2. QED
      BY <2>1 DEF Settings
  <1>2. {"CLUSTER_BILLING_CYCLE_SECONDS", "CLUSTER_BILLING_ADVANCE_SECONDS",
         "CLUSTER_IDLE_THRESHOLD_SECONDS"} \subseteq Variables
    BY DEF Variables, Optional
  <1> HIDE DEF raw
  <1>3. /\ envOrInt(raw("CLUSTER_BILLING_CYCLE_SECONDS"), 3600) \in Int
        /\ envOrInt(raw("CLUSTER_BILLING_ADVANCE_SECONDS"), 180) \in Int
        /\ envOrInt(raw("CLUSTER_IDLE_THRESHOLD_SECONDS"), 600) \in Int
    <2>1. \A v \in Variables, fallback \in Int : envOrInt(raw(v), fallback) \in Int
      BY <1>1, EnvOrIntType, Zenon
    <2>2. QED
      BY <1>2, <2>1
  <1> DEFINE c == Positive(envOrInt(raw("CLUSTER_BILLING_CYCLE_SECONDS"), 3600), 3600)
             a == Positive(envOrInt(raw("CLUSTER_BILLING_ADVANCE_SECONDS"), 180), 180)
             i == envOrInt(raw("CLUSTER_IDLE_THRESHOLD_SECONDS"), 600)
  <1>4. c \in Int /\ c > 0 /\ a \in Int /\ a > 0
    BY <1>3, PositiveType
  <1>5. LoadFromEnv(e) = [cycle |-> c, advance |-> a, idle |-> i]
    BY DEF LoadFromEnv, raw
  <1>6. i \in Int
    BY <1>3
  <1> HIDE DEF c, a, i
  <1>7. QED
    BY <1>4, <1>5, <1>6

\* A server that has not ended may still send one error.
Unsent(server) == IF server = "done" THEN 0 ELSE 1

\* The channel has room for the errors that may still be sent; before main has
\* started the servers there is none.
Room ==
    /\ errs + Unsent(grpc) + Unsent(http) <= Capacity
    /\ pc \in {"loadEnv", "initConfig", "openDb", "migrate", "provider", "listen", "cleanUp", "start"}
         => grpc = "off" /\ http = "off"

TypedInv == TypeOK /\ Room /\ BillingPositive

\* main starts up.
LEMMA StartupTyped ==
    ASSUME IndInv, TypedInv, Startup
    PROVE  TypedInv'
  <1> USE DEF TypedInv
  <1>1. pc # "exited"
    BY DEF Startup, LoadEnvVariable, InitGlobalConfig, Open, AutoMigrate, NewProvider, Listen,
           StartupCleanup, StartGoroutines
  <1>2. CASE Returns
    BY <1>2 DEF Returns, startup, serving, stopping, work, TypeOK, Room, BillingPositive
  <1>3. CASE LoadEnvVariable /\ ~Returns
    <2>1. /\ pc = "loadEnv" /\ pc' = "initConfig"
          /\ UNCHANGED <<config, done, cancelled, serving, stopping, work>>
      BY <1>3 DEF LoadEnvVariable
    <2>2. env' \in EnvironmentType
      <3> DEFINE merged == [v \in Variables |-> IF env.vars[v] = <<>> THEN env.dotenv[v] ELSE env.vars[v]]
      <3>1. env \in EnvironmentType /\ (env' = env \/ env' = [env EXCEPT !.vars = merged])
        BY <1>3 DEF LoadEnvVariable, TypeOK
      <3>2. env.vars \in Settings /\ env.dotenv \in Settings
        BY <3>1 DEF EnvironmentType
      <3>3. merged \in Settings
        BY <3>2 DEF Settings
      <3> HIDE DEF merged
      <3>4. [env EXCEPT !.vars = merged] \in EnvironmentType
        BY <3>1, <3>3 DEF EnvironmentType
      <3>5. QED
        BY <3>1, <3>4
    <2>3. QED
      BY <2>1, <2>2 DEF serving, stopping, work, TypeOK, Room, BillingPositive
  <1>4. CASE InitGlobalConfig /\ ~Returns
    <2>1. /\ pc = "initConfig" /\ pc' = "openDb" /\ config' = LoadFromEnv(env) /\ done' = {"config"}
          /\ UNCHANGED <<env, cancelled, serving, stopping, work>>
      BY <1>4 DEF InitGlobalConfig
    <2>2. /\ config' \in [cycle : Int, advance : Int, idle : Int]
          /\ config'.cycle > 0 /\ config'.advance > 0
      BY <2>1, LoadFromEnvType DEF TypeOK
    <2>3. QED
      BY <2>1, <2>2 DEF serving, stopping, work, Steps, TypeOK, Room, BillingPositive
  <1>5. CASE (Open \/ AutoMigrate \/ NewProvider \/ StartupCleanup) /\ ~Returns
    <2>1. /\ \/ pc = "openDb" /\ pc' = "migrate" /\ done' = done \cup {"db"}
             \/ pc = "migrate" /\ pc' = "provider" /\ done' = done \cup {"schema"}
             \/ pc = "provider" /\ pc' = "listen" /\ done' = done \cup {"timeouts", "provider"}
             \/ pc = "cleanUp" /\ pc' = "start" /\ done' = done \cup {"orphans"}
          /\ UNCHANGED <<env, config, cancelled, serving, stopping, work>>
      BY <1>5 DEF Open, AutoMigrate, NewProvider, StartupCleanup, Did, Register
    <2>2. pc \in {"openDb", "migrate", "provider", "cleanUp"} => "config" \in done
      BY DEF IndInv, Completed, Steps
    <2>3. "config" \in done /\ done' \subseteq Steps
      BY <2>1, <2>2 DEF TypeOK, Steps
    <2>4. QED
      BY <2>1, <2>3 DEF serving, stopping, work, TypeOK, Room, BillingPositive
  <1>6. CASE Listen /\ ~Returns
    <2>1. /\ pc = "listen" /\ pc' = "cleanUp" /\ listener' = "open" /\ done' = done \cup {"callbacks"}
          /\ UNCHANGED <<env, config, cancelled, grpc, http, errs, stopping, work>>
      BY <1>6 DEF Listen, Callbacks
    <2>2. "config" \in done /\ done' \subseteq Steps
      BY <2>1 DEF IndInv, Completed, TypeOK, Steps
    <2>3. QED
      BY <2>1, <2>2 DEF stopping, work, TypeOK, Room, BillingPositive
  <1>7. CASE StartGoroutines
    <2>1. /\ pc = "start" /\ pc' = "select" /\ grpc' = "starting" /\ http' = "starting"
          /\ loop' \in [Loops -> {"off", "waiting", "pass", "done"}]
          /\ UNCHANGED <<startup, cancelled, errs, listener, stopping, conns, streams, requests>>
      BY <1>7 DEF StartGoroutines
    <2>2. Unsent(grpc) = Unsent(grpc') /\ Unsent(http) = Unsent(http')
      BY <2>1 DEF Room, Unsent
    <2>3. Room'
      BY <2>1, <2>2 DEF Room, TypeOK, Capacity
    <2>4. QED
      BY <2>1, <2>3 DEF startup, stopping, TypeOK, BillingPositive
  <1>8. QED
    BY <1>2, <1>3, <1>4, <1>5, <1>6, <1>7, SMTT(30) DEF Startup

\* The servers, the loops and the clients.
LEMMA ServingTyped ==
    ASSUME IndInv, TypedInv,
           \/ Servers \/ GrpcAcceptFails \/ HttpFails
           \/ \E l \in Loops : Tick(l) \/ PassEnds(l) \/ LoopStops(l)
           \/ \E s \in Streams : AcceptStream(s) \/ StreamEnds(s)
           \/ \E r \in Requests : AcceptRequest(r) \/ RequestEnds(r)
    PROVE  TypedInv'
  <1> USE DEF TypedInv
  <1>1. CASE GrpcServes \/ GrpcStopped \/ GrpcAcceptFails
    <2>1. /\ grpc \in {"starting", "serving"} /\ grpc' \in {"serving", "failed", "done"}
          /\ UNCHANGED <<pc, startup, cancelled, http, errs, listener, stopping, work>>
      BY <1>1 DEF GrpcServes, GrpcStopped, GrpcAcceptFails, GrpcStep
    <2>2. Room'
      BY <2>1 DEF Room, Unsent, Capacity, TypeOK
    <2>3. QED
      BY <2>1, <2>2 DEF startup, stopping, work, TypeOK, BillingPositive
  <1>2. CASE HttpServes \/ HttpFails \/ HttpClosed
    <2>1. /\ http \in {"starting", "serving"} /\ http' \in {"serving", "failed", "done"}
          /\ UNCHANGED <<pc, startup, cancelled, grpc, errs, listener, stopping, work>>
      BY <1>2 DEF HttpServes, HttpFails, HttpClosed, HttpStep
    <2>2. Room'
      BY <2>1 DEF Room, Unsent, Capacity, TypeOK
    <2>3. QED
      BY <2>1, <2>2 DEF startup, stopping, work, TypeOK, BillingPositive
  <1>3. CASE SendError
    <2>1. /\ errs' = errs + 1 /\ errs \in 0..1
          /\ \/ grpc = "failed" /\ grpc' = "done" /\ http' = http
             \/ http = "failed" /\ http' = "done" /\ grpc' = grpc
          /\ UNCHANGED <<pc, startup, cancelled, listener, stopping, work>>
      BY <1>3 DEF SendError, Capacity, TypeOK
    <2>2. Room'
      BY <2>1 DEF Room, Unsent, Capacity
    <2>3. QED
      BY <2>1, <2>2 DEF startup, stopping, work, TypeOK, BillingPositive
  <1>4. CASE \E l \in Loops : Tick(l) \/ PassEnds(l) \/ LoopStops(l)
    BY <1>4 DEF Tick, PassEnds, LoopStops, LoopStep, startup, serving, stopping, TypeOK, Room, BillingPositive
  <1>5. CASE \E s \in Streams : AcceptStream(s) \/ StreamEnds(s)
    BY <1>5 DEF AcceptStream, StreamEnds, startup, serving, stopping, TypeOK, Room, BillingPositive
  <1>6. CASE \E r \in Requests : AcceptRequest(r) \/ RequestEnds(r)
    BY <1>6 DEF AcceptRequest, RequestEnds, startup, serving, stopping, TypeOK, Room, BillingPositive
  <1>7. QED
    BY <1>1, <1>2, <1>3, <1>4, <1>5, <1>6, SMTT(30) DEF Servers

\* The shutdown.
LEMMA StoppingTyped ==
    ASSUME IndInv, TypedInv,
           \/ Signal \/ Stop \/ Shutdown \/ GracefulStop
           \/ \E t \in {"http", "grpc"} : TimerFires(t)
    PROVE  TypedInv'
  <1> USE DEF TypedInv
  <1>1. CASE Signal
    BY <1>1 DEF Signal, startup, serving, stopping, work, TypeOK, Room, BillingPositive
  <1>2. CASE Select
    <2>1. /\ pc = "select" /\ pc' = "shutDown" /\ cancelled' \in BOOLEAN
          /\ errs' \in 0..2 /\ errs' <= errs
          /\ UNCHANGED <<startup, grpc, http, listener, stopping, work>>
      <3>1. errs \in 0..2 /\ cancelled \in BOOLEAN
        BY DEF TypeOK
      <3>2. CASE cancelled /\ UNCHANGED <<cancelled, errs>>
        BY <1>2, <3>1, <3>2 DEF Select
      <3>3. CASE errs > 0 /\ errs' = errs - 1 /\ cancelled' = TRUE
        BY <1>2, <3>1, <3>3 DEF Select
      <3>4. QED
        BY <1>2, <3>2, <3>3 DEF Select
    <2>2. Room'
      <3>1. Unsent(grpc) \in Int /\ Unsent(http) \in Int /\ errs \in Int /\ errs' \in Int
        BY <2>1 DEF Unsent, TypeOK
      <3>2. Unsent(grpc') = Unsent(grpc) /\ Unsent(http') = Unsent(http)
        BY <2>1
      <3>3. errs' + Unsent(grpc') + Unsent(http') <= Capacity
        BY <2>1, <3>1, <3>2 DEF Room, Capacity
      <3>4. QED
        BY <2>1, <3>3 DEF Room
    <2>3. QED
      BY <2>1, <2>2 DEF startup, stopping, work, TypeOK, BillingPositive
  <1>3. CASE ShutDown \/ CloseListener
    BY <1>3 DEF ShutDown, CloseListener, startup, serving, stopping, work, TypeOK, Room, BillingPositive
  <1>4. CASE WaitReturns
    BY <1>4 DEF WaitReturns, Returns, startup, serving, stopping, work, TypeOK, Room, BillingPositive
  <1>5. CASE Shutdown
    BY <1>5 DEF Shutdown, startup, serving, work, TypeOK, Room, BillingPositive
  <1>6. CASE GracefulStop
    BY <1>6 DEF GracefulStop, startup, work, TypeOK, Room, BillingPositive
  <1>7. CASE \E t \in {"http", "grpc"} : TimerFires(t)
    BY <1>7 DEF TimerFires, startup, work, TypeOK, Room, BillingPositive
  <1>8. QED
    BY <1>1, <1>2, <1>3, <1>4, <1>5, <1>6, <1>7, SMTT(30) DEF Stop

\* TypedInv holds in every state of the process.
LEMMA TypedInductive == Spec => []TypedInv
  <1>1. Init => TypedInv
    <2> SUFFICES ASSUME Init PROVE TypedInv
      OBVIOUS
    <2>1. config \in [cycle : Int, advance : Int, idle : Int]
      BY DEF Init, NoConfig
    <2>2. env \in EnvironmentType /\ loop \in [Loops -> {"off", "waiting", "pass", "done"}]
      BY ProcessAssumption DEF Init
    <2>3. TypeOK
      <3>1. errs \in 0..2 /\ done \subseteq Steps /\ expired \subseteq {"http", "grpc"}
            /\ conns \subseteq Streams \cup Requests /\ streams \subseteq Streams /\ requests \subseteq Requests
        BY DEF Init
      <3>2. /\ {grpc, http} \subseteq {"off", "starting", "serving", "failed", "done"}
            /\ {httpStop, grpcStop} \subseteq {"off", "starting", "running", "done"}
        BY DEF Init
      <3>3. {cancelled, quit, forced, inShutdown} \subseteq BOOLEAN
        BY DEF Init
      <3>4. pc = "loadEnv" /\ listener = "closed"
        BY DEF Init
      <3>5. QED
        BY <2>1, <2>2, <3>1, <3>2, <3>3, <3>4, Zenon DEF TypeOK
    <2>4. Room /\ BillingPositive
      BY DEF Init, Room, Unsent, Capacity, BillingPositive
    <2>5. QED
      BY <2>3, <2>4 DEF TypedInv
  <1>2. IndInv /\ TypedInv /\ [Next]_vars => TypedInv'
    <2> SUFFICES ASSUME IndInv, TypedInv, [Next]_vars PROVE TypedInv'
      OBVIOUS
    <2>1. CASE UNCHANGED vars
      BY <2>1 DEF vars, TypedInv, TypeOK, Room, BillingPositive
    <2>2. CASE Next
      BY <2>2, StartupTyped, ServingTyped, StoppingTyped, SMTT(30) DEF Next
    <2>3. QED
      BY <2>1, <2>2
  <1>3. QED
    BY <1>1, <1>2, Inductive, PTL DEF Spec

\* Every variable of the process keeps its type, whatever the environment holds.
THEOREM ProcessTypes == Spec => []TypeOK
  <1>1. TypedInv => TypeOK
    BY DEF TypedInv
  <1>2. QED
    BY <1>1, TypedInductive, PTL

\* For every environment and every width of int the billing cycle and the
\* billing advance that the recycler uses are positive: envOrInt may overflow to
\* any int, and the guards of LoadFromEnv catch what it returns.
THEOREM BillingNeverStops == Spec => []BillingPositive
  <1>1. TypedInv => BillingPositive
    BY DEF TypedInv
  <1>2. QED
    BY <1>1, TypedInductive, PTL

\* A goroutine whose server failed finds room in the channel, so that no failure
\* of a server keeps the process from ending.
THEOREM FailureReported == Spec => []ErrorsFit
  <1>1. TypedInv => ErrorsFit
    BY DEF TypedInv, TypeOK, Room, Unsent, Capacity, ErrorsFit
  <1>2. QED
    BY <1>1, TypedInductive, PTL
=============================================================================
