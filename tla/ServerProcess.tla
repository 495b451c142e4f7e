--------------------------- MODULE ServerProcess ---------------------------
(***************************************************************************)
(* The server process (cmd/server/main.go) from its environment to its     *)
(* exit: configuration (internal/config), the database, the Kubernetes     *)
(* provider and the call-backs, the start-up clean-up, the five goroutines *)
(* that serve, and the shutdown after a signal or a failed server.         *)
(*                                                                         *)
(* The two servers are libraries: http.Server.Shutdown stops accepting and *)
(* waits for requests until its context expires, grpc.Server.GracefulStop  *)
(* stops accepting and waits for streams, and grpc.Server.Stop closes the  *)
(* connections, after which the stream handlers return.  A connection that *)
(* was accepted outlives the listener: its client may still open streams   *)
(* or send a request while the server drains.                              *)
(***************************************************************************)
EXTENDS Integers, Sequences, FiniteSets

CONSTANTS
    Environments,  \* process environments the server may be started in
    IntBits,       \* width of int (64 in the code)
    Loops,         \* PollPendingTasks, CleanupOrphanShardsLoop, RecycleClusters
    Streams,       \* control streams agents may open
    Requests       \* GraphQL requests clients may send

\* An environment gives each variable a sequence of characters, <<>> when it is
\* unset; digits stand for themselves, 10 for any other character.  dotenv is
\* the .env file found on the way up from the working directory.
Required == {"DB_HOST", "DB_PORT", "DB_USER", "DB_PASSWORD", "DB_NAME", "CLUSTER_AGENT_TOKEN"}
Optional == {"CLUSTER_BILLING_CYCLE_SECONDS", "CLUSTER_BILLING_ADVANCE_SECONDS",
             "CLUSTER_IDLE_THRESHOLD_SECONDS", "CLUSTER_KUBERNETES_KUBECONFIG_PATH"}
Variables == Required \cup Optional
Digits == 0..9
Settings == [Variables -> Seq(0..10)]
EnvironmentType == [vars : Settings, dotenv : Settings, prod : BOOLEAN, malformed : BOOLEAN,
                    pathReadable : BOOLEAN, inCluster : BOOLEAN, homeConfig : BOOLEAN]

ASSUME ProcessAssumption ==
    /\ IntBits \in Nat \ {0}
    /\ Environments \subseteq EnvironmentType
    /\ Streams \cap Requests = {}

Steps == {"config", "db", "schema", "timeouts", "provider", "callbacks", "orphans"}

VARIABLES
    pc,         \* main: the step it is about to take
    env,        \* the environment, after LoadEnvVariable with the .env file
    config,     \* GlobalConfig, NoConfig before InitGlobalConfig
    done,       \* start-up steps that have been completed
    cancelled,  \* ctx.Done()
    loop,       \* the goroutines of the three loops
    grpc, http, \* the goroutines that serve
    errs,       \* errors buffered in server_errs
    listener,   \* grpc_listener: closed, open
    quit,       \* the gRPC server no longer accepts
    forced,     \* grpc_server.Stop has closed the connections
    inShutdown, \* the HTTP server no longer accepts
    httpStop, grpcStop,  \* the goroutines that shut the servers down
    expired,    \* ten-second timers that have fired
    conns,      \* clients (of a stream or a request) with a connection
    streams,    \* stream handlers that run
    requests    \* request handlers that run

startup == <<env, config, done>>
serving == <<grpc, http, errs, listener>>
stopping == <<quit, forced, inShutdown, httpStop, grpcStop, expired>>
work == <<loop, conns, streams, requests>>
vars == <<pc, env, config, done, cancelled, loop, grpc, http, errs, listener, quit, forced,
          inShutdown, httpStop, grpcStop, expired, conns, streams, requests>>

-----------------------------------------------------------------------------
(* Configuration *)

Wrap(n) == ((n + 2^(IntBits - 1)) % 2^IntBits) - 2^(IntBits - 1)

\* The number the loop has put together when it has read all of raw.
Accumulated(raw) ==
    LET v[i \in 0..Len(raw)] == IF i = 0 THEN 0 ELSE Wrap(v[i - 1] * 10 + raw[i])
    IN  v[Len(raw)]

\* Decimal digits in a machine integer; anything else, and zero, is the fallback.
envOrInt(raw, fallback) ==
    IF raw = <<>> \/ (\E i \in DOMAIN raw : raw[i] \notin Digits) THEN fallback
    ELSE IF Accumulated(raw) = 0 THEN fallback ELSE Accumulated(raw)

PositiveMutant(v, fallback) == v
Positive(v, fallback) == IF v <= 0 THEN fallback ELSE v

NoConfig == [cycle |-> 0, advance |-> 0, idle |-> 0]
Configured(e) == \A v \in Required : e.vars[v] # <<>>
LoadFromEnvMutant(e) ==
    [cycle |-> Positive(envOrInt(e.vars["CLUSTER_BILLING_CYCLE_SECONDS"], 3600), 3600),
     advance |-> Positive(envOrInt(e.vars["CLUSTER_BILLING_ADVANCE_SECONDS"], 180), 180)]
LoadFromEnv(e) ==
    [cycle |-> Positive(envOrInt(e.vars["CLUSTER_BILLING_CYCLE_SECONDS"], 3600), 3600),
     advance |-> Positive(envOrInt(e.vars["CLUSTER_BILLING_ADVANCE_SECONDS"], 180), 180),
     idle |-> envOrInt(e.vars["CLUSTER_IDLE_THRESHOLD_SECONDS"], 600)]

\* BuildKubeConfig: the explicit path, the pod's own account, the home directory.
KubeConfig(e) ==
    \/ e.vars["CLUSTER_KUBERNETES_KUBECONFIG_PATH"] # <<>> /\ e.pathReadable
    \/ e.vars["CLUSTER_KUBERNETES_KUBECONFIG_PATH"] = <<>> /\ (e.inCluster \/ e.homeConfig)

-----------------------------------------------------------------------------
(* main, up to the servers *)

\* A step of main fails: it returns, and the process ends.
Returns ==
    /\ pc' = "exited"
    /\ UNCHANGED <<startup, cancelled, serving, stopping, work>>

\* Unset variables are taken from .env, unless ENV is prod; a file that cannot
\* be parsed ends the process.
LoadEnvVariable ==
    /\ pc = "loadEnv"
    /\ \/ ~env.prod /\ env.malformed /\ Returns
       \/ /\ env.prod \/ ~env.malformed
          /\ env' = IF env.prod THEN env
                    ELSE [env EXCEPT !.vars = [v \in Variables |->
                            IF env.vars[v] = <<>> THEN env.dotenv[v] ELSE env.vars[v]]]
          /\ pc' = "initConfig"
          /\ UNCHANGED <<config, done, cancelled, serving, stopping, work>>

InitGlobalConfig ==
    /\ pc = "initConfig"
    /\ \/ ~Configured(env) /\ Returns
       \/ /\ Configured(env)
          /\ config' = LoadFromEnv(env) /\ done' = {"config"} /\ pc' = "openDb"
          /\ UNCHANGED <<env, cancelled, serving, stopping, work>>

Did(S, next) ==
    /\ done' = done \cup S /\ pc' = next
    /\ UNCHANGED <<env, config, cancelled, serving, stopping, work>>

\* orm.Open sets default_db.
Open == pc = "openDb" /\ (Did({"db"}, "migrate") \/ Returns)

AutoMigrate == pc = "migrate" /\ (Did({"schema"}, "provider") \/ Returns)

\* SetTimeouts; NewK8sProvider, and Register under the backend's name.
Register == {"provider"}
NewProvider ==
    /\ pc = "provider"
    /\ \/ KubeConfig(env) /\ Did({"timeouts"} \cup Register, "listen")
       \/ Returns

\* NewGRPCServer with SetTimeoutCallback, SetNotifyCancelShard; then the port.
CallbacksMutant == {}
Callbacks == {"callbacks"}
Listen ==
    /\ pc = "listen"
    /\ \/ /\ listener' = "open" /\ done' = done \cup Callbacks /\ pc' = "cleanUp"
          /\ UNCHANGED <<env, config, cancelled, grpc, http, errs, stopping, work>>
       \/ Returns

\* The one-time CleanupOrphanShards; a failure is logged and start-up goes on.
StartupCleanup == pc = "cleanUp" /\ Did({"orphans"}, "start")

StartGoroutines ==
    /\ pc = "start"
    /\ loop' = [l \in Loops |-> "waiting"]
    /\ grpc' = "starting" /\ http' = "starting"
    /\ pc' = "select"
    /\ UNCHANGED <<startup, cancelled, errs, listener, stopping, conns, streams, requests>>

-----------------------------------------------------------------------------
(* The loops *)

LoopStep(l, from, to) ==
    /\ loop[l] = from /\ pc # "exited"
    /\ loop' = [loop EXCEPT ![l] = to]
    /\ UNCHANGED <<pc, startup, cancelled, serving, stopping, conns, streams, requests>>

\* A tick may be taken although the context is done as well.
Tick(l) == LoopStep(l, "waiting", "pass")
PassEnds(l) == LoopStep(l, "pass", "waiting")
LoopStops(l) == cancelled /\ LoopStep(l, "waiting", "done")

-----------------------------------------------------------------------------
(* The servers *)

GrpcStep(from, to) ==
    /\ grpc = from /\ grpc' = to /\ pc # "exited"
    /\ UNCHANGED <<pc, startup, cancelled, http, errs, listener, stopping, work>>

GrpcServes == ~quit /\ GrpcStep("starting", "serving")
\* Accept fails, also because main has closed the listener.
GrpcAcceptFails == ~quit /\ GrpcStep("serving", "failed")
\* ErrServerStopped before it serves; nil once the server has stopped.
GrpcStopped ==
    \/ quit /\ GrpcStep("starting", "done")
    \/ quit /\ grpcStop = "done" /\ GrpcStep("serving", "done")

HttpStep(from, to) ==
    /\ http = from /\ http' = to /\ pc # "exited"
    /\ UNCHANGED <<pc, startup, cancelled, grpc, errs, listener, stopping, work>>

HttpServes == ~inShutdown /\ HttpStep("starting", "serving")
HttpFails == ~inShutdown /\ (HttpStep("starting", "failed") \/ HttpStep("serving", "failed"))
HttpClosed == inShutdown /\ (HttpStep("starting", "done") \/ HttpStep("serving", "done"))

\* make(chan error, 2)
CapacityMutant == 1
Capacity == 2
SendError ==
    /\ errs < Capacity /\ errs' = errs + 1 /\ pc # "exited"
    /\ \/ grpc = "failed" /\ grpc' = "done" /\ UNCHANGED http
       \/ http = "failed" /\ http' = "done" /\ UNCHANGED grpc
    /\ UNCHANGED <<pc, startup, cancelled, listener, stopping, work>>

\* A client's stream or request is accepted, and its handler returns.  Once the
\* HTTP server shuts down it closes a connection after the answer.
AcceptStream(s) ==
    /\ s \notin streams /\ pc # "exited"
    /\ s \in conns \/ (grpc = "serving" /\ listener = "open" /\ ~quit)
    /\ streams' = streams \cup {s} /\ conns' = conns \cup {s}
    /\ UNCHANGED <<pc, startup, cancelled, serving, stopping, loop, requests>>
AcceptRequest(r) ==
    /\ r \notin requests /\ pc # "exited"
    /\ r \in conns \/ (http = "serving" /\ ~inShutdown)
    /\ requests' = requests \cup {r} /\ conns' = conns \cup {r}
    /\ UNCHANGED <<pc, startup, cancelled, serving, stopping, loop, streams>>
StreamEnds(s) ==
    /\ s \in streams /\ pc # "exited"
    /\ streams' = streams \ {s}
    /\ UNCHANGED <<pc, startup, cancelled, serving, stopping, loop, conns, requests>>
RequestEnds(r) ==
    /\ r \in requests /\ pc # "exited"
    /\ requests' = requests \ {r} /\ conns' = IF inShutdown THEN conns \ {r} ELSE conns
    /\ UNCHANGED <<pc, startup, cancelled, serving, stopping, loop, streams>>

-----------------------------------------------------------------------------
(* Shutdown *)

Signal ==
    /\ ~cancelled /\ pc # "exited"
    /\ cancelled' = TRUE
    /\ UNCHANGED <<pc, startup, serving, stopping, work>>

\* main's select; an error of a server cancels the context.
Select ==
    /\ pc = "select" /\ pc' = "shutDown"
    /\ \/ cancelled /\ UNCHANGED <<cancelled, errs>>
       \/ errs > 0 /\ errs' = errs - 1 /\ cancelled' = TRUE
    /\ UNCHANGED <<startup, grpc, http, listener, stopping, work>>

\* wg.Add(2), the two goroutines, the timers; then main closes the listener.
ShutDown ==
    /\ pc = "shutDown" /\ pc' = "close"
    /\ httpStop' = "starting" /\ grpcStop' = "starting"
    /\ UNCHANGED <<startup, cancelled, serving, quit, forced, inShutdown, expired, work>>
CloseListener ==
    /\ pc = "close" /\ pc' = "wait" /\ listener' = "closed"
    /\ UNCHANGED <<startup, cancelled, grpc, http, errs, stopping, work>>

\* A ten-second timer: the context of Shutdown, or the AfterFunc that stops gRPC.
TimerFires(t) ==
    /\ pc \in {"close", "wait"} /\ t \notin expired
    /\ expired' = expired \cup {t}
    /\ IF t = "grpc" THEN quit' = TRUE /\ forced' = TRUE /\ listener' = "closed" /\ conns' = conns \ Streams
                     ELSE UNCHANGED <<quit, forced, listener, conns>>
    /\ UNCHANGED <<pc, startup, cancelled, grpc, http, errs, inShutdown, httpStop, grpcStop,
                   loop, streams, requests>>

Shutdown ==
    /\ pc # "exited"
    /\ \/ httpStop = "starting" /\ inShutdown' = TRUE /\ httpStop' = "running" /\ UNCHANGED conns
       \/ /\ httpStop = "running" /\ httpStop' = "done" /\ UNCHANGED inShutdown
          /\ \/ requests = {} /\ conns' = conns \ Requests
             \/ "http" \in expired /\ UNCHANGED conns
    /\ UNCHANGED <<pc, startup, cancelled, serving, quit, forced, grpcStop, expired,
                   loop, streams, requests>>

GracefulStop ==
    /\ pc # "exited"
    /\ \/ /\ grpcStop = "starting" /\ grpcStop' = "running"
          /\ quit' = TRUE /\ listener' = "closed" /\ UNCHANGED conns
       \/ /\ grpcStop = "running" /\ streams = {} /\ grpcStop' = "done"
          /\ conns' = conns \ Streams /\ UNCHANGED <<quit, listener>>
    /\ UNCHANGED <<pc, startup, cancelled, grpc, http, errs, forced, inShutdown, httpStop, expired,
                   loop, streams, requests>>

\* wg.Wait: the goroutines that were added to the group.
AwaitedMutant == grpc = "done" /\ http = "done" /\ (\A l \in Loops : loop[l] = "done")
Awaited ==
    /\ grpc = "done" /\ http = "done" /\ (\A l \in Loops : loop[l] = "done")
    /\ httpStop = "done" /\ grpcStop = "done"
WaitReturns == pc = "wait" /\ Awaited /\ Returns

-----------------------------------------------------------------------------
Init ==
    /\ pc = "loadEnv" /\ env \in Environments /\ config = NoConfig
    /\ done = {} /\ cancelled = FALSE
    /\ loop = [l \in Loops |-> "off"] /\ grpc = "off" /\ http = "off" /\ errs = 0
    /\ listener = "closed" /\ quit = FALSE /\ forced = FALSE /\ inShutdown = FALSE
    /\ httpStop = "off" /\ grpcStop = "off" /\ expired = {}
    /\ conns = {} /\ streams = {} /\ requests = {}

Startup == LoadEnvVariable \/ InitGlobalConfig \/ Open \/ AutoMigrate \/ NewProvider \/ Listen
           \/ StartupCleanup \/ StartGoroutines
Servers == GrpcServes \/ GrpcStopped \/ HttpServes \/ HttpClosed \/ SendError
Stop == Select \/ ShutDown \/ CloseListener \/ WaitReturns

Next ==
    \/ Startup \/ Servers \/ GrpcAcceptFails \/ HttpFails
    \/ \E l \in Loops : Tick(l) \/ PassEnds(l) \/ LoopStops(l)
    \/ \E s \in Streams : AcceptStream(s) \/ StreamEnds(s)
    \/ \E r \in Requests : AcceptRequest(r) \/ RequestEnds(r)
    \/ Signal \/ Stop \/ Shutdown \/ GracefulStop
    \/ \E t \in {"http", "grpc"} : TimerFires(t)

Spec == Init /\ [][Next]_vars

\* main and the goroutines run; a pass ends, since its calls take the cancelled
\* context; a loop that may stop or take another tick chooses at random; timers
\* fire; a handler whose connection was closed returns, and a server whose
\* listener was closed sees it.  Requests and open streams need not end.
Fairness ==
    /\ WF_vars(Startup) /\ WF_vars(Servers) /\ WF_vars(Stop) /\ WF_vars(Shutdown) /\ WF_vars(GracefulStop)
    /\ \A l \in Loops : WF_vars(PassEnds(l)) /\ SF_vars(LoopStops(l))
    /\ \A t \in {"http", "grpc"} : WF_vars(TimerFires(t))
    /\ \A s \in Streams : WF_vars(forced /\ StreamEnds(s))

LiveSpec == Spec /\ Fairness

-----------------------------------------------------------------------------
(* Properties *)

\* Every variable holds a value of its type; errors fit the channel.
TypeOK ==
    /\ pc \in {"loadEnv", "initConfig", "openDb", "migrate", "provider", "listen", "cleanUp",
              "start", "select", "shutDown", "close", "wait", "exited"}
    /\ env \in EnvironmentType
    /\ config \in [cycle : Int, advance : Int, idle : Int] /\ done \subseteq Steps
    /\ loop \in [Loops -> {"off", "waiting", "pass", "done"}]
    /\ {grpc, http} \subseteq {"off", "starting", "serving", "failed", "done"}
    /\ errs \in 0..2 /\ listener \in {"closed", "open"}
    /\ {cancelled, quit, forced, inShutdown} \subseteq BOOLEAN
    /\ {httpStop, grpcStop} \subseteq {"off", "starting", "running", "done"}
    /\ expired \subseteq {"http", "grpc"} /\ conns \subseteq Streams \cup Requests
    /\ streams \subseteq Streams /\ requests \subseteq Requests

\* No handler runs and no loop works before the configuration, the database, its
\* schema, the timeouts, the provider and the call-backs they use without
\* checking are in place, and main has tried to clean up the shards of the last
\* process (a clean-up that fails is only logged).
ServesWired ==
    streams # {} \/ requests # {} \/ (\E l \in Loops : loop[l] = "pass") => done = Steps

\* The billing cycle and the billing advance are positive whatever the
\* environment says, numbers that overflow int included: RenewBilling moves a
\* boundary forward, and the recycler looks ahead.
BillingPositive == "config" \in done => config.cycle > 0 /\ config.advance > 0

\* A server that fails can always report it: the goroutine never blocks on the
\* channel, although main receives at most one error and the other server may
\* fail at any time, during the shutdown as well.  A goroutine that blocked there
\* would keep wg.Wait from returning.
ErrorsFit == grpc = "failed" \/ http = "failed" => errs < Capacity

\* A process that has served ends with no loop in the middle of a pass and no
\* stream handler left, and it drops a request only after the ten seconds that
\* Shutdown waits for it.
EndsCleanly ==
    [][pc = "wait" /\ pc' = "exited" =>
         /\ \A l \in Loops : loop[l] = "done"
         /\ streams = {}
         /\ requests = {} \/ "http" \in expired]_vars

\* After a signal or the failure of a server the process ends, although agents
\* keep their streams open, requests may hang, and both servers may report an
\* error that nobody reads any more.
ShutdownCompletes == cancelled \/ errs > 0 ~> pc = "exited"
=============================================================================
