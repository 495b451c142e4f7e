----------------------- MODULE ClusterLifecycleProofs -----------------------
(***************************************************************************)
(* The poller and the recycler, for any number of tenants and tasks and    *)
(* any billing configuration: billing boundaries stay in their range, the  *)
(* rows the recycler works on are current, and a StatefulSet is deleted    *)
(* only over tasks submitted after the count.                              *)
(***************************************************************************)
EXTENDS ClusterLifecycle, TLAPS

PollerType ==
    [step : {"idle", "next", "cluster", "provision", "scale", "get", "activate", "mark"},
     tenant : Tenants \cup {NoTenant}, tasks : SUBSET Tasks]
RecyclerSteps == {"idle", "next", "count", "busy", "renew", "unused", "destroy", "terminate"}
Reads == UNION {[ns -> Row] : ns \in SUBSET Tenants}
RecyclerType == [step : RecyclerSteps, tenant : Tenants \cup {NoTenant}, read : Reads]

\* At a cluster the recycler has its row; it renews a boundary within Advance
\* only, and what it found unused has gained no task it could have counted.
AtCluster ==
    /\ recycler.step \notin {"idle", "next"} => recycler.tenant \in DOMAIN recycler.read
    /\ recycler.step = "renew" => recycler.read[recycler.tenant].due <= Advance
    /\ recycler.step \in {"unused", "destroy"} => ActiveTasks(recycler.tenant) \subseteq unseen

IndInv == TypeOK /\ ReadStaysCurrent /\ AtCluster

-----------------------------------------------------------------------------
\* What the recycler has read is a function on tenants with rows as values.
LEMMA ReadsAre ==
    ASSUME NEW f
    PROVE  f \in Reads <=> \E ns \in SUBSET Tenants : f \in [ns -> Row]
  BY DEF Reads

\* Older keeps a row well formed; the boundary comes no later than it was.
LEMMA OlderRow ==
    ASSUME NEW r \in Row
    PROVE  Older(r) \in Row /\ Older(r).due <= r.due /\ Older(r).status = r.status
  <1> DEFINE d == IF r.due = Floor THEN r.due ELSE r.due - 1
             i == IF r.idle \in {Null, IdleThreshold} THEN r.idle ELSE r.idle + 1
  <1>1. r.due \in Floor..(Cycle + Advance) /\ r.idle \in {Null} \cup (0..IdleThreshold)
    BY DEF Row
  <1>2. d \in Floor..(Cycle + Advance) /\ d <= r.due
    BY <1>1, ClusterAssumption DEF Floor
  <1>3. i \in {Null} \cup (0..IdleThreshold)
    BY <1>1, ClusterAssumption DEF Null
  <1>4. Older(r) = [r EXCEPT !.due = d, !.idle = i]
    BY DEF Older, Row
  <1> HIDE DEF d, i
  <1>5. QED
    BY <1>2, <1>3, <1>4, Zenon DEF Row

\* A renewed boundary stays in its range: one cycle is added to a boundary
\* that is no further than Advance away.
LEMMA RenewedRange ==
    ASSUME NEW due \in Floor..(Cycle + Advance), due <= Advance, NEW d \in Renewed(due)
    PROVE  d \in Floor..(Cycle + Advance)
  BY ClusterAssumption DEF Renewed, Floor

\* Leaving a cluster keeps the rest of the list.
LEMMA RecycleNextKeeps ==
    ASSUME recycler \in RecyclerType, RecycleNext
    PROVE  /\ recycler' \in RecyclerType
           /\ DOMAIN recycler'.read = DOMAIN recycler.read \ {recycler.tenant}
           /\ \A n \in DOMAIN recycler'.read : recycler'.read[n] = recycler.read[n]
           /\ recycler'.step \in {"idle", "next"}
  <1> DEFINE rest == DOMAIN recycler.read \ {recycler.tenant}
  <1>1. PICK ns \in SUBSET Tenants : recycler.read \in [ns -> Row]
    BY ReadsAre DEF RecyclerType
  <1>2. [n \in rest |-> recycler.read[n]] \in [rest -> Row] /\ rest \in SUBSET Tenants
    BY <1>1
  <1>3. [n \in rest |-> recycler.read[n]] \in Reads
    BY <1>2, ReadsAre
  <1>4. recycler' = [step |-> IF rest = {} THEN "idle" ELSE "next", tenant |-> NoTenant,
                     read |-> [n \in rest |-> recycler.read[n]]]
    BY DEF RecycleNext
  <1> HIDE DEF rest
  <1>5. recycler' \in RecyclerType /\ recycler'.step \in {"idle", "next"}
    BY <1>3, <1>4 DEF RecyclerType, RecyclerSteps
  <1>6. QED
    BY <1>4, <1>5 DEF rest

\* The next step at the same cluster.
LEMMA RecycleKeeps ==
    ASSUME recycler \in RecyclerType, NEW step \in RecyclerSteps, Recycle(step)
    PROVE  /\ recycler' \in RecyclerType /\ recycler'.read = recycler.read
           /\ recycler'.tenant = recycler.tenant /\ recycler'.step = step
  BY DEF Recycle, RecyclerType

\* The poller's bookkeeping is well formed.
LEMMA PollKeeps ==
    ASSUME poller \in PollerType,
           \/ \E step \in {"cluster", "provision", "scale", "get", "activate", "mark"} : PollStep(step)
           \/ \E ts \in SUBSET Tasks : PollNext(ts)
    PROVE  poller' \in PollerType
  BY DEF PollStep, PollNext, PollerType

\* Types of the tables and histories, which most steps leave alone.
LEMMA Parts ==
    TypeOK <=> /\ row \in [Tenants -> Row]
               /\ sts \in [Names -> Tenants \cup {NoTenant}]
               /\ task \in [Tasks -> {"PENDING", "WAITING_FOR_AGENTS", "ENDED"}]
               /\ poller \in PollerType /\ recycler \in RecyclerType
               /\ unseen \subseteq Tasks
  BY DEF TypeOK, PollerType, RecyclerType, RecyclerSteps, Reads

\* The same for the next state.
LEMMA PartsNext ==
    TypeOK' <=> /\ row' \in [Tenants -> Row]
                /\ sts' \in [Names -> Tenants \cup {NoTenant}]
                /\ task' \in [Tasks -> {"PENDING", "WAITING_FOR_AGENTS", "ENDED"}]
                /\ poller' \in PollerType /\ recycler' \in RecyclerType
                /\ unseen' \subseteq Tasks
  BY DEF TypeOK, PollerType, RecyclerType, RecyclerSteps, Reads

\* AtCluster is kept by a step that leaves the recycler alone and makes no task
\* active but those it adds to unseen.
LEMMA AtClusterKept ==
    ASSUME AtCluster, recycler' = recycler,
           \A n : ActiveTasks(n) \subseteq unseen => ActiveTasks(n)' \subseteq unseen'
    PROVE  AtCluster'
  BY DEF AtCluster

-----------------------------------------------------------------------------
\* Users submit and end tasks.
LEMMA TaskStep ==
    ASSUME IndInv, NEW t \in Tasks, SubmitTask(t) \/ EndTask(t)
    PROVE  IndInv'
  <1> USE Parts, PartsNext DEF IndInv
  <1>1. \A n : ActiveTasks(n) \subseteq unseen => ActiveTasks(n)' \subseteq unseen'
    BY DEF SubmitTask, EndTask, ActiveTasks
  <1>2. AtCluster' /\ ReadStaysCurrent'
    BY <1>1, AtClusterKept DEF SubmitTask, EndTask, ReadStaysCurrent
  <1>3. TypeOK'
    BY DEF SubmitTask, EndTask
  <1>4. QED
    BY <1>2, <1>3

\* Time passes for the tables and for what was read alike.
LEMMA TickStep ==
    ASSUME IndInv, Tick
    PROVE  IndInv'
  <1> USE Parts, PartsNext DEF IndInv
  <1>1. PICK ns \in SUBSET Tenants : recycler.read \in [ns -> Row]
    BY ReadsAre DEF RecyclerType
  <1> DEFINE aged == [n \in DOMAIN recycler.read |-> Older(recycler.read[n])]
  <1>2. recycler' = [recycler EXCEPT !.read = aged]
    BY DEF Tick
  <1>3. aged \in [ns -> Row]
    BY <1>1, OlderRow
  <1>4. aged \in Reads
    BY <1>3, ReadsAre
  <1>5. /\ recycler' \in RecyclerType /\ recycler'.read = aged
        /\ recycler'.step = recycler.step /\ recycler'.tenant = recycler.tenant
    <2> HIDE DEF aged
    <2> QED
      BY <1>2, <1>4 DEF RecyclerType
  <1>6. row' \in [Tenants -> Row]
    BY OlderRow DEF Tick
  <1>7. TypeOK'
    BY <1>5, <1>6 DEF Tick
  <1>8. ReadStaysCurrent'
    <2> SUFFICES ASSUME NEW n \in DOMAIN recycler'.read
                 PROVE  row'[n].status = "ACTIVE" /\ row'[n].due = recycler'.read[n].due
      BY DEF ReadStaysCurrent
    <2>1. n \in DOMAIN recycler.read /\ n \in Tenants
      BY <1>1, <1>5
    <2>2. row[n] \in Row /\ recycler.read[n] \in Row /\ row[n].due = recycler.read[n].due
          /\ row[n].status = "ACTIVE"
      BY <1>1, <2>1 DEF ReadStaysCurrent
    <2>3. row'[n] = Older(row[n]) /\ recycler'.read[n] = Older(recycler.read[n])
      BY <1>5, <2>1 DEF Tick
    <2>4. ASSUME NEW r \in Row
          PROVE  Older(r).due = IF r.due = Floor THEN r.due ELSE r.due - 1
      BY DEF Older, Row
    <2>5. QED
      BY <2>2, <2>3, <2>4, OlderRow
  <1>9. AtCluster'
    <2>1. recycler'.step = "renew" => recycler'.read[recycler'.tenant].due <= Advance
      <3> SUFFICES ASSUME recycler'.step = "renew"
                   PROVE  recycler'.read[recycler'.tenant].due <= Advance
        OBVIOUS
      <3>1. recycler.tenant \in DOMAIN recycler.read /\ recycler.read[recycler.tenant].due <= Advance
        BY <1>5 DEF AtCluster
      <3>2. recycler.read[recycler.tenant] \in Row
        BY <1>1, <3>1
      <3>3. recycler'.read[recycler'.tenant] = Older(recycler.read[recycler.tenant])
        BY <1>5, <3>1
      <3>4. Older(recycler.read[recycler.tenant]).due <= recycler.read[recycler.tenant].due
            /\ Older(recycler.read[recycler.tenant]).due \in Int
            /\ recycler.read[recycler.tenant].due \in Int
        BY <3>2, OlderRow, ClusterAssumption DEF Row, Floor
      <3>5. QED
        BY <3>1, <3>3, <3>4, ClusterAssumption
    <2>2. ActiveTasks(recycler.tenant)' = ActiveTasks(recycler.tenant) /\ unseen' = unseen
      BY <1>5 DEF Tick, ActiveTasks
    <2>3. QED
      BY <1>5, <2>1, <2>2 DEF AtCluster, Tick, ActiveTasks
  <1>10. QED
    BY <1>7, <1>8, <1>9

\* A step of the poller: it leaves ACTIVE rows and their boundaries alone, and
\* moves tasks from one active status to the other only.
LEMMA PollStepKeeps ==
    ASSUME IndInv, GetPendingTaskList \/ Poll
    PROVE  IndInv'
  <1> USE Parts, PartsNext, ClusterAssumption DEF IndInv
  <1>1. recycler' = recycler /\ unseen' = unseen
    BY Zenon DEF GetPendingTaskList, Poll, PollTenant, GetOrCreateActiveCluster, ProvisionCluster, ScaleCluster,
           GetByTenant, MarkActive, MarkTasksStatus, ProvisionFailed
  <1>2. poller' \in PollerType
    <2>1. {t \in Tasks : task[t] = "PENDING"} \in SUBSET Tasks /\ poller.tasks \ Group \in SUBSET Tasks
      BY DEF PollerType
    <2>2. CASE PollTenant
      <3>1. PICK t \in poller.tasks :
               \/ poller' = [poller EXCEPT !.step = "cluster", !.tenant = TaskTenant[t]]
               \/ PollNext({u \in poller.tasks : TaskTenant[u] # TaskTenant[t]})
        BY <2>2 DEF PollTenant
      <3>2. CASE poller' = [poller EXCEPT !.step = "cluster", !.tenant = TaskTenant[t]]
        BY <3>2, Zenon DEF PollerType
      <3>3. CASE PollNext({u \in poller.tasks : TaskTenant[u] # TaskTenant[t]})
        <4>1. {u \in poller.tasks : TaskTenant[u] # TaskTenant[t]} \in SUBSET Tasks
          BY DEF PollerType
        <4>2. QED
          BY <3>3, <4>1, PollKeeps
      <3>4. QED
        BY <3>1, <3>2, <3>3
    <2>3. CASE GetPendingTaskList \/ ProvisionFailed \/ MarkTasksStatus
      BY <2>1, <2>3, PollKeeps DEF GetPendingTaskList, ProvisionFailed, MarkTasksStatus
    <2>4. CASE GetOrCreateActiveCluster \/ ProvisionCluster \/ ScaleCluster \/ GetByTenant \/ MarkActive
      BY <2>4, PollKeeps DEF GetOrCreateActiveCluster, ProvisionCluster, ScaleCluster, GetByTenant, MarkActive
    <2>5. QED
      BY <2>2, <2>3, <2>4 DEF Poll
  <1>3. /\ row' \in [Tenants -> Row]
        /\ \A n \in Tenants : row[n].status = "ACTIVE" =>
              row'[n].status = "ACTIVE" /\ row'[n].due = row[n].due
    <2>1. CASE GetOrCreateActiveCluster
      <3>1. Cycle \in Floor..(Cycle + Advance)
        BY DEF Floor
      <3>2. CASE row[poller.tenant].status \in {"ABSENT", "TERMINATED"}
        <4>1. row' = [row EXCEPT ![poller.tenant].status = "PROVISIONING", ![poller.tenant].due = Cycle]
          BY <2>1, <3>2 DEF GetOrCreateActiveCluster
        <4>2. QED
          BY <3>1, <3>2, <4>1, ZenonT(30) DEF Row, RowStatus
      <3>3. CASE row[poller.tenant].status \notin {"ABSENT", "TERMINATED"}
        BY <2>1, <3>3 DEF GetOrCreateActiveCluster
      <3>4. QED
        BY <3>2, <3>3
    <2>2. CASE row' = [row EXCEPT ![poller.tenant].status = "ACTIVE"]
      BY <2>2, ZenonT(30) DEF Row, RowStatus
    <2>3. CASE row' = row
      BY <2>3
    <2>4. QED
      BY <2>1, <2>2, <2>3, Zenon DEF GetPendingTaskList, Poll, PollTenant, ProvisionCluster, ScaleCluster,
                              GetByTenant, MarkActive, MarkTasksStatus, ProvisionFailed
  <1>4. sts' \in [Names -> Tenants \cup {NoTenant}]
    BY ZenonT(30) DEF GetPendingTaskList, Poll, PollTenant, GetOrCreateActiveCluster, ProvisionCluster, ScaleCluster,
           GetByTenant, MarkActive, MarkTasksStatus, ProvisionFailed, PollerType
  <1>5. /\ task' \in [Tasks -> {"PENDING", "WAITING_FOR_AGENTS", "ENDED"}]
        /\ \A n : ActiveTasks(n)' = ActiveTasks(n)
    <2>1. CASE MarkTasksStatus
      BY <2>1 DEF MarkTasksStatus, ActiveTasks
    <2>2. CASE task' = task
      BY <2>2 DEF ActiveTasks
    <2>3. QED
      BY <2>1, <2>2, Zenon DEF GetPendingTaskList, Poll, PollTenant, GetOrCreateActiveCluster, ProvisionCluster,
                        ScaleCluster, GetByTenant, MarkActive, ProvisionFailed
  <1>6. ReadStaysCurrent'
    <2>1. DOMAIN recycler.read \subseteq Tenants
      BY ReadsAre DEF RecyclerType
    <2>2. QED
      BY <1>1, <1>3, <2>1 DEF ReadStaysCurrent
  <1>7. AtCluster'
    BY <1>1, <1>5, AtClusterKept
  <1>8. QED
    BY <1>1, <1>2, <1>3, <1>4, <1>5, <1>6, <1>7, SMTT(30)

\* The recycler leaves a cluster: whatever it did to the row of that cluster,
\* the rows still to do are untouched.
LEMMA LeaveCluster ==
    ASSUME IndInv, RecycleNext, row' \in [Tenants -> Row],
           \A n \in Tenants : n # recycler.tenant => row'[n] = row[n],
           recycler.step \notin {"idle", "next"}
    PROVE  recycler' \in RecyclerType /\ ReadStaysCurrent' /\ AtCluster'
  <1> USE Parts DEF IndInv
  <1>1. DOMAIN recycler.read \subseteq Tenants
    BY ReadsAre DEF RecyclerType
  <1>2. ReadStaysCurrent'
    BY <1>1, RecycleNextKeeps DEF ReadStaysCurrent
  <1>3. AtCluster'
    BY RecycleNextKeeps DEF AtCluster
  <1>4. QED
    BY <1>2, <1>3, RecycleNextKeeps

\* The recycler goes on with a cluster, having touched no more than idle_since.
LEMMA StayAtCluster ==
    ASSUME IndInv, NEW step \in RecyclerSteps, Recycle(step),
           \A n \in Tenants : row'[n].status = row[n].status /\ row'[n].due = row[n].due
    PROVE  recycler' \in RecyclerType /\ ReadStaysCurrent'
  <1> USE Parts DEF IndInv
  <1>1. DOMAIN recycler.read \subseteq Tenants
    BY ReadsAre DEF RecyclerType
  <1>2. QED
    BY <1>1, RecycleKeeps DEF ReadStaysCurrent

-----------------------------------------------------------------------------
\* The recycler lists the ACTIVE clusters, with the rows as they are.
LEMMA ListStep ==
    ASSUME IndInv, GetActiveClusterList
    PROVE  IndInv'
  <1> USE Parts, PartsNext DEF IndInv
  <1> DEFINE listed == {n \in Tenants : row[n].status = "ACTIVE"}
             read == [n \in listed |-> row[n]]
  <1>1. recycler' = [step |-> "next", tenant |-> NoTenant, read |-> read]
    BY DEF GetActiveClusterList
  <1>2. read \in [listed -> Row] /\ listed \in SUBSET Tenants
    OBVIOUS
  <1>3. read \in Reads
    BY <1>2, ReadsAre
  <1>4. recycler' \in RecyclerType /\ recycler'.read = read /\ recycler'.step = "next"
    <2> HIDE DEF read
    <2> QED
      BY <1>1, <1>3 DEF RecyclerType, RecyclerSteps
  <1>5. ReadStaysCurrent'
    BY <1>4 DEF ReadStaysCurrent, GetActiveClusterList
  <1>6. AtCluster'
    BY <1>4 DEF AtCluster
  <1>7. QED
    BY <1>4, <1>5, <1>6 DEF GetActiveClusterList

\* The recycler picks a cluster and counts its tasks.
LEMMA CountStep ==
    ASSUME IndInv, RecycleTenant \/ CountActiveTasks
    PROVE  IndInv'
  <1> USE Parts, PartsNext DEF IndInv
  <1>1. CASE RecycleTenant
    <2>1. PICK n \in DOMAIN recycler.read : recycler' = [recycler EXCEPT !.step = "count", !.tenant = n]
      BY <1>1, Zenon DEF RecycleTenant
    <2>2. n \in Tenants
      BY ReadsAre DEF RecyclerType
    <2>3. recycler' \in RecyclerType /\ recycler'.read = recycler.read
          /\ recycler'.step = "count" /\ recycler'.tenant = n
      BY <2>1, <2>2, Zenon DEF RecyclerType, RecyclerSteps
    <2>4. ReadStaysCurrent' /\ AtCluster'
      BY <1>1, <2>3, Zenon DEF ReadStaysCurrent, AtCluster, RecycleTenant
    <2>5. QED
      BY <1>1, <2>3, <2>4, Zenon DEF RecycleTenant
  <1>2. CASE CountActiveTasks /\ RecycleNext
    BY <1>2, LeaveCluster DEF CountActiveTasks
  <1>3. CASE CountActiveTasks /\ ~RecycleNext
    <2> DEFINE step == IF Counted(recycler.tenant) # {} THEN "busy" ELSE "unused"
    <2>1. Recycle(step) /\ step \in RecyclerSteps
      BY <1>3 DEF CountActiveTasks, RecyclerSteps
    <2>2. recycler' \in RecyclerType /\ ReadStaysCurrent'
      BY <1>3, <2>1, StayAtCluster DEF CountActiveTasks
    <2>3. recycler'.step = step /\ recycler'.tenant = recycler.tenant /\ recycler'.read = recycler.read
      BY <2>1, RecycleKeeps
    <2>4. ActiveTasks(recycler.tenant)' = ActiveTasks(recycler.tenant)
      BY <1>3, <2>3 DEF CountActiveTasks, ActiveTasks
    <2>5. AtCluster'
      <3>1. recycler.tenant \in DOMAIN recycler.read
        BY <1>3 DEF AtCluster, CountActiveTasks
      <3>2. step = "unused" => ActiveTasks(recycler.tenant) = {}
        BY DEF Counted
      <3>3. step \in {"busy", "unused"}
        OBVIOUS
      <3> HIDE DEF step
      <3>4. QED
        BY <2>3, <2>4, <3>1, <3>2, <3>3 DEF AtCluster
    <2>6. QED
      BY <1>3, <2>2, <2>5 DEF CountActiveTasks
  <1>4. QED
    BY <1>1, <1>2, <1>3

\* A cluster with active tasks: its idle timer is cleared, its period renewed.
LEMMA BusyStep ==
    ASSUME IndInv, ClearIdle \/ RenewBilling
    PROVE  IndInv'
  <1> USE Parts, PartsNext DEF IndInv
  <1>1. DOMAIN recycler.read \subseteq Tenants /\ recycler.tenant \in DOMAIN recycler.read
        /\ Current \in Row
    BY ReadsAre DEF RecyclerType, AtCluster, ClearIdle, RenewBilling, Current
  <1>2. CASE ClearIdle
    <2>1. row' \in [Tenants -> Row] /\ (\A n \in Tenants : n # recycler.tenant => row'[n] = row[n])
          /\ \A n \in Tenants : row'[n].status = row[n].status /\ row'[n].due = row[n].due
      <3>1. CASE row' = [row EXCEPT ![recycler.tenant].idle = Null]
        BY <3>1, ZenonT(30) DEF Row
      <3>2. QED
        BY <1>2, <3>1 DEF ClearIdle
    <2>2. CASE RecycleNext
      BY <1>2, <2>1, <2>2, LeaveCluster DEF ClearIdle
    <2>3. CASE ~RecycleNext
      <3>1. Recycle("renew") /\ "renew" \in RecyclerSteps /\ (IsExpired(Current) \/ IsNearBoundary(Current))
        BY <1>2, <2>3 DEF ClearIdle, RecyclerSteps
      <3>2. Current.due <= Advance
        BY <1>1, <3>1, ClusterAssumption DEF IsExpired, IsNearBoundary, Row, Floor
      <3>3. recycler' \in RecyclerType /\ ReadStaysCurrent'
        BY <2>1, <3>1, StayAtCluster
      <3>4. AtCluster'
        BY <1>1, <3>1, <3>2, RecycleKeeps DEF AtCluster, Current
      <3>5. QED
        BY <1>2, <2>1, <3>3, <3>4 DEF ClearIdle
    <2>4. QED
      BY <2>2, <2>3
  <1>3. CASE RenewBilling
    <2>1. row[recycler.tenant].due \in Floor..(Cycle + Advance) /\ row[recycler.tenant].due <= Advance
      BY <1>1, <1>3 DEF RenewBilling, AtCluster, ReadStaysCurrent, Row
    <2>2. row' \in [Tenants -> Row] /\ \A n \in Tenants : n # recycler.tenant => row'[n] = row[n]
      <3>1. ASSUME NEW due \in Renewed(row[recycler.tenant].due),
                   row' = [row EXCEPT ![recycler.tenant].due = due]
            PROVE  row' \in [Tenants -> Row] /\ \A n \in Tenants : n # recycler.tenant => row'[n] = row[n]
        <4>1. due \in Floor..(Cycle + Advance)
          BY <2>1, <3>1, RenewedRange
        <4>2. QED
          BY <3>1, <4>1, Zenon DEF Row
      <3>2. QED
        BY <1>3, <3>1, Zenon DEF RenewBilling
    <2>3. QED
      BY <1>3, <2>2, LeaveCluster DEF RenewBilling
  <1>4. QED
    BY <1>2, <1>3

\* A cluster without active tasks: its idle timer is started, and it is taken
\* down when it has been idle for long enough.
LEMMA UnusedStep ==
    ASSUME IndInv, StartIdle \/ DestroyCluster \/ TerminateCluster
    PROVE  IndInv'
  <1> USE Parts, PartsNext DEF IndInv
  <1>1. CASE StartIdle
    <2>1. row' \in [Tenants -> Row] /\ (\A n \in Tenants : n # recycler.tenant => row'[n] = row[n])
          /\ \A n \in Tenants : row'[n].status = row[n].status /\ row'[n].due = row[n].due
      <3>1. CASE row' = [row EXCEPT ![recycler.tenant].idle = 0]
        <4>1. 0 \in {Null} \cup (0..IdleThreshold)
          BY ClusterAssumption
        <4>2. QED
          BY <3>1, <4>1, ZenonT(30) DEF Row
      <3>2. CASE row' = row
        BY <3>2
      <3>3. QED
        BY <1>1, <3>1, <3>2 DEF StartIdle
    <2>2. CASE RecycleNext
      BY <1>1, <2>1, <2>2, LeaveCluster DEF StartIdle
    <2>3. CASE ~RecycleNext
      <3>1. Recycle("destroy") /\ "destroy" \in RecyclerSteps
        BY <1>1, <2>3 DEF StartIdle, RecyclerSteps
      <3>2. recycler' \in RecyclerType /\ ReadStaysCurrent'
        BY <2>1, <3>1, StayAtCluster
      <3>3. recycler'.step = "destroy" /\ recycler'.tenant = recycler.tenant
            /\ recycler'.read = recycler.read
        BY <3>1, RecycleKeeps
      <3>4. ActiveTasks(recycler.tenant)' = ActiveTasks(recycler.tenant) /\ unseen' = unseen
        BY <1>1, <3>3 DEF StartIdle, ActiveTasks
      <3>5. AtCluster'
        BY <1>1, <3>3, <3>4 DEF AtCluster, StartIdle
      <3>6. QED
        BY <1>1, <2>1, <3>2, <3>5 DEF StartIdle
    <2>4. QED
      BY <2>2, <2>3
  <1>2. CASE DestroyCluster
    <2>1. sts' \in [Names -> Tenants \cup {NoTenant}]
      BY <1>2 DEF DestroyCluster
    <2>2. CASE RecycleNext
      BY <1>2, <2>1, <2>2, LeaveCluster DEF DestroyCluster
    <2>3. CASE ~RecycleNext
      <3>1. Recycle("terminate") /\ "terminate" \in RecyclerSteps
        BY <1>2, <2>3 DEF DestroyCluster, RecyclerSteps
      <3>2. recycler' \in RecyclerType /\ ReadStaysCurrent'
        BY <1>2, <3>1, StayAtCluster DEF DestroyCluster
      <3>3. AtCluster'
        BY <1>2, <3>1, RecycleKeeps DEF AtCluster, DestroyCluster
      <3>4. QED
        BY <1>2, <2>1, <3>2, <3>3 DEF DestroyCluster
    <2>4. QED
      BY <2>2, <2>3
  <1>3. CASE TerminateCluster
    <2>1. row' \in [Tenants -> Row] /\ \A n \in Tenants : n # recycler.tenant => row'[n] = row[n]
      <3>1. CASE row' = [row EXCEPT ![recycler.tenant].status = "TERMINATED"]
        BY <3>1, ZenonT(30) DEF Row, RowStatus
      <3>2. QED
        BY <1>3, <3>1 DEF TerminateCluster
    <2>2. QED
      BY <1>3, <2>1, LeaveCluster DEF TerminateCluster
  <1>4. QED
    BY <1>1, <1>2, <1>3

\* A server that starts, for the first time or again, has read nothing.
LEMMA NothingRead ==
    ASSUME NEW f \in [{} -> Row]
    PROVE  [step |-> "idle", tenant |-> NoTenant, read |-> f] \in RecyclerType
           /\ [step |-> "idle", tenant |-> NoTenant, tasks |-> {}] \in PollerType
  <1>1. f \in Reads
    BY ReadsAre, Zenon
  <1>2. QED
    BY <1>1 DEF RecyclerType, RecyclerSteps, PollerType

\* Every step keeps the invariant.
LEMMA IndInvStep ==
    ASSUME IndInv, [Next]_vars
    PROVE  IndInv'
  <1>1. CASE Restart
    <2>1. /\ recycler' = [step |-> "idle", tenant |-> NoTenant, read |-> [n \in {} |-> row[n]]]
          /\ poller' = [step |-> "idle", tenant |-> NoTenant, tasks |-> {}]
      BY <1>1 DEF Restart
    <2>2. [n \in {} |-> row[n]] \in [{} -> Row]
      OBVIOUS
    <2>3. recycler' \in RecyclerType /\ poller' \in PollerType
      BY <2>1, <2>2, NothingRead, Zenon
    <2>4. recycler'.step = "idle" /\ DOMAIN recycler'.read = {}
      BY <2>1
    <2>5. ReadStaysCurrent' /\ AtCluster'
      BY <2>4 DEF ReadStaysCurrent, AtCluster
    <2>6. QED
      BY <1>1, <2>3, <2>5, Parts, PartsNext DEF IndInv, Restart
  <1>2. CASE UNCHANGED vars
    BY <1>2, Parts, PartsNext DEF vars, IndInv, ReadStaysCurrent, AtCluster, ActiveTasks
  <1>3. QED
    BY <1>1, <1>2, TaskStep, TickStep, PollStepKeeps, ListStep, CountStep, BusyStep, UnusedStep
    DEF Next, Pass

\* The invariant holds of every reachable state.
LEMMA Inductive == Spec => []IndInv
  <1>1. ASSUME Init PROVE IndInv
    <2>1. NewRow \in Row
      BY ClusterAssumption DEF NewRow, Row, RowStatus, Floor, Null
    <2>2. [n \in {} |-> NewRow] \in [{} -> Row]
      OBVIOUS
    <2>3. recycler \in RecyclerType /\ poller \in PollerType
      BY <1>1, <2>2, NothingRead, Zenon DEF Init
    <2>4. recycler.step = "idle" /\ DOMAIN recycler.read = {}
      BY <1>1 DEF Init
    <2>5. ReadStaysCurrent /\ AtCluster
      BY <2>4 DEF ReadStaysCurrent, AtCluster
    <2>6. TypeOK
      BY <1>1, <2>1, <2>3, Parts DEF Init
    <2>7. QED
      BY <2>5, <2>6 DEF IndInv
  <1>2. IndInv /\ [Next]_vars => IndInv'
    BY IndInvStep
  <1>3. QED
    BY <1>1, <1>2, PTL DEF Spec

-----------------------------------------------------------------------------
\* Rows, StatefulSets, tasks and both loops stay well formed, for every billing
\* configuration: RenewBilling never pushes a boundary further than one cycle
\* past the advance.
THEOREM BillingInRange == Spec => []TypeOK
  BY Inductive, PTL DEF IndInv

\* No row changes its status or its boundary under RecycleClusters.
THEOREM ReadsCurrent == Spec => []ReadStaysCurrent
  BY Inductive, PTL DEF IndInv

\* A tenant's StatefulSet is deleted only over tasks submitted after the count.
THEOREM DestroysUnused == Spec => []DestroysOnlyUnseen
  <1>1. IndInv => DestroysOnlyUnseen
    BY DEF IndInv, AtCluster, DestroysOnlyUnseen
  <1>2. QED
    BY <1>1, Inductive, PTL

-----------------------------------------------------------------------------
(* Tenants whose backend is not registered *)

\* PollPendingTasks goes past registry.Get only for a registered backend.
PollsRegistered ==
    poller.step \notin {"idle", "next"} => poller.tenant \in Registered

\* No task of a tenant with an unregistered backend waits for agents.
UnregisteredNeverWaits ==
    \A t \in Tasks : TaskTenant[t] \notin Registered => task[t] # "WAITING_FOR_AGENTS"

\* Only the poller's own steps and a restart move the poller.
LEMMA PollerMoves ==
    ASSUME [Next]_vars
    PROVE  poller' = poller \/ GetPendingTaskList \/ Poll \/ Restart
  <1>1. CASE \E t \in Tasks : SubmitTask(t) \/ EndTask(t)
    BY <1>1 DEF SubmitTask, EndTask
  <1>2. CASE GetActiveClusterList \/ Pass \/ Tick
    BY <1>2, Zenon DEF GetActiveClusterList, Pass, Tick, RecycleTenant, CountActiveTasks, ClearIdle, RenewBilling,
           StartIdle, DestroyCluster, TerminateCluster
  <1>3. QED
    BY <1>1, <1>2 DEF Next, vars

\* The poller works on a tenant it has looked up, until it turns to the next one.
LEMMA PollsRegisteredStep ==
    ASSUME TypeOK, PollsRegistered, [Next]_vars
    PROVE  PollsRegistered'
  <1> USE DEF PollsRegistered
  <1>0. poller \in PollerType
    BY Parts
  <1>1. CASE poller' = poller
    BY <1>1
  <1>2. ASSUME NEW ts, PollNext(ts) PROVE PollsRegistered'
    BY <1>2 DEF PollNext
  <1>3. ASSUME NEW step, poller.step \notin {"idle", "next"}, PollStep(step) PROVE PollsRegistered'
    BY <1>0, <1>3 DEF PollStep, PollerType
  <1>4. CASE PollTenant
    <2>1. PICK t \in poller.tasks :
             \/ TaskTenant[t] \in Registered /\ poller' = [poller EXCEPT !.step = "cluster", !.tenant = TaskTenant[t]]
             \/ PollNext({u \in poller.tasks : TaskTenant[u] # TaskTenant[t]})
      BY <1>4 DEF PollTenant
    <2>2. CASE TaskTenant[t] \in Registered /\ poller' = [poller EXCEPT !.step = "cluster", !.tenant = TaskTenant[t]]
      BY <1>0, <2>2 DEF PollerType
    <2>3. QED
      BY <1>2, <2>1, <2>2
  <1>5. CASE GetPendingTaskList \/ ProvisionFailed \/ MarkTasksStatus
    BY <1>2, <1>5 DEF GetPendingTaskList, ProvisionFailed, MarkTasksStatus
  <1>6. CASE GetOrCreateActiveCluster \/ ProvisionCluster \/ ScaleCluster \/ GetByTenant \/ MarkActive
    <2>1. poller.step \notin {"idle", "next"}
      BY <1>6 DEF GetOrCreateActiveCluster, ProvisionCluster, ScaleCluster, GetByTenant, MarkActive
    <2>2. \E step : PollStep(step)
      BY <1>6, Zenon DEF GetOrCreateActiveCluster, ProvisionCluster, ScaleCluster, GetByTenant, MarkActive
    <2>3. QED
      BY <1>3, <2>1, <2>2
  <1>7. CASE Restart
    BY <1>7 DEF Restart
  <1>8. QED
    BY <1>1, <1>4, <1>5, <1>6, <1>7, PollerMoves DEF Poll

\* A task only waits for agents after MarkTasksStatus, of the tenant at hand.
LEMMA UnregisteredStep ==
    ASSUME TypeOK, PollsRegistered, UnregisteredNeverWaits, [Next]_vars
    PROVE  UnregisteredNeverWaits'
  <1> USE DEF UnregisteredNeverWaits
  <1>0. task \in [Tasks -> {"PENDING", "WAITING_FOR_AGENTS", "ENDED"}]
    BY Parts
  <1>1. CASE \E t \in Tasks : SubmitTask(t) \/ EndTask(t)
    BY <1>0, <1>1 DEF SubmitTask, EndTask
  <1>2. CASE MarkTasksStatus
    <2>1. poller.tenant \in Registered
      BY <1>2 DEF MarkTasksStatus, PollsRegistered
    <2>2. QED
      BY <1>0, <1>2, <2>1 DEF MarkTasksStatus, Group
  <1>3. CASE task' = task
    BY <1>3
  <1>4. [Next]_vars => task' = task \/ MarkTasksStatus \/ \E t \in Tasks : SubmitTask(t) \/ EndTask(t)
    BY Zenon DEF Next, vars, GetPendingTaskList, Poll, PollTenant, GetOrCreateActiveCluster, ProvisionCluster,
           ScaleCluster, GetByTenant, MarkActive, ProvisionFailed, GetActiveClusterList, Pass, RecycleTenant,
           CountActiveTasks, ClearIdle, RenewBilling, StartIdle, DestroyCluster, TerminateCluster, Tick, Restart
  <1>5. QED
    BY <1>1, <1>2, <1>3, <1>4

\* The tasks of a tenant whose primary backend is not registered never wait for
\* agents: they stay PENDING until they are cancelled, whatever the poller, the
\* recycler and restarts do.
THEOREM UnregisteredStaysPending == Spec => []UnregisteredNeverWaits
  <1>1. Init => PollsRegistered /\ UnregisteredNeverWaits
    BY DEF Init, PollsRegistered, UnregisteredNeverWaits
  <1>2. /\ IndInv /\ PollsRegistered /\ UnregisteredNeverWaits
        /\ [Next]_vars
        => PollsRegistered' /\ UnregisteredNeverWaits'
    BY PollsRegisteredStep, UnregisteredStep DEF IndInv
  <1>3. QED
    BY <1>1, <1>2, Inductive, PTL DEF Spec
=============================================================================
