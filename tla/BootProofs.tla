------------------------------ MODULE BootProofs ------------------------------
(***************************************************************************)
(* What the start of the verifier does whatever the interfaces, the sizes  *)
(* of the pools, the files and the threads that cannot be created: the     *)
(* singleton is set once, models are loaded one at a time, what serves is  *)
(* what the file asks for, and a line is logged as its switches say.       *)
(***************************************************************************)
EXTENDS Boot, FiniteSetTheorems, SequenceTheorems, WellFoundedInduction, TLAPS

MainPlaces == {"config", "pool", "instance", "reset", "spawn", "register", "join", "dead"}
WorkerPlaces == {"none", "instance", "reset", "create", "creating", "serving"}

TypeOK ==
  /\ pc \in [Threads -> MainPlaces \cup WorkerPlaces]
  /\ pc[Main] \in MainPlaces
  /\ \A w \in Workers : pc[w] \in WorkerPlaces
  /\ pool \in 1 .. Len(Interfaces) + 1
  /\ mtx \subseteq Workers

\* The main thread is at a pool that is configured.
Making == pc[Main] \in {"instance", "reset", "spawn", "register"} => pool \in Pools

\* Until the singleton is set no worker is there and the main thread has not
\* come past it; from then on nobody is about to set it.
SetByMain ==
  \/ /\ factory = 0
     /\ \A w \in Workers : pc[w] = "none"
     /\ pc[Main] \notin {"spawn", "register"}
  \/ factory = 1 /\ \A t \in Threads : pc[t] # "reset"

\* The workers of a pool are started in the order of their numbers, so that
\* the next number is not that of one that runs.
InOrder == \A k \in Pools : \E n \in 0 .. MaxWorkers : Started(k) = 1 .. n

\* The mutex is held by the worker that loads.
Loading ==
  /\ mtx = {w \in Workers : pc[w] = "creating"}
  /\ mtx = {} \/ \E w \in Workers : mtx = {w}

StartInv == TypeOK /\ Making /\ SetByMain /\ InOrder /\ Loading

-----------------------------------------------------------------------------
(* The pools. *)

LEMMA PoolsAreNumbered == Pools = 1 .. Len(Interfaces) /\ Len(Interfaces) \in Nat
BY PoolsAssumption DEF Pools

LEMMA MainIsNoWorker == Main \notin Workers
BY SizesAssumption DEF Main, Workers

\* The number of workers of a pool that is built in order.
LEMMA CountInOrder ==
  ASSUME NEW k \in Pools, NEW n \in 0 .. MaxWorkers, Started(k) = 1 .. n
  PROVE  Cardinality(Started(k)) = n
<1>1. n \in Int /\ 1 \in Int
  BY SizesAssumption
<1>2. Cardinality(1 .. n) = IF 1 > n THEN 0 ELSE n - 1 + 1
  BY <1>1, FS_Interval
<1> QED BY <1>1, <1>2, SizesAssumption

-----------------------------------------------------------------------------
(* The steps of the threads. *)

LEMMA StartInvInit == BootInit => StartInv
<1> SUFFICES ASSUME BootInit PROVE StartInv
  OBVIOUS
<1> USE PoolsAreNumbered, MainIsNoWorker, SizesAssumption
<1>1. TypeOK
  BY DEF BootInit, BeforeMain, TypeOK, Threads, MainPlaces, WorkerPlaces
<1>2. Making /\ SetByMain
  BY DEF BootInit, BeforeMain, Making, SetByMain, Threads
<1>3. InOrder
  <2>1. ASSUME NEW k \in Pools PROVE Started(k) = 1 .. 0
    BY DEF BootInit, BeforeMain, Started, Threads, Workers
  <2>2. 0 \in 0 .. MaxWorkers
    OBVIOUS
  <2> QED BY <2>1, <2>2 DEF InOrder
<1>4. Loading
  BY DEF BootInit, BeforeMain, Loading, Threads
<1> QED BY <1>1, <1>2, <1>3, <1>4 DEF StartInv

\* A step of a thread that runs leaves the numbers of the workers in order.
LEMMA OrderStays ==
  ASSUME InOrder, TypeOK, NEW t \in Threads, NEW to, to # "none", pc[t] # "none",
         pc' = [pc EXCEPT ![t] = to]
  PROVE  InOrder'
<1>1. ASSUME NEW k \in Pools PROVE Started(k)' = Started(k)
  BY DEF TypeOK, Started, Threads, Workers
<1> QED BY <1>1 DEF InOrder

LEMMA MainSteps == StartInv /\ MainStep => StartInv'
<1> SUFFICES ASSUME StartInv, MainStep PROVE StartInv'
  OBVIOUS
<1> USE PoolsAreNumbered, MainIsNoWorker, SizesAssumption DEF StartInv
<1>m. Main \in Threads
  BY DEF Threads
<1>1. CASE BeginPool
  <2>1. CASE pc' = [pc EXCEPT ![Main] = "instance"]
    <3>1. InOrder'
      BY <1>1, <2>1, <1>m, OrderStays DEF BeginPool
    <3>2. TypeOK' /\ Making' /\ SetByMain' /\ Loading'
      BY <1>1, <2>1, <1>m DEF BeginPool, TypeOK, Making, SetByMain, Loading, Threads, MainPlaces, WorkerPlaces, Goto
    <3> QED BY <3>1, <3>2
  <2>2. CASE pool' = pool + 1 /\ UNCHANGED pc
    <3>1. pool' \in 1 .. Len(Interfaces) + 1
      BY <1>1, <2>2 DEF BeginPool
    <3>2. InOrder'
      BY <2>2 DEF InOrder, Started
    <3>3. TypeOK' /\ Making' /\ SetByMain' /\ Loading'
      BY <1>1, <2>2, <3>1 DEF BeginPool, TypeOK, Making, SetByMain, Loading
    <3> QED BY <3>2, <3>3
  <2> QED BY <1>1, <2>1, <2>2 DEF BeginPool, Goto
<1>2. CASE Spawn
  <2> DEFINE next == Cardinality(Started(pool)) + 1
             w == <<pool, next>>
  <2>1. pool \in Pools /\ pc[Main] = "spawn" /\ pc' = [pc EXCEPT ![w] = "instance"]
    BY <1>2 DEF Spawn, Making, Goto
  <2>2. PICK n \in 0 .. MaxWorkers : Started(pool) = 1 .. n
    BY <2>1 DEF InOrder
  <2>3. next = n + 1
    BY <2>1, <2>2, CountInOrder
  <2>4. w # Main
    BY <2>1 DEF Main
  <2>5. CASE w \in Workers
    <3>1. next \in 1 .. MaxWorkers
      BY <2>5 DEF Workers
    <3>2. pc[w] = "none"
      BY <2>2, <2>3, <3>1 DEF Started
    <3>3. InOrder'
      <4>0. ASSUME NEW i \in 1 .. MaxWorkers
            PROVE  pc'[<<pool, i>>] # "none" <=> i \in 1 .. n + 1
        <5>1. i \in 1 .. n <=> pc[<<pool, i>>] # "none"
          BY <2>2 DEF Started
        <5>2. <<pool, i>> \in Threads
          BY <2>1 DEF Threads, Workers
        <5>3. pc'[<<pool, i>>] = IF i = next THEN "instance" ELSE pc[<<pool, i>>]
          BY <2>1, <5>2 DEF TypeOK
        <5> QED BY <5>1, <5>3, <2>3
      <4>1. Started(pool)' = 1 .. next
        <5>1. pool' = pool
          BY <1>2 DEF Spawn
        <5>2. Started(pool)' = {i \in 1 .. MaxWorkers : pc'[<<pool, i>>] # "none"}
          BY <5>1 DEF Started
        <5>3. n + 1 <= MaxWorkers
          BY <2>3, <3>1
        <5> QED BY <4>0, <5>2, <5>3, <2>3
      <4>2. ASSUME NEW k \in Pools, k # pool PROVE Started(k)' = Started(k)
        BY <2>1, <4>2 DEF Started, TypeOK, Threads, Workers
      <4> QED BY <4>1, <4>2, <3>1, <1>2 DEF InOrder, Spawn
    <3>4. TypeOK' /\ Making' /\ SetByMain' /\ Loading'
      BY <1>2, <2>1, <2>4, <2>5, <3>2 DEF Spawn, TypeOK, Making, SetByMain, Loading, Threads, MainPlaces, WorkerPlaces
    <3> QED BY <3>3, <3>4
  <2>6. CASE w \notin Workers
    <3>1. pc' = pc
      BY <2>1, <2>4, <2>6 DEF TypeOK, Threads
    <3> QED BY <1>2, <3>1 DEF Spawn, TypeOK, Making, SetByMain, InOrder, Started, Loading
  <2> QED BY <2>5, <2>6
<1>3. CASE SpawnFails \/ AllSpawned
  <2>1. InOrder'
    BY <1>3, <1>m, OrderStays DEF SpawnFails, AllSpawned, Goto
  <2>2. TypeOK' /\ Making' /\ SetByMain' /\ Loading'
    BY <1>3, <1>m DEF SpawnFails, AllSpawned, TypeOK, Making, SetByMain, Loading, Threads, MainPlaces, WorkerPlaces, Goto
  <2> QED BY <2>1, <2>2
<1>4. CASE RegisterDq
  <2>1. InOrder'
    BY <1>4, <1>m, OrderStays DEF RegisterDq, Goto
  <2>2. pool' \in 1 .. Len(Interfaces) + 1
    BY <1>4 DEF RegisterDq, Making
  <2>3. TypeOK' /\ Making' /\ SetByMain' /\ Loading'
    BY <1>4, <1>m, <2>2 DEF RegisterDq, TypeOK, Making, SetByMain, Loading, Threads, MainPlaces, WorkerPlaces, Goto
  <2> QED BY <2>1, <2>3
<1>5. CASE Start \/ JoinAndShutdown
  <2>1. InOrder'
    BY <1>5, <1>m, OrderStays DEF Start, JoinAndShutdown, Goto
  <2>2. TypeOK' /\ Making' /\ SetByMain' /\ Loading'
    BY <1>5, <1>m DEF Start, JoinAndShutdown, TypeOK, Making, SetByMain, Loading, Threads, MainPlaces, WorkerPlaces, Goto
  <2> QED BY <2>1, <2>2
<1> QED BY <1>1, <1>2, <1>3, <1>4, <1>5 DEF MainStep

LEMMA ThreadSteps == ASSUME NEW t \in Threads PROVE StartInv /\ ThreadStep(t) => StartInv'
<1> SUFFICES ASSUME StartInv, ThreadStep(t) PROVE StartInv'
  OBVIOUS
<1> USE PoolsAreNumbered, MainIsNoWorker, SizesAssumption DEF StartInv
<1>m. Main \in Threads
  BY DEF Threads
<1>1. CASE InstanceTests(t)
  <2> DEFINE to == IF factory = 0 THEN "reset" ELSE AfterInstance(t)
  <2>1. pc' = [pc EXCEPT ![t] = to] /\ pc[t] = "instance"
    BY <1>1 DEF InstanceTests, Goto
  <2>2. to \in {"reset", "spawn", "create"} /\ (to = "spawn" => t = Main) /\ (to = "create" => t # Main)
    BY DEF AfterInstance
  <2>3. InOrder'
    BY <2>1, <2>2, OrderStays
  <2>4. TypeOK' /\ Making' /\ Loading'
    BY <1>1, <2>1, <2>2, <1>m DEF InstanceTests, TypeOK, Making, Loading, Threads, MainPlaces, WorkerPlaces
  <2>5. SetByMain'
    BY <1>1, <2>1, <2>2, <1>m DEF InstanceTests, TypeOK, SetByMain, Threads, MainPlaces, WorkerPlaces, AfterInstance
  <2> QED BY <2>3, <2>4, <2>5
<1>2. CASE InstanceResets(t)
  <2>1. pc' = [pc EXCEPT ![t] = AfterInstance(t)] /\ pc[t] = "reset"
    BY <1>2 DEF InstanceResets, Goto
  <2>2. factory = 0 /\ t = Main /\ factory' = 1
    BY <1>2, <2>1 DEF InstanceResets, SetByMain, Threads
  <2>3. InOrder'
    BY <2>1, <2>2, OrderStays DEF AfterInstance
  <2>4. TypeOK' /\ Making' /\ Loading' /\ SetByMain'
    BY <1>2, <2>1, <2>2, <1>m DEF InstanceResets, AfterInstance, TypeOK, Making, Loading, SetByMain, Threads, MainPlaces, WorkerPlaces
  <2> QED BY <2>3, <2>4
<1>3. CASE Create(t)
  <2>1. pc' = [pc EXCEPT ![t] = "creating"] /\ pc[t] = "create" /\ t \in Workers
    BY <1>3 DEF Create, Goto, TypeOK, Threads, MainPlaces
  <2>2. InOrder'
    BY <2>1, OrderStays
  <2>3. TypeOK' /\ Making' /\ Loading' /\ SetByMain'
    BY <1>3, <2>1, <1>m DEF Create, TypeOK, Making, Loading, SetByMain, Threads, MainPlaces, WorkerPlaces
  <2> QED BY <2>2, <2>3
<1>4. CASE Created(t)
  <2>1. pc' = [pc EXCEPT ![t] = "serving"] /\ pc[t] = "creating" /\ t \in Workers
    BY <1>4 DEF Created, Goto, TypeOK, Threads, MainPlaces
  <2>2. InOrder'
    BY <2>1, OrderStays
  <2>3. TypeOK' /\ Making' /\ Loading' /\ SetByMain'
    BY <1>4, <2>1, <1>m DEF Created, TypeOK, Making, Loading, SetByMain, Threads, MainPlaces, WorkerPlaces
  <2> QED BY <2>2, <2>3
<1>5. CASE CreateThrows(t)
  <2>1. pc' = [pc EXCEPT ![Main] = "dead"] /\ t \in Workers /\ pc[Main] \in MainPlaces
    BY <1>5 DEF CreateThrows, Goto, TypeOK, Threads, MainPlaces
  <2>2. InOrder'
    BY <2>1, <1>m, OrderStays DEF MainPlaces
  <2>3. TypeOK' /\ Making' /\ Loading' /\ SetByMain'
    BY <1>5, <2>1, <1>m DEF CreateThrows, TypeOK, Making, Loading, SetByMain, Threads, MainPlaces, WorkerPlaces
  <2> QED BY <2>2, <2>3
<1> QED BY <1>1, <1>2, <1>3, <1>4, <1>5 DEF ThreadStep

LEMMA StartInvStays == UNCHANGED <<pc, pool, mtx, factory>> /\ StartInv => StartInv'
BY DEF StartInv, TypeOK, Making, SetByMain, InOrder, Started, Loading

\* No place of a process that has not begun is one a thread is started at.
LEMMA StartInvNext == StartInv /\ [BootNext]_bootVars => StartInv'
<1> SUFFICES ASSUME StartInv, [BootNext]_bootVars PROVE StartInv'
  OBVIOUS
<1>1. CASE UNCHANGED bootVars \/ Configure \/ InitEasylogging \/ Exit \/ LicenseMonitor
  BY <1>1, StartInvStays DEF bootVars, vars, Configure, InitEasylogging, Exit, LicenseMonitor
<1>2. CASE MakeServer
  <2> USE <1>2, PoolsAreNumbered, MainIsNoWorker DEF StartInv, MakeServer
  <2>1. Main \in Threads /\ pc' = [pc EXCEPT ![Main] = "pool"] /\ pc[Main] = "config"
    BY DEF Threads
  <2>2. InOrder'
    BY <2>1, OrderStays
  <2>3. TypeOK' /\ Making' /\ SetByMain' /\ Loading'
    BY <2>1 DEF TypeOK, Making, SetByMain, Loading, Threads, MainPlaces, WorkerPlaces
  <2> QED BY <2>2, <2>3
<1>3. CASE Serve
  <2>1. CASE ZmqStep
    BY <2>1, StartInvStays DEF ZmqStep, ZmqConnect, ZmqBind
  <2> QED BY <1>3, <2>1, MainSteps, ThreadSteps DEF Serve, Next
<1>4. CASE Restart
  <2> USE PoolsAreNumbered, MainIsNoWorker, SizesAssumption
  <2>1. pc' = BeforeMain /\ pool' = 1 /\ factory' = 0 /\ mtx' = {}
    BY <1>4 DEF Restart
  <2>2. TypeOK' /\ Making' /\ SetByMain' /\ Loading'
    BY <2>1 DEF BeforeMain, TypeOK, Making, SetByMain, Loading, Threads, MainPlaces, WorkerPlaces
  <2>3. ASSUME NEW k \in Pools PROVE Started(k)' = 1 .. 0
    BY <2>1 DEF BeforeMain, Started, Threads, Workers
  <2>4. 0 \in 0 .. MaxWorkers
    OBVIOUS
  <2>5. InOrder'
    BY <2>3, <2>4 DEF InOrder
  <2> QED BY <2>2, <2>5 DEF StartInv
<1> QED BY <1>1, <1>2, <1>3, <1>4 DEF BootNext

LEMMA StartInvImplies == StartInv => StartsSafely
<1> SUFFICES ASSUME StartInv PROVE StartsSafely
  OBVIOUS
<1>1. FactorySetAlone
  <2>1. ASSUME NEW t \in Threads, NEW u \in Threads, pc[t] = "reset", pc[u] \in {"instance", "reset"}
        PROVE  t = u
    BY <2>1 DEF StartInv, SetByMain, Threads
  <2>2. factory <= 1
    BY DEF StartInv, SetByMain
  <2> QED BY <2>1, <2>2 DEF FactorySetAlone
<1>2. OneLoadAtATime
  <2>1. Cardinality({}) = 0 /\ \A w \in Workers : Cardinality({w}) = 1
    BY FS_EmptySet, FS_Singleton
  <2>2. Cardinality(mtx) <= 1
    BY <2>1 DEF StartInv, Loading
  <2> QED BY <2>2 DEF OneLoadAtATime, StartInv, Loading
<1> QED BY <1>1, <1>2 DEF StartsSafely

\* However the process was started and however often, HandlerFactory's
\* singleton is set once, by the main thread before any worker can look at it,
\* and the mutex of the factory is held by the one worker that loads a model.
THEOREM StartUpIsSafe == BootSpec => []StartsSafely
<1>1. BootInit => StartInv
  BY StartInvInit
<1>2. StartInv /\ [BootNext]_bootVars => StartInv'
  BY StartInvNext
<1>3. StartInv => StartsSafely
  BY StartInvImplies
<1> QED BY <1>1, <1>2, <1>3, PTL DEF BootSpec
-----------------------------------------------------------------------------
(* What ConfigParams makes of the file. *)

Sizes == {"ship", "sar", "yolo"}
Params == [ship : Int, sar : Int, yolo : Int, switches : [LogKeys -> BOOLEAN], license : Int]

\* The size of a pool that the file asks for.
Asked(s) == IF Asks THEN C!Clamped(C!AsInt(file[s])) ELSE 1

\* The file a process without one writes: it has read nothing before.
Written ==
  [is |-> "object", http |-> "complete", bucket |-> "complete", zmq |-> "complete",
   auth |-> C!Number(0), caffe |-> "complete",
   ship |-> C!Number(1), sar |-> C!Number(1), yolo |-> C!Number(1),
   log |-> [k \in LogKeys |-> IF k = "info" THEN "true" ELSE "false"]]

ConfigInv ==
  /\ params \in Params /\ cores \in Nat
  /\ \/ wrote = "no" /\ file \in Files
     \/ wrote = "partly" /\ file.is = "broken" /\ section \in {"exists", "done", "dead"}
     \/ wrote = "all" /\ file = Written
  /\ section = "exists" => params = C!Defaults
  /\ section \in {"http", "bucket", "caffe", "log", "zmq", "auth"} => file.is = "object"
  /\ section \in {"http", "bucket", "caffe"} => \A s \in Sizes : params[s] = 1
  /\ wrote = "no" /\ file.is # "none" /\ section \in {"log", "zmq", "auth", "done"} =>
       \A s \in Sizes : params[s] = Asked(s)
  /\ wrote # "no" /\ cores > 0 => \A s \in Sizes : params[s] = 1
  /\ wrote # "no" => params.switches = C!Defaults.switches

LEMMA ConfigInvInit == C!Init => ConfigInv
BY FilesAssumption DEF C!Init, ConfigInv, C!Defaults, Params, Sizes

LEMMA FieldsAreNumbers ==
  ASSUME ConfigInv, file.is = "object"
  PROVE  \A s \in {"ship", "sar", "yolo", "auth"} : file[s].n \in Int
<1>1. Written.is = "object" /\ \A s \in {"ship", "sar", "yolo", "auth"} : Written[s].n \in Int
  BY DEF Written, C!Number
<1> QED BY <1>1, FilesAssumption DEF ConfigInv

LEMMA ConfigSteps == ConfigInv /\ C!Next => ConfigInv'
<1> SUFFICES ASSUME ConfigInv, C!Next PROVE ConfigInv'
  OBVIOUS
<1>1. CASE C!GenerateDefaultConfig
  <2>1. params = C!Defaults
    BY <1>1 DEF C!GenerateDefaultConfig, ConfigInv
  <2>2. C!Generated = Written
    BY <2>1 DEF C!Generated, Written, C!Defaults
  <2>3. Written.is = "object" /\ file.is = "none"
    BY <1>1 DEF Written, C!GenerateDefaultConfig
  <2>4. wrote = "no"
    BY <2>3 DEF ConfigInv
  <2>5. CASE UNCHANGED <<file, wrote>> /\ section' = "done"
    BY <1>1, <2>1, <2>3, <2>4, <2>5 DEF C!GenerateDefaultConfig, ConfigInv
  <2>6. ASSUME wrote' \in {"partly", "all"}, section' \in {"done", "dead"},
               \/ wrote' = "all" /\ file' = Written
               \/ wrote' = "partly" /\ file'.is = "broken"
        PROVE  ConfigInv'
    <3>1. params' = C!Defaults /\ cores' = cores
      BY <1>1, <2>1 DEF C!GenerateDefaultConfig
    <3>2. \A s \in Sizes : C!Defaults[s] = 1
      BY DEF C!Defaults, Sizes
    <3> HIDE DEF C!Defaults
    <3> QED BY <2>1, <2>6, <3>1, <3>2 DEF ConfigInv
  <2>7. CASE file' = Written /\ wrote' = "all" /\ section' = "done"
    BY <2>6, <2>7
  <2>8. CASE file' = C!Truncated /\ wrote' = "partly" /\ section' \in {"done", "dead"}
    <3>1. file'.is = "broken"
      BY <2>8 DEF C!Truncated
    <3> QED BY <2>6, <2>8, <3>1
  <2> QED BY <1>1, <2>2, <2>5, <2>7, <2>8 DEF C!GenerateDefaultConfig
<1>2. CASE C!OpenConfig
  <2>1. file' = file /\ cores' = cores /\ params' = params /\ wrote' = wrote
    BY <1>2 DEF C!OpenConfig
  <2>2. section = "exists" /\ params = C!Defaults /\ \A s \in Sizes : params[s] = 1
    BY <1>2 DEF C!OpenConfig, ConfigInv, C!Defaults, Sizes
  <2>3. section' \in {"done", "dead", "http"} /\ (section' = "done" => file.is = "closed")
    BY <1>2 DEF C!OpenConfig
  <2>4. section' = "done" => ~Asks /\ ~Asks'
    BY <2>1, <2>3 DEF Asks
  <2>5. section' = "done" => \A s \in Sizes : params'[s] = Asked(s)'
    BY <2>1, <2>2, <2>4 DEF Asked
  <2>6. section' = "http" => file.is = "object"
    <3>1. file.is \in {"object", "broken"} \/ file \in Files
      BY DEF ConfigInv, Written
    <3> QED BY <1>2, <3>1, FilesAssumption DEF C!OpenConfig
  <2> QED BY <2>1, <2>2, <2>3, <2>5, <2>6 DEF ConfigInv
<1>3. CASE C!LoadHttp \/ C!LoadBucket
  <2>1. file' = file /\ cores' = cores /\ params' = params /\ wrote' = wrote
    BY <1>3 DEF C!LoadHttp, C!LoadBucket, C!LoadPlain
  <2>2. section \in {"http", "bucket"} /\ section' \in {"bucket", "caffe", "dead"}
    BY <1>3 DEF C!LoadHttp, C!LoadBucket, C!LoadPlain, C!Reported
  <2> QED BY <2>1, <2>2 DEF ConfigInv
<1>4. CASE C!LoadZmq
  <2>1. file' = file /\ cores' = cores /\ params' = params /\ wrote' = wrote
    BY <1>4 DEF C!LoadZmq, C!LoadPlain
  <2>2. section = "zmq" /\ section' \in {"auth", "dead"}
    BY <1>4 DEF C!LoadZmq, C!LoadPlain, C!Reported
  <2>3. \A s \in Sizes : Asked(s)' = Asked(s)
    BY <2>1 DEF Asked, Asks, C!Clamped
  <2> QED BY <2>1, <2>2, <2>3 DEF ConfigInv
<1>5. CASE C!LoadCaffe
  <2>1. file' = file /\ cores' = cores /\ wrote' = wrote /\ section = "caffe"
    BY <1>5 DEF C!LoadCaffe
  <2>2. \A s \in Sizes : Asked(s)' = Asked(s)
    BY <2>1 DEF Asked, Asks, C!Clamped
  <2>3. \A s \in Sizes : params[s] = 1
    BY <2>1 DEF ConfigInv
  <2>4. CASE section' = "dead" /\ params' = params
    BY <2>1, <2>3, <2>4 DEF ConfigInv
  <2>5. CASE section' = "log" /\ params' = params /\ (file.caffe = "missing" \/ ~C!IsUInt(file.ship))
    <3>1. \A s \in Sizes : Asked(s) = 1
      BY <2>5 DEF Asked, Asks
    <3> QED BY <2>1, <2>2, <2>3, <2>5, <3>1 DEF ConfigInv
  <2>6. CASE file.caffe # "missing" /\ C!IsUInt(file.ship) /\ C!LoadPools
    <3>1. CASE section' = "dead" /\ params' = params
      BY <2>4, <3>1
    <3>2. CASE /\ section' = "log"
               /\ params' = [params EXCEPT !.ship = C!Clamped(C!AsInt(file.ship)),
                                            !.sar = C!Clamped(C!AsInt(file.sar)),
                                            !.yolo = C!Clamped(C!AsInt(file.yolo))]
      <4>1. file.is = "object"
        BY <2>1 DEF ConfigInv
      <4>2. \A s \in Sizes : C!Clamped(C!AsInt(file[s])) \in Int
        BY <4>1, FieldsAreNumbers DEF C!Clamped, C!AsInt, Sizes, ConfigInv
      <4> DEFINE n(s) == C!Clamped(C!AsInt(file[s]))
      <4>3. params' = [params EXCEPT !.ship = n("ship"), !.sar = n("sar"), !.yolo = n("yolo")]
        BY <3>2
      <4>4. Asks
        BY <2>6, <4>1 DEF Asks
      <4>5. \A s \in Sizes : Asked(s) = n(s)
        BY <4>4 DEF Asked
      <4>6. wrote # "no" /\ cores > 0 => \A s \in Sizes : n(s) = 1
        <5>1. wrote # "no" => file = Written
          BY <2>1 DEF ConfigInv
        <5> QED BY <5>1 DEF ConfigInv, Written, C!Number, C!Clamped, C!AsInt, Sizes
      <4> HIDE DEF n
      <4>7. params \in Params /\ \A s \in Sizes : n(s) \in Int
        BY <4>2 DEF ConfigInv, n
      <4>8. /\ params' \in Params /\ params'.switches = params.switches
            /\ \A s \in Sizes : params'[s] = n(s)
        BY <4>3, <4>7 DEF Params, Sizes
      <4> QED BY <2>1, <2>2, <3>2, <4>5, <4>6, <4>8 DEF ConfigInv
    <3> QED BY <2>6, <3>1, <3>2 DEF C!LoadPools
  <2> QED BY <1>5, <2>4, <2>5, <2>6 DEF C!LoadCaffe, C!Reported
<1>6. CASE C!LoadLog
  <2>1. file' = file /\ cores' = cores /\ wrote' = wrote /\ section = "log" /\ section' \in {"zmq", "dead"}
    BY <1>6 DEF C!LoadLog, C!Reported
  <2>2. \A s \in Sizes : Asked(s)' = Asked(s)
    BY <2>1 DEF Asked, Asks, C!Clamped
  <2> DEFINE on == [k \in LogKeys |-> IF file.log[k] \in {"true", "false"} THEN file.log[k] = "true"
                                      ELSE params.switches[k]]
  <2>3. params' = [params EXCEPT !.switches = on] /\ params \in Params
    BY <1>6 DEF C!LoadLog, ConfigInv, Params
  <2>4. on \in [LogKeys -> BOOLEAN]
    BY <2>3 DEF Params
  <2>5. wrote # "no" => on = C!Defaults.switches
    <3>1. wrote # "no" => file = Written /\ params.switches = C!Defaults.switches
      BY <2>1 DEF ConfigInv
    <3> QED BY <3>1 DEF Written, C!Defaults
  <2> HIDE DEF on
  <2>6. params' \in Params /\ (\A s \in Sizes : params'[s] = params[s]) /\ params'.switches = on
    BY <2>3, <2>4 DEF Params, Sizes
  <2> QED BY <2>1, <2>2, <2>5, <2>6 DEF ConfigInv
<1>7. CASE C!LoadAuth
  <2>1. file' = file /\ cores' = cores /\ wrote' = wrote /\ section = "auth" /\ section' \in {"done", "dead"}
    BY <1>7 DEF C!LoadAuth, C!Reported
  <2>2. \A s \in Sizes : Asked(s)' = Asked(s)
    BY <2>1 DEF Asked, Asks, C!Clamped
  <2>3. params' = params \/ params' = [params EXCEPT !.license = file.auth.n + 1]
    BY <1>7 DEF C!LoadAuth, C!WithPath
  <2>4. CASE params' = params
    BY <2>1, <2>2, <2>4 DEF ConfigInv
  <2>5. CASE params' = [params EXCEPT !.license = file.auth.n + 1]
    <3>1. file.auth.n \in Int
      BY <2>1, FieldsAreNumbers DEF ConfigInv
    <3>2. params' \in Params /\ params'.switches = params.switches /\ \A s \in Sizes : params'[s] = params[s]
      BY <2>5, <3>1 DEF ConfigInv, Params, Sizes
    <3> QED BY <2>1, <2>2, <3>2 DEF ConfigInv
  <2> QED BY <2>3, <2>4, <2>5
<1> QED BY <1>1, <1>2, <1>3, <1>4, <1>5, <1>6, <1>7 DEF C!Next
-----------------------------------------------------------------------------
(* From the parameters to the pools. *)

Size(k) == params[PoolOf[Interfaces[k]]]
Built(k) == k < pool /\ size[k] > 0

\* Before main makes the server there is nothing; afterwards the parameters
\* stay what they are.
Unmade ==
  pc[Main] = "config" =>
    /\ zmq = "none" /\ registered = {} /\ pool = 1 /\ failures = 0 /\ factory = 0
Made ==
  pc[Main] # "config" => section = "done" /\ size = [k \in Pools |-> Size(k)]

\* The pools up to the one at hand are registered, with all of their workers
\* unless a thread could not be created.
Registered == \A k \in Pools : k \in registered <=> Built(k)
AtHand == pc[Main] \in {"instance", "reset", "spawn", "register"} => size[pool] > 0
Complete ==
  /\ failures \in Nat
  /\ failures = 0 => \A k \in Pools :
       Built(k) \/ (k = pool /\ pc[Main] = "register") => Cardinality(Started(k)) = size[k]

\* Requests are read when all pools are made.
ReadsLast == zmq # "none" => pool = Len(Interfaces) + 1

ServeInv == StartInv /\ ConfigInv /\ Unmade /\ Made /\ Registered /\ AtHand /\ Complete /\ ReadsLast

LEMMA SizesAreAsked == ASSUME NEW k \in Pools PROVE PoolOf[Interfaces[k]] \in Sizes
BY PoolsAssumption DEF Pools, Sizes

LEMMA ServeInvInit == BootInit => ServeInv
<1> SUFFICES ASSUME BootInit PROVE ServeInv
  OBVIOUS
<1>1. StartInv /\ ConfigInv
  BY StartInvInit, ConfigInvInit DEF BootInit
<1>2. pc[Main] = "config" /\ zmq = "none" /\ registered = {} /\ pool = 1 /\ failures = 0 /\ factory = 0
  BY DEF BootInit, BeforeMain, Threads
<1>3. \A k \in Pools : ~Built(k)
  BY <1>2, PoolsAreNumbered DEF Built
<1> QED BY <1>1, <1>2, <1>3 DEF ServeInv, Unmade, Made, Registered, AtHand, Complete, ReadsLast

\* Only the main thread and a worker being started change who is there.
LEMMA WorkersStay ==
  ASSUME TypeOK, NEW t \in Threads, NEW to, to # "none", pc[t] # "none",
         pc' = [pc EXCEPT ![t] = to]
  PROVE  \A k \in Pools : Started(k)' = Started(k)
BY DEF TypeOK, Started, Threads, Workers

LEMMA ServeMainSteps == ServeInv /\ MainStep /\ UNCHANGED config => ServeInv'
<1> SUFFICES ASSUME ServeInv, MainStep, UNCHANGED config PROVE ServeInv'
  OBVIOUS
<1> USE PoolsAreNumbered, MainIsNoWorker, SizesAssumption
<1>m. Main \in Threads
  BY DEF Threads
<1>i. StartInv' /\ ConfigInv'
  <2>1. ConfigInv'
    BY DEF ServeInv, ConfigInv, config, Asked, Asks, C!Clamped
  <2> QED BY <2>1, MainSteps DEF ServeInv
<1>c. pc[Main] # "config" /\ pc'[Main] # "config"
  BY <1>m DEF MainStep, BeginPool, Spawn, SpawnFails, AllSpawned, RegisterDq, Start, JoinAndShutdown, Goto, ServeInv, StartInv, TypeOK, Main
<1>s. size' = size /\ Unmade' /\ Made'
  BY <1>c DEF MainStep, BeginPool, Spawn, SpawnFails, AllSpawned, RegisterDq, Start, JoinAndShutdown, ServeInv, Unmade, Made, Size, config
<1>r. ASSUME pool' = pool, registered' = registered, zmq' = zmq
      PROVE  Registered' /\ ReadsLast'
  BY <1>r, <1>s DEF ServeInv, Registered, ReadsLast, Built
<1>1. CASE BeginPool
  <2>1. CASE size[pool] > 0
    <3>1. pc' = [pc EXCEPT ![Main] = "instance"] /\ pool' = pool /\ registered' = registered /\ zmq' = zmq /\ failures' = failures
      BY <1>1, <2>1 DEF BeginPool, Goto
    <3>2. pc'[Main] = "instance" /\ pc[Main] = "pool"
      BY <1>1, <1>m, <3>1 DEF BeginPool, ServeInv, StartInv, TypeOK
    <3>3. \A k \in Pools : Started(k)' = Started(k)
      BY <3>1, <3>2, <1>m, WorkersStay DEF ServeInv, StartInv
    <3>4. AtHand' /\ Complete'
      BY <1>s, <2>1, <3>1, <3>2, <3>3 DEF AtHand, Complete, Built, ServeInv
    <3> QED BY <1>i, <1>s, <1>r, <3>1, <3>4 DEF ServeInv
  <2>2. CASE ~(size[pool] > 0)
    <3>1. pc' = pc /\ pool' = pool + 1 /\ pool \in Pools /\ registered' = registered /\ zmq' = zmq /\ failures' = failures
      BY <1>1, <2>2 DEF BeginPool
    <3>2. \A k \in Pools : Built(k)' <=> Built(k)
      <4>1. \A k \in Pools : k < pool + 1 <=> k < pool \/ k = pool
        BY <3>1
      <4> QED BY <1>s, <2>2, <3>1, <4>1 DEF Built
    <3>3. pc[Main] = "pool" /\ \A k \in Pools : Started(k)' = Started(k)
      BY <1>1, <3>1 DEF Started, BeginPool
    <3>4. Registered' /\ AtHand'
      BY <1>s, <3>1, <3>2, <3>3 DEF Registered, AtHand, ServeInv
    <3>5. Complete'
      BY <1>s, <3>1, <3>2, <3>3 DEF Complete, ServeInv
    <3>6. ReadsLast'
      BY <3>1 DEF ReadsLast, ServeInv
    <3> QED BY <1>i, <1>s, <3>4, <3>5, <3>6 DEF ServeInv
  <2> QED BY <2>1, <2>2
<1>2. CASE Spawn
  <2> DEFINE next == Cardinality(Started(pool)) + 1
             w == <<pool, next>>
  <2>1. /\ pc[Main] = "spawn" /\ pc' = [pc EXCEPT ![w] = "instance"] /\ pool \in Pools
        /\ pool' = pool /\ registered' = registered /\ zmq' = zmq /\ failures' = failures
    BY <1>2 DEF Spawn, Goto, ServeInv, StartInv, Making
  <2>2. w # Main
    BY <2>1 DEF Main
  <2>3. pc'[Main] = "spawn"
    BY <1>m, <2>1, <2>2 DEF ServeInv, StartInv, TypeOK
  <2>4. \A k \in Pools : k # pool => Started(k)' = Started(k)
    BY <2>1 DEF Started, ServeInv, StartInv, TypeOK, Threads, Workers
  <2>5. ~Built(pool) /\ \A k \in Pools : Built(k)' <=> Built(k)
    BY <1>s, <2>1 DEF Built
  <2>6. AtHand' /\ Complete'
    BY <1>s, <2>1, <2>3, <2>4, <2>5 DEF AtHand, Complete, ServeInv
  <2> QED BY <1>i, <1>s, <1>r, <2>1, <2>6 DEF ServeInv
<1>3. CASE SpawnFails
  <2>1. /\ pc[Main] = "spawn" /\ pc' = [pc EXCEPT ![Main] = "register"]
        /\ pool' = pool /\ registered' = registered /\ zmq' = zmq /\ failures' = failures + 1
    BY <1>3 DEF SpawnFails, Goto
  <2>2. AtHand'
    BY <1>s, <2>1 DEF AtHand, ServeInv
  <2>3. Complete'
    BY <2>1 DEF Complete, ServeInv
  <2> QED BY <1>i, <1>s, <1>r, <2>1, <2>2, <2>3 DEF ServeInv
<1>4. CASE AllSpawned
  <2>1. /\ pc[Main] = "spawn" /\ pc' = [pc EXCEPT ![Main] = "register"]
        /\ Cardinality(Started(pool)) = size[pool]
        /\ pool' = pool /\ registered' = registered /\ zmq' = zmq /\ failures' = failures
    BY <1>4 DEF AllSpawned, Goto
  <2>2. \A k \in Pools : Started(k)' = Started(k)
    BY <2>1, <1>m, WorkersStay DEF ServeInv, StartInv
  <2>3. \A k \in Pools : Built(k)' <=> Built(k)
    BY <1>s, <2>1 DEF Built
  <2>4. AtHand'
    BY <1>s, <2>1 DEF AtHand, ServeInv
  <2>5. Complete'
    BY <1>s, <2>1, <2>2, <2>3 DEF Complete, ServeInv
  <2> QED BY <1>i, <1>s, <1>r, <2>1, <2>4, <2>5 DEF ServeInv
<1>5. CASE RegisterDq
  <2>1. /\ pc[Main] = "register" /\ pc' = [pc EXCEPT ![Main] = "pool"] /\ pool \in Pools /\ size[pool] > 0
        /\ pool' = pool + 1 /\ registered' = registered \cup {pool} /\ zmq' = zmq /\ failures' = failures
    BY <1>5 DEF RegisterDq, Goto, ServeInv, StartInv, Making, AtHand
  <2>2. pc'[Main] = "pool"
    BY <2>1, <1>m DEF ServeInv, StartInv, TypeOK
  <2>3. \A k \in Pools : Started(k)' = Started(k)
    BY <2>1, <1>m, WorkersStay DEF ServeInv, StartInv
  <2>4. \A k \in Pools : Built(k)' <=> Built(k) \/ k = pool
    <3>1. \A k \in Pools : k < pool + 1 <=> k < pool \/ k = pool
      BY <2>1
    <3> QED BY <1>s, <2>1, <3>1 DEF Built
  <2>5. Registered' /\ AtHand'
    BY <2>1, <2>2, <2>4 DEF Registered, AtHand, ServeInv
  <2>6. Complete'
    BY <1>s, <2>1, <2>2, <2>3, <2>4 DEF Complete, ServeInv
  <2>7. ReadsLast'
    BY <2>1 DEF ReadsLast, ServeInv
  <2> QED BY <1>i, <1>s, <2>5, <2>6, <2>7 DEF ServeInv
<1>6. CASE Start \/ JoinAndShutdown
  <2>1. PICK to \in {"join", "dead"} : pc' = [pc EXCEPT ![Main] = to]
    BY <1>6 DEF Start, JoinAndShutdown, Goto
  <2>2. /\ pc[Main] \notin {"register", "none"} /\ pool' = pool /\ registered' = registered /\ failures' = failures
        /\ zmq' # "none" => zmq # "none" \/ pool \notin Pools
    BY <1>6 DEF Start, JoinAndShutdown
  <2>3. pc'[Main] = to
    BY <2>1, <1>m DEF ServeInv, StartInv, TypeOK
  <2>4. \A k \in Pools : Started(k)' = Started(k)
    BY <2>1, <2>2, <1>m, WorkersStay DEF ServeInv, StartInv
  <2>5. \A k \in Pools : Built(k)' <=> Built(k)
    BY <1>s, <2>2 DEF Built
  <2>6. Registered' /\ AtHand' /\ Complete'
    BY <1>s, <2>2, <2>3, <2>4, <2>5 DEF Registered, AtHand, Complete, ServeInv
  <2>7. ReadsLast'
    BY <2>2 DEF ReadsLast, ServeInv, StartInv, TypeOK
  <2> QED BY <1>i, <1>s, <2>6, <2>7 DEF ServeInv
<1> QED BY <1>1, <1>2, <1>3, <1>4, <1>5, <1>6 DEF MainStep

LEMMA ServeThreadSteps ==
  ASSUME NEW t \in Threads
  PROVE  ServeInv /\ ThreadStep(t) /\ UNCHANGED config => ServeInv'
<1> SUFFICES ASSUME ServeInv, ThreadStep(t), UNCHANGED config PROVE ServeInv'
  OBVIOUS
<1> USE PoolsAreNumbered, MainIsNoWorker
<1>m. Main \in Threads /\ TypeOK
  BY DEF Threads, ServeInv, StartInv
<1>i. StartInv' /\ ConfigInv'
  <2>1. ConfigInv'
    BY DEF ServeInv, ConfigInv, config, Asked, Asks, C!Clamped
  <2> QED BY <2>1, ThreadSteps DEF ServeInv
<1>c. pc[Main] # "config"
  <2> SUFFICES ASSUME pc[Main] = "config" PROVE FALSE
    OBVIOUS
  <2>1. factory = 0 /\ \A w \in Workers : pc[w] = "none"
    BY DEF ServeInv, Unmade, StartInv, SetByMain
  <2> QED BY <2>1 DEF ThreadStep, InstanceTests, InstanceResets, Create, Created, CreateThrows, Threads
<1>1. PICK u \in Threads, to \in {"reset", "spawn", "create", "creating", "serving", "dead"} :
        /\ pc' = [pc EXCEPT ![u] = to] /\ pc[u] # "none"
        /\ (to \in {"reset", "spawn"} => pc[u] \in {"instance", "reset"})
  <2>1. pc[Main] # "none"
    BY <1>m DEF TypeOK, MainPlaces
  <2>2. CASE InstanceTests(t) \/ InstanceResets(t)
    BY <2>2 DEF InstanceTests, InstanceResets, AfterInstance, Goto
  <2>3. CASE Create(t) \/ Created(t)
    BY <2>3 DEF Create, Created, Goto
  <2>4. CASE CreateThrows(t)
    BY <2>1, <2>4, <1>m DEF CreateThrows, Goto
  <2> QED BY <2>2, <2>3, <2>4 DEF ThreadStep
<1>2. size' = size /\ pool' = pool /\ registered' = registered /\ zmq' = zmq /\ failures' = failures
  BY DEF ThreadStep, InstanceTests, InstanceResets, Create, Created, CreateThrows
<1>3. \A k \in Pools : Started(k)' = Started(k)
  BY <1>1, <1>m, WorkersStay
<1>4. /\ pc'[Main] # "config"
      /\ pc'[Main] = "register" => pc[Main] = "register"
      /\ pc'[Main] \in {"instance", "reset", "spawn", "register"} =>
           pc[Main] \in {"instance", "reset", "spawn", "register"}
  BY <1>1, <1>c, <1>m DEF TypeOK
<1>5. Unmade' /\ Made'
  BY <1>c, <1>2, <1>4 DEF Unmade, Made, Size, config, ServeInv
<1>6. \A k \in Pools : Built(k)' <=> Built(k)
  BY <1>2 DEF Built
<1>7. Registered' /\ AtHand' /\ Complete' /\ ReadsLast'
  BY <1>2, <1>3, <1>4, <1>6 DEF Registered, AtHand, Complete, ReadsLast, ServeInv
<1> QED BY <1>i, <1>5, <1>7 DEF ServeInv

LEMMA ServeInvNext == ServeInv /\ [BootNext]_bootVars => ServeInv'
<1> SUFFICES ASSUME ServeInv, [BootNext]_bootVars PROVE ServeInv'
  OBVIOUS
<1> USE PoolsAreNumbered
<1>s. StartInv'
  BY StartInvNext DEF ServeInv
<1>1. CASE UNCHANGED <<vars, config>>
  <2>1. ConfigInv'
    BY <1>1 DEF ServeInv, ConfigInv, config, Asked, Asks, C!Clamped
  <2>2. \A k \in Pools : (Built(k)' <=> Built(k)) /\ Started(k)' = Started(k) /\ Size(k)' = Size(k)
    BY <1>1 DEF vars, config, Built, Started, Size
  <2> QED BY <1>s, <1>1, <2>1, <2>2
       DEF vars, config, ServeInv, Unmade, Made, Registered, AtHand, Complete, ReadsLast
<1>2. CASE Configure
  <2>1. ConfigInv'
    BY <1>2, ConfigSteps DEF Configure, ServeInv
  <2>2. pc[Main] = "config" /\ UNCHANGED vars
    BY <1>2 DEF Configure
  <2>3. \A k \in Pools : (Built(k)' <=> Built(k)) /\ Started(k)' = Started(k)
    BY <2>2 DEF vars, Built, Started
  <2> QED BY <1>s, <2>1, <2>2, <2>3
       DEF vars, ServeInv, Unmade, Made, Registered, AtHand, Complete, ReadsLast
<1>3. CASE MakeServer
  <2>1. Main \in Threads
    BY DEF Threads
  <2>2. /\ pc[Main] = "config" /\ pc' = [pc EXCEPT ![Main] = "pool"] /\ section = "done"
        /\ size' = [k \in Pools |-> Size(k)]
        /\ UNCHANGED <<pool, factory, mtx, registered, zmq, failures, config>>
    BY <1>3 DEF MakeServer, Size
  <2>3. pc'[Main] = "pool" /\ zmq' = "none" /\ registered' = {} /\ pool' = 1 /\ failures' = 0
    BY <2>1, <2>2 DEF ServeInv, StartInv, TypeOK, Unmade
  <2>4. \A k \in Pools : ~Built(k)' /\ Size(k)' = Size(k)
    BY <2>2, <2>3 DEF Built, Size, config
  <2>5. ConfigInv'
    BY <2>2 DEF ServeInv, ConfigInv, config, Asked, Asks, C!Clamped
  <2>6. Made'
    BY <2>2, <2>4 DEF Made, config
  <2> QED BY <1>s, <2>3, <2>4, <2>5, <2>6
       DEF ServeInv, Unmade, Registered, AtHand, Complete, ReadsLast
<1>4. CASE Serve
  <2>1. CASE ZmqStep
    <3>1. zmq # "none" /\ UNCHANGED <<size, pool, factory, mtx, pc, registered, failures, config>>
      BY <1>4, <2>1 DEF ZmqStep, ZmqConnect, ZmqBind, Serve
    <3>2. ConfigInv'
      BY <3>1 DEF ServeInv, ConfigInv, config, Asked, Asks, C!Clamped
    <3>3. \A k \in Pools : (Built(k)' <=> Built(k)) /\ Started(k)' = Started(k) /\ Size(k)' = Size(k)
      BY <3>1 DEF config, Built, Started, Size
    <3> QED BY <1>s, <3>1, <3>2, <3>3
         DEF config, ServeInv, Unmade, Made, Registered, AtHand, Complete, ReadsLast
  <2> QED BY <1>4, <2>1, ServeMainSteps, ServeThreadSteps DEF Serve, Next
<1>5. CASE Restart
  <2>1. /\ pc'[Main] = "config" /\ zmq' = "none" /\ registered' = {} /\ pool' = 1 /\ failures' = 0 /\ factory' = 0
        /\ params' = C!Defaults /\ section' = "exists" /\ UNCHANGED <<file, cores, wrote>>
    BY <1>5 DEF Restart, BeforeMain, Threads
  <2>2. C!Defaults \in Params /\ \A k \in Sizes : C!Defaults[k] = 1
    BY DEF C!Defaults, Params, Sizes
  <2>3. ConfigInv'
    BY <2>1, <2>2 DEF ServeInv, ConfigInv
  <2>4. \A k \in Pools : ~Built(k)'
    BY <2>1 DEF Built
  <2> QED BY <1>s, <2>1, <2>3, <2>4
       DEF ServeInv, Unmade, Made, Registered, AtHand, Complete, ReadsLast
<1> QED BY <1>1, <1>2, <1>3, <1>4, <1>5
     DEF BootNext, bootVars, InitEasylogging, Exit, LicenseMonitor

LEMMA ServeInvImplies == ServeInv => ServesWhatTheFileSays /\ ReloadsWhatItWrote
<1> SUFFICES ASSUME ServeInv PROVE ServesWhatTheFileSays /\ ReloadsWhatItWrote
  OBVIOUS
<1>1. ASSUME zmq # "none", file.is # "none", wrote = "no", NEW k \in Pools
      PROVE  LET asked == C!AsInt(file[PoolOf[Interfaces[k]]])
                 n == IF ~Asks THEN 1 ELSE IF asked > cores THEN cores ELSE asked IN
             (k \in registered <=> n > 0) /\ (failures = 0 /\ n > 0 => Cardinality(Started(k)) = n)
  <2>1. section = "done" /\ size[k] = Size(k) /\ k < pool
    BY <1>1, PoolsAreNumbered DEF ServeInv, Unmade, Made, ReadsLast
  <2>2. Size(k) = Asked(PoolOf[Interfaces[k]])
    BY <1>1, <2>1, SizesAreAsked DEF ServeInv, ConfigInv, Size
  <2> QED BY <2>1, <2>2 DEF ServeInv, Registered, Complete, Built, Asked, C!Clamped
<1>2. ASSUME wrote # "no", section = "done", cores > 0
      PROVE  [params EXCEPT !.license = 0] = [C!Defaults EXCEPT !.license = 0]
  BY <1>2 DEF ServeInv, ConfigInv, Params, Sizes, C!Defaults
<1>3. wrote = "partly" => section \in {"exists", "done", "dead"}
  BY DEF ServeInv, ConfigInv
<1> QED BY <1>1, <1>2, <1>3 DEF ServesWhatTheFileSays, ReloadsWhatItWrote

\* Whatever the configuration file, the processors and the threads that cannot
\* be created: no request is read before every interface the file gives threads
\* to is registered with all of them, and no other is.
THEOREM ServesTheFile == BootSpec => []ServesWhatTheFileSays
<1>1. BootInit => ServeInv
  BY ServeInvInit
<1>2. ServeInv /\ [BootNext]_bootVars => ServeInv'
  BY ServeInvNext
<1>3. ServeInv => ServesWhatTheFileSays
  BY ServeInvImplies
<1> QED BY <1>1, <1>2, <1>3, PTL DEF BootSpec

\* A process that starts on the file an earlier one wrote has the same
\* parameters, except for the path of the license, and one that starts on a
\* part of it loads nothing.
THEOREM DefaultsComeBack == BootSpec => []ReloadsWhatItWrote
<1>1. BootInit => ServeInv
  BY ServeInvInit
<1>2. ServeInv /\ [BootNext]_bootVars => ServeInv'
  BY ServeInvNext
<1>3. ServeInv => ReloadsWhatItWrote
  BY ServeInvImplies
<1> QED BY <1>1, <1>2, <1>3, PTL DEF BootSpec
-----------------------------------------------------------------------------
(* What the logger makes of a configuration: lists are merged by two loops,  *)
(* whose result is found by induction over the entries that have been set.   *)

LEMMA SetInduction ==
  ASSUME NEW T \in SUBSET Nat, 0 \in T, \A n \in T : n + 1 \in T
  PROVE  T = Nat
<1> DEFINE R == OpToRel(<, Nat)
           U == Nat \ T
<1> SUFFICES ASSUME U # {} PROVE FALSE
  OBVIOUS
<1>1. IsWellFoundedOn(R, Nat)
  BY NatLessThanWellFounded
<1> HIDE DEF R
<1>2. PICK x \in U : \A y \in U : ~ (<<y, x>> \in R)
  BY <1>1, WFMin
<1>3. \A y \in U : ~(y < x)
  BY <1>2 DEF R, OpToRel
<1>4. x \in Nat /\ x # 0
  OBVIOUS
<1>5. x - 1 \in T
  BY <1>3, <1>4
<1>6. x = (x - 1) + 1
  BY <1>4
<1> QED BY <1>5, <1>6

SetAllRun(list, base, set) ==
  /\ G!SetAll(list, base) = set[Len(base)]
  /\ set[0] = list
  /\ \A i \in 1 .. Len(base) : set[i] = G!Set(set[i - 1], base[i])

LEMMA SetAllSteps == ASSUME NEW list, NEW base, Len(base) \in Nat PROVE \E set : SetAllRun(list, base, set)
<1> DEFINE n == Len(base)
           Steps(set, m) == set = [i \in 0 .. m |-> IF i = 0 THEN list ELSE G!Set(set[i - 1], base[i])]
           T == {m \in Nat : \E set : Steps(set, m)}
<1>1. 0 \in T
  <2>1. Steps([i \in 0 .. 0 |-> list], 0)
    OBVIOUS
  <2> QED BY <2>1
<1>2. ASSUME NEW m \in T PROVE m + 1 \in T
  <2>1. PICK set : Steps(set, m)
    BY <1>2
  <2> DEFINE new == [i \in 0 .. m + 1 |-> IF i = m + 1 THEN G!Set(set[m], base[m + 1]) ELSE set[i]]
  <2>2. ASSUME NEW i \in 0 .. m + 1
        PROVE  new[i] = IF i = 0 THEN list ELSE G!Set(new[i - 1], base[i])
    <3>1. CASE i = 0
      BY <2>1, <3>1
    <3>2. CASE i = m + 1
      BY <3>2
    <3>3. CASE i \in 1 .. m
      BY <2>1, <3>3
    <3> QED BY <3>1, <3>2, <3>3
  <2>3. Steps(new, m + 1)
    BY <2>2
  <2> HIDE DEF Steps
  <2> QED BY <2>3
<1>3. n \in T
  <2> HIDE DEF T
  <2> QED BY <1>1, <1>2, SetInduction DEF T
<1> DEFINE set == CHOOSE f : Steps(f, n)
<1>4. Steps(set, n)
  BY <1>3
<1>5. G!SetAll(list, base) = set[n]
  BY DEF G!SetAll
<1> HIDE DEF set
<1>6. set[0] = list
  BY <1>4
<1>7. \A i \in 1 .. n : set[i] = G!Set(set[i - 1], base[i])
  BY <1>4
<1> QED BY <1>5, <1>6, <1>7 DEF SetAllRun

GlobalRun(list, v, set) ==
  /\ G!UnsafeSetGlobally(list, v) = set[7]
  /\ set[0] = list
  /\ \A i \in 1 .. 7 : set[i] = G!UnsafeSet(set[i - 1], G!ValidLevels[i], v)

LEMMA GlobalSteps == ASSUME NEW list, NEW v PROVE \E set : GlobalRun(list, v, set)
<1> DEFINE Steps(set, m) == set = [i \in 0 .. m |-> IF i = 0 THEN list ELSE G!UnsafeSet(set[i - 1], G!ValidLevels[i], v)]
           T == {m \in Nat : \E set : Steps(set, m)}
<1>1. 0 \in T
  <2>1. Steps([i \in 0 .. 0 |-> list], 0)
    OBVIOUS
  <2> QED BY <2>1
<1>2. ASSUME NEW m \in T PROVE m + 1 \in T
  <2>1. PICK set : Steps(set, m)
    BY <1>2
  <2> DEFINE new == [i \in 0 .. m + 1 |-> IF i = m + 1 THEN G!UnsafeSet(set[m], G!ValidLevels[m + 1], v) ELSE set[i]]
  <2>2. ASSUME NEW i \in 0 .. m + 1
        PROVE  new[i] = IF i = 0 THEN list ELSE G!UnsafeSet(new[i - 1], G!ValidLevels[i], v)
    <3>1. CASE i = 0
      BY <2>1, <3>1
    <3>2. CASE i = m + 1
      BY <3>2
    <3>3. CASE i \in 1 .. m
      BY <2>1, <3>3
    <3> QED BY <3>1, <3>2, <3>3
  <2>3. Steps(new, m + 1)
    BY <2>2
  <2> HIDE DEF Steps
  <2> QED BY <2>3
<1>3. 7 \in T
  <2> HIDE DEF T
  <2> QED BY <1>1, <1>2, SetInduction DEF T
<1>4. Len(G!ValidLevels) = 7
  BY DEF G!ValidLevels
<1> DEFINE set == CHOOSE f : Steps(f, 7)
<1>5. Steps(set, 7)
  BY <1>3
<1>6. G!UnsafeSetGlobally(list, v) = set[7]
  BY <1>4 DEF G!UnsafeSetGlobally
<1> HIDE DEF set
<1>7. set[0] = list
  BY <1>5
<1>8. \A i \in 1 .. 7 : set[i] = G!UnsafeSet(set[i - 1], G!ValidLevels[i], v)
  BY <1>5
<1> QED BY <1>6, <1>7, <1>8 DEF GlobalRun

Keys == LogKeys \cup {"global"}
Values == {"true", "0", "1", "209715200", "100", "debug_log", "error_log", "info_log"}

\* Lists with one entry for a level.
Lists ==
  {list \in Seq([level : Keys, value : Values]) :
     \A i, j \in DOMAIN list : list[i].level = list[j].level => i = j}

Has(list, k, v) == \E i \in DOMAIN list : list[i].level = k /\ list[i].value = v

LEMMA UnsafeSetSets ==
  ASSUME NEW list \in Lists, NEW l \in Keys, NEW v \in Values
  PROVE  LET new == G!UnsafeSet(list, l, v) IN
         /\ new \in Lists /\ new # <<>> /\ new[1].level = IF list = <<>> THEN l ELSE list[1].level
         /\ Has(new, l, v)
         /\ \A k, u : k # l => (Has(new, k, u) <=> Has(list, k, u))
<1> DEFINE new == G!UnsafeSet(list, l, v)
<1>1. CASE \E e \in G!Range(list) : e.level = l
  <2>1. PICK j \in DOMAIN list : list[j].level = l
    BY <1>1 DEF G!Range
  <2>2. new = [i \in DOMAIN list |-> IF list[i].level = l THEN [level |-> l, value |-> v] ELSE list[i]]
    BY <1>1 DEF G!UnsafeSet, G!Entry
  <2> DEFINE E == [level : Keys, value : Values]
  <2>3. list \in Seq(E) /\ DOMAIN list = 1 .. Len(list) /\ Len(list) \in Nat
    BY DEF Lists
  <2>4. \A i \in 1 .. Len(list) : new[i] \in E /\ new[i].level = list[i].level
    <3>1. \A i \in 1 .. Len(list) : list[i] \in E
      <4> HIDE DEF E
      <4> QED BY <2>3
    <3>2. [level |-> l, value |-> v] \in E
      OBVIOUS
    <3> QED BY <2>2, <2>3, <3>1, <3>2
  <2>5. new \in Seq(E) /\ Len(new) = Len(list) /\ DOMAIN new = DOMAIN list
    <3>1. new = [i \in 1 .. Len(list) |-> new[i]]
      BY <2>2, <2>3
    <3> HIDE DEF new, E
    <3> QED BY <3>1, <2>3, <2>4
  <2>6. new \in Lists
    BY <2>3, <2>4, <2>5 DEF Lists
  <2>7. new # <<>> /\ list # <<>> /\ new[1].level = list[1].level
    BY <2>1, <2>3, <2>4, <2>5
  <2>8. new[j].level = l /\ new[j].value = v
    BY <2>1, <2>2
  <2>9. \A i \in DOMAIN list : list[i].level # l => new[i] = list[i]
    BY <2>2
  <2> HIDE DEF new
  <2>10. Has(new, l, v)
    BY <2>1, <2>5, <2>8 DEF Has
  <2>11. ASSUME NEW k, NEW u, k # l PROVE Has(new, k, u) <=> Has(list, k, u)
    BY <2>11, <2>3, <2>4, <2>5, <2>9 DEF Has
  <2> QED BY <2>6, <2>7, <2>10, <2>11 DEF new
<1>2. CASE ~ \E e \in G!Range(list) : e.level = l
  <2> DEFINE E == [level : Keys, value : Values]
             e == [level |-> l, value |-> v]
  <2>1. new = Append(list, e)
    BY <1>2 DEF G!UnsafeSet, G!Entry
  <2>2. list \in Seq(E) /\ DOMAIN list = 1 .. Len(list) /\ Len(list) \in Nat
    BY DEF Lists
  <2>3. e \in E /\ e.level = l /\ e.value = v
    OBVIOUS
  <2>4. \A i \in DOMAIN list : list[i].level # l
    BY <1>2 DEF G!Range
  <2> HIDE DEF new, E, e
  <2>5. /\ new \in Seq(E) /\ Len(new) = Len(list) + 1 /\ DOMAIN new = 1 .. Len(list) + 1
        /\ new[Len(list) + 1] = e /\ \A i \in 1 .. Len(list) : new[i] = list[i]
    BY <2>1, <2>2, <2>3
  <2>6. new \in Lists
    <3>1. ASSUME NEW i \in DOMAIN new, NEW j \in DOMAIN new, new[i].level = new[j].level PROVE i = j
      <4>1. CASE i \in DOMAIN list /\ j \in DOMAIN list
        BY <3>1, <4>1, <2>2, <2>5 DEF Lists
      <4>2. CASE i \notin DOMAIN list \/ j \notin DOMAIN list
        BY <3>1, <4>2, <2>2, <2>3, <2>4, <2>5
      <4> QED BY <4>1, <4>2
    <3> QED BY <3>1, <2>5 DEF Lists, E
  <2>7. new # <<>> /\ new[1].level = IF list = <<>> THEN l ELSE list[1].level
    BY <2>2, <2>3, <2>5
  <2>8. Has(new, l, v)
    BY <2>2, <2>3, <2>5 DEF Has
  <2>9. ASSUME NEW k, NEW u, k # l PROVE Has(new, k, u) <=> Has(list, k, u)
    BY <2>9, <2>2, <2>3, <2>5 DEF Has
  <2> QED BY <2>6, <2>7, <2>8, <2>9 DEF new
<1> QED BY <1>1, <1>2

LEMMA GloballySets ==
  ASSUME NEW list \in Lists, list # <<>>, NEW v \in Values
  PROVE  LET new == G!UnsafeSetGlobally(list, v) IN
         /\ new \in Lists /\ new # <<>> /\ new[1].level = list[1].level
         /\ \A k \in LogKeys : Has(new, k, v)
         /\ \A u : Has(new, "global", u) <=> Has(list, "global", u)
<1>1. PICK set : /\ G!UnsafeSetGlobally(list, v) = set[7]
                 /\ set[0] = list
                 /\ \A i \in 1 .. 7 : set[i] = G!UnsafeSet(set[i - 1], G!ValidLevels[i], v)
  <2>1. \E set : GlobalRun(list, v, set)
    BY GlobalSteps
  <2> QED BY <2>1 DEF GlobalRun
<1>2. /\ \A i \in 1 .. 7 : G!ValidLevels[i] \in LogKeys
      /\ \A k \in LogKeys : \E i \in 1 .. 7 : k = G!ValidLevels[i]
      /\ "global" \notin LogKeys
  BY DEF LogKeys, G!ValidLevels
<1> DEFINE J(m) == /\ set[m] \in Lists /\ set[m] # <<>> /\ set[m][1].level = list[1].level
                   /\ \A i \in 1 .. m : Has(set[m], G!ValidLevels[i], v)
                   /\ \A u : Has(set[m], "global", u) <=> Has(list, "global", u)
           T == {m \in Nat : m <= 7 => J(m)}
<1>3. 0 \in T
  BY <1>1
<1>4. ASSUME NEW m \in T PROVE m + 1 \in T
  <2> SUFFICES ASSUME m + 1 <= 7 PROVE J(m + 1)
    OBVIOUS
  <2> DEFINE l == G!ValidLevels[m + 1]
  <2>1. J(m) /\ m + 1 \in 1 .. 7 /\ (m + 1) - 1 = m
    BY <1>4
  <2>2. l \in LogKeys /\ l \in Keys /\ l # "global" /\ set[m + 1] = G!UnsafeSet(set[m], l, v)
    BY <1>1, <1>2, <2>1 DEF Keys
  <2> HIDE DEF l
  <2>3. /\ set[m + 1] \in Lists /\ set[m + 1] # <<>> /\ set[m + 1][1].level = set[m][1].level
        /\ Has(set[m + 1], l, v)
        /\ \A k, u : k # l => (Has(set[m + 1], k, u) <=> Has(set[m], k, u))
    BY <2>1, <2>2, UnsafeSetSets
  <2>4. ASSUME NEW i \in 1 .. m + 1 PROVE Has(set[m + 1], G!ValidLevels[i], v)
    <3>1. CASE G!ValidLevels[i] = l
      BY <3>1, <2>3
    <3>2. CASE G!ValidLevels[i] # l
      <4>1. i \in 1 .. m
        BY <3>2, <2>1 DEF l
      <4> QED BY <3>2, <4>1, <2>1, <2>3
    <3> QED BY <3>1, <3>2
  <2> QED BY <2>1, <2>2, <2>3, <2>4
<1>5. J(7)
  <2>1. 7 \in T
    <3> HIDE DEF T
    <3> QED BY <1>3, <1>4, SetInduction DEF T
  <2> QED BY <2>1
<1> QED BY <1>1, <1>2, <1>5

LEMMA SetSets ==
  ASSUME NEW list \in Lists, NEW e \in [level : Keys, value : Values]
  PROVE  LET new == G!Set(list, e) IN
         /\ new \in Lists /\ new # <<>>
         /\ new[1].level = IF list = <<>> THEN e.level ELSE list[1].level
         /\ Has(new, e.level, e.value)
         /\ e.level = "global" => \A k \in Keys : Has(new, k, e.value)
         /\ e.level # "global" => \A k, u : k # e.level => (Has(new, k, u) <=> Has(list, k, u))
<1>1. CASE e.level = "global"
  <2> DEFINE mid == G!UnsafeSet(list, "global", e.value)
  <2>1. /\ mid \in Lists /\ mid # <<>> /\ mid[1].level = IF list = <<>> THEN "global" ELSE list[1].level
        /\ Has(mid, "global", e.value)
    BY UnsafeSetSets DEF Keys
  <2>2. G!Set(list, e) = G!UnsafeSetGlobally(mid, e.value)
    BY <1>1 DEF G!Set, G!Global
  <2> HIDE DEF mid
  <2> DEFINE new == G!UnsafeSetGlobally(mid, e.value)
  <2>3. /\ new \in Lists /\ new # <<>> /\ new[1].level = mid[1].level
        /\ \A k \in LogKeys : Has(new, k, e.value)
        /\ \A u : Has(new, "global", u) <=> Has(mid, "global", u)
    BY <2>1, GloballySets
  <2> HIDE DEF new
  <2>4. \A k \in Keys : Has(new, k, e.value)
    BY <2>1, <2>3 DEF Keys
  <2>5. G!Set(list, e) = new
    BY <2>2 DEF new
  <2> QED BY <1>1, <2>1, <2>3, <2>4, <2>5 DEF Keys
<1>2. CASE e.level # "global"
  <2>1. G!Set(list, e) = G!UnsafeSet(list, e.level, e.value)
    BY <1>2 DEF G!Set, G!Global
  <2> DEFINE l == e.level
             v == e.value
  <2>2. l \in Keys /\ v \in Values
    OBVIOUS
  <2> HIDE DEF l, v
  <2> DEFINE new == G!UnsafeSet(list, l, v)
  <2>3. /\ new \in Lists /\ new # <<>> /\ new[1].level = IF list = <<>> THEN l ELSE list[1].level
        /\ Has(new, l, v)
        /\ \A k, u : k # l => (Has(new, k, u) <=> Has(list, k, u))
    BY <2>2, UnsafeSetSets
  <2> QED BY <1>2, <2>1, <2>3 DEF l, v
<1> QED BY <1>1, <1>2

\* Lists that are set into others name Global first, if at all.
Bases == {base \in Lists : \A i \in DOMAIN base : base[i].level = "global" => i = 1}

First(list) == list[1].level

\* What a list is merged into has every value of it, for every level that of
\* Global where it has none of its own, and nothing else if it names no Global.
LEMMA SetAllMerges ==
  ASSUME NEW list \in Lists, NEW base \in Bases
  PROVE  LET new == G!SetAll(list, base) IN
         /\ new \in Lists
         /\ new = <<>> => base = <<>>
         /\ new # <<>> => First(new) = IF list # <<>> THEN First(list) ELSE First(base)
         /\ \A i \in DOMAIN base : Has(new, base[i].level, base[i].value)
         /\ base # <<>> /\ First(base) = "global" =>
              \A k \in Keys : (\E i \in DOMAIN base : base[i].level = k) \/ Has(new, k, base[1].value)
         /\ (\A i \in DOMAIN base : base[i].level # "global") =>
              \A k, u : Has(new, k, u) => Has(list, k, u) \/ Has(base, k, u)
<1> DEFINE E == [level : Keys, value : Values]
           n == Len(base)
<1>1. /\ base \in Lists /\ base \in Seq(E) /\ n \in Nat /\ DOMAIN base = 1 .. n
      /\ \A i, j \in 1 .. n : base[i].level = base[j].level => i = j
      /\ \A i \in 1 .. n : base[i].level = "global" => i = 1
  BY DEF Lists, Bases
<1>2. \A i \in 1 .. n : base[i] \in E
  <2> HIDE DEF E
  <2> QED BY <1>1
<1> HIDE DEF E
<1>3. PICK set : SetAllRun(list, base, set)
  BY <1>1, SetAllSteps
<1> DEFINE J(m) ==
      /\ set[m] \in Lists
      /\ m >= 1 => set[m] # <<>>
      /\ set[m] # <<>> => First(set[m]) = IF list # <<>> THEN First(list) ELSE First(base)
      /\ \A i \in 1 .. m : Has(set[m], base[i].level, base[i].value)
      /\ m >= 1 /\ First(base) = "global" =>
           \A k \in Keys : (\E i \in 1 .. m : base[i].level = k) \/ Has(set[m], k, base[1].value)
      /\ (\A i \in 1 .. n : base[i].level # "global") =>
           \A k, u : Has(set[m], k, u) => Has(list, k, u) \/ Has(base, k, u)
           T == {m \in Nat : m <= n => J(m)}
<1>4. 0 \in T
  <2>1. set[0] = list
    BY <1>3 DEF SetAllRun
  <2> HIDE DEF Lists, Has, First, Keys
  <2> QED BY <2>1
<1>5. ASSUME NEW m \in T PROVE m + 1 \in T
  <2> SUFFICES ASSUME m + 1 <= n PROVE J(m + 1)
    OBVIOUS
  <2> DEFINE e == base[m + 1]
             old == set[m]
             new == set[m + 1]
  <2>1. J(m) /\ m + 1 \in 1 .. n /\ (m + 1) - 1 = m /\ m \in Nat /\ n \in Nat
    BY <1>1, <1>5
  <2>2. e \in E /\ new = G!Set(old, e)
    BY <1>2, <1>3, <2>1 DEF SetAllRun
  <2>3. /\ new \in Lists /\ new # <<>>
        /\ new[1].level = IF old = <<>> THEN e.level ELSE old[1].level
        /\ Has(new, e.level, e.value)
        /\ e.level = "global" => \A k \in Keys : Has(new, k, e.value)
        /\ e.level # "global" => \A k, u : k # e.level => (Has(new, k, u) <=> Has(old, k, u))
    <3>1. old \in Lists
      BY <2>1
    <3> HIDE DEF old, new, e
    <3> QED BY <2>2, <3>1, SetSets DEF E
  <2>4. m = 0 \/ e.level # "global"
    BY <1>1, <2>1
  <2>5. ASSUME NEW i \in 1 .. m PROVE e.level # "global" /\ base[i].level # e.level /\ i \in 1 .. n
    BY <1>1, <2>1
  <2>6. First(new) = IF list # <<>> THEN First(list) ELSE First(base)
    <3>1. CASE old # <<>>
      BY <2>1, <2>3, <3>1 DEF First
    <3>2. CASE old = <<>>
      <4>1. m = 0
        BY <2>1, <3>2
      <4>2. list = <<>> /\ e = base[1]
        BY <4>1, <3>2, <1>3 DEF SetAllRun
      <4> QED BY <4>2, <3>2, <2>3 DEF First
    <3> QED BY <3>1, <3>2
  <2>7. ASSUME NEW i \in 1 .. m + 1 PROVE Has(new, base[i].level, base[i].value)
    <3>1. CASE i = m + 1
      BY <2>3, <3>1
    <3>2. CASE i \in 1 .. m
      <4>1. Has(old, base[i].level, base[i].value)
        BY <2>1, <3>2
      <4> HIDE DEF old, new, e
      <4> QED BY <2>3, <2>5, <3>2, <4>1
    <3> QED BY <2>1, <3>1, <3>2
  <2>8. ASSUME First(base) = "global", NEW k \in Keys
        PROVE  (\E i \in 1 .. m + 1 : base[i].level = k) \/ Has(new, k, base[1].value)
    <3>1. CASE m = 0
      <4>1. e = base[1] /\ e.level = "global"
        BY <3>1, <2>8 DEF First
      <4> HIDE DEF new, e
      <4> QED BY <2>3, <4>1
    <3>2. CASE m >= 1
      <4>1. (\E i \in 1 .. m : base[i].level = k) \/ Has(old, k, base[1].value)
        BY <2>1, <2>8, <3>2
      <4>2. CASE k = e.level
        BY <4>2, <2>1
      <4>3. CASE k # e.level /\ Has(old, k, base[1].value)
        <5>1. e.level # "global"
          BY <2>4, <3>2, <2>1
        <5> HIDE DEF new, old, e
        <5> QED BY <4>3, <5>1, <2>3
      <4> QED BY <4>1, <4>2, <4>3, <2>1
    <3> QED BY <2>1, <3>1, <3>2
  <2>9. ASSUME \A i \in 1 .. n : base[i].level # "global", NEW k, NEW u, Has(new, k, u)
        PROVE  Has(list, k, u) \/ Has(base, k, u)
    <3>1. e.level # "global"
      BY <2>1, <2>9
    <3>2. CASE k # e.level
      <4>1. Has(old, k, u)
        <5> HIDE DEF new, old, e
        <5> QED BY <3>1, <3>2, <2>3, <2>9
      <4> QED BY <4>1, <2>1, <2>9
    <3>3. CASE k = e.level
      <4>1. u = e.value
        <5>1. PICK i \in DOMAIN new : new[i].level = k /\ new[i].value = u
          BY <2>9 DEF Has
        <5>2. PICK j \in DOMAIN new : new[j].level = e.level /\ new[j].value = e.value
          BY <2>3 DEF Has
        <5>3. i = j
          BY <5>1, <5>2, <2>3, <3>3 DEF Lists
        <5> QED BY <5>1, <5>2, <5>3
      <4> QED BY <3>3, <4>1, <1>1, <2>1 DEF Has
    <3> QED BY <3>2, <3>3
  <2> HIDE DEF new, old, e
  <2>10. new = set[m + 1]
    BY DEF new
  <2> QED BY <2>10, <2>3, <2>6, <2>7, <2>8, <2>9
<1>6. J(n)
  <2>1. n \in T
    <3> HIDE DEF T
    <3> QED BY <1>1, <1>4, <1>5, SetInduction DEF T
  <2> QED BY <2>1, <1>1
<1>7. G!SetAll(list, base) = set[n]
  BY <1>3 DEF SetAllRun
<1>8. base # <<>> => n >= 1
  BY <1>1
<1> HIDE DEF n
<1> QED BY <1>1, <1>6, <1>7, <1>8

LEMMA ListFacts ==
  ASSUME NEW list \in Lists
  PROVE  /\ Len(list) \in Nat /\ DOMAIN list = 1 .. Len(list)
         /\ \A i \in DOMAIN list : list[i].level \in Keys /\ list[i].value \in Values
         /\ list # <<>> => 1 \in DOMAIN list
         /\ list # <<>> => G!Range(Tail(list)) = {list[i] : i \in DOMAIN list \ {1}}
<1> DEFINE E == [level : Keys, value : Values]
<1>1. list \in Seq(E)
  BY DEF Lists
<1> HIDE DEF E
<1>2. Len(list) \in Nat /\ DOMAIN list = 1 .. Len(list) /\ \A i \in DOMAIN list : list[i] \in E
  BY <1>1
<1>3. ASSUME list # <<>> PROVE G!Range(Tail(list)) = {list[i] : i \in DOMAIN list \ {1}}
  <2>1. Len(list) \in Nat \ {0}
    BY <1>1, <1>3
  <2>2. DOMAIN Tail(list) = 1 .. Len(list) - 1 /\ \A i \in 1 .. Len(list) - 1 : Tail(list)[i] = list[i + 1]
    BY <1>1, <2>1
  <2>3. ASSUME NEW i \in DOMAIN list \ {1} PROVE list[i] \in G!Range(Tail(list))
    <3>1. i - 1 \in 1 .. Len(list) - 1 /\ (i - 1) + 1 = i
      BY <1>2, <2>1
    <3> QED BY <3>1, <2>2 DEF G!Range
  <2>4. ASSUME NEW i \in DOMAIN Tail(list) PROVE \E j \in DOMAIN list \ {1} : Tail(list)[i] = list[j]
    <3>1. i + 1 \in DOMAIN list \ {1}
      BY <1>2, <2>1, <2>2
    <3> QED BY <3>1, <2>2
  <2> QED BY <2>3, <2>4 DEF G!Range
<1>4. list # <<>> => 1 \in DOMAIN list
  BY <1>1, <1>2
<1> QED BY <1>2, <1>3, <1>4 DEF E

LEMMA ValueIs ==
  ASSUME NEW list \in Lists, NEW k \in Keys, NEW v, Has(list, k, v), NEW t
  PROVE  G!ValueOf(t, list, k) = G!Typed(t, v)
<1>1. PICK i \in DOMAIN list : list[i].level = k /\ list[i].value = v
  BY DEF Has
<1>2. \A e \in G!Range(list) : e.level = k => e = list[i]
  BY <1>1 DEF Lists, G!Range
<1>3. list[i] \in G!Range(list)
  BY DEF G!Range
<1>4. (CHOOSE e \in G!Range(list) : e.level = k) = list[i]
  BY <1>1, <1>2, <1>3
<1> QED BY <1>1, <1>4 DEF G!ValueOf

\* A level has an entry of its own if its value is not that of Global.
LEMMA SettingsMap ==
  ASSUME NEW list \in Lists, list # <<>>, First(list) = "global", NEW t, NEW new,
         new = G!SetValueOfAll(t, list), NEW k \in LogKeys, NEW v, Has(list, k, v)
  PROVE  /\ "global" \in DOMAIN new /\ new["global"] = G!Typed(t, list[1].value)
         /\ IF G!Typed(t, v) = G!Typed(t, list[1].value) THEN k \notin DOMAIN new
            ELSE k \in DOMAIN new /\ new[k] = G!Typed(t, v)
<1> DEFINE own == {e \in G!Range(Tail(list)) : G!Typed(t, e.value) # G!Typed(t, list[1].value)}
           map == [l \in {e.level : e \in own} |-> G!ValueOf(t, list, l)]
<1>1. new = [l \in DOMAIN map \cup {"global"} |-> IF l \in DOMAIN map THEN map[l] ELSE G!Typed(t, list[1].value)]
  BY DEF G!SetValueOfAll, G!WithGlobal, G!Global
<1>2. PICK i \in DOMAIN list : list[i].level = k /\ list[i].value = v
  BY DEF Has
<1>3. k # "global" /\ k \in Keys
  BY DEF LogKeys, Keys
<1>4. i # 1
  BY <1>2, <1>3 DEF First
<1>5. list[i] \in G!Range(Tail(list))
  BY <1>4, ListFacts
<1>6. "global" \notin DOMAIN map
  <2>1. ASSUME NEW e \in G!Range(Tail(list)) PROVE e.level # "global"
    <3>1. PICK j \in DOMAIN list \ {1} : e = list[j]
      BY ListFacts
    <3> QED BY <3>1, ListFacts DEF Lists, First
  <2> QED BY <2>1
<1>9. "global" \in DOMAIN new /\ new["global"] = G!Typed(t, list[1].value)
  <2> HIDE DEF map
  <2> QED BY <1>1, <1>6
<1>7. CASE G!Typed(t, v) # G!Typed(t, list[1].value)
  <2>1. list[i] \in own
    BY <1>2, <1>5, <1>7
  <2>2. k \in DOMAIN map /\ map[k] = G!ValueOf(t, list, k)
    BY <1>2, <2>1
  <2> HIDE DEF map
  <2>3. new[k] = map[k] /\ k \in DOMAIN new
    BY <1>1, <2>2
  <2>4. G!ValueOf(t, list, k) = G!Typed(t, v)
    BY <1>3, ValueIs
  <2> QED BY <1>7, <1>9, <2>2, <2>3, <2>4
<1>8. CASE G!Typed(t, v) = G!Typed(t, list[1].value)
  <2>1. k \notin DOMAIN map
    <3> SUFFICES ASSUME NEW e \in own, e.level = k PROVE FALSE
      OBVIOUS
    <3>1. PICK j \in DOMAIN list \ {1} : e = list[j]
      BY ListFacts
    <3>2. j = i
      BY <3>1, <1>2 DEF Lists
    <3> QED BY <3>1, <3>2, <1>2, <1>8
  <2> HIDE DEF map
  <2> QED BY <1>1, <1>3, <1>8, <1>9, <2>1
<1> QED BY <1>7, <1>8

LEMMA SettingIs ==
  ASSUME NEW list \in Lists, list # <<>>, First(list) = "global", NEW t,
         typed[t] = G!SetValueOfAll(t, list), NEW k \in LogKeys, NEW v, Has(list, k, v)
  PROVE  G!GetConfig(t, k) = G!Typed(t, v)
<1> DEFINE new == typed[t]
<1>1. /\ "global" \in DOMAIN new /\ new["global"] = G!Typed(t, list[1].value)
      /\ IF G!Typed(t, v) = G!Typed(t, list[1].value) THEN k \notin DOMAIN new
         ELSE k \in DOMAIN new /\ new[k] = G!Typed(t, v)
  BY SettingsMap
<1> HIDE DEF new
<1> QED BY <1>1 DEF G!GetConfig, G!Global, new

LEMMA FileIs ==
  ASSUME NEW list \in Lists, list # <<>>, \A i \in DOMAIN list : list[i].level # "global",
         typed["Filename"] = G!InsertFiles("Filename", list), NEW k \in LogKeys
  PROVE  /\ G!GetConfig("Filename", "global") = list[1].value
         /\ \A v : Has(list, k, v) => G!GetConfig("Filename", k) = v
         /\ (\A v : ~Has(list, k, v)) => G!GetConfig("Filename", k) = list[1].value
<1> DEFINE t == "Filename"
           own == {e.level : e \in G!Range(Tail(list))}
           map == [l \in own |-> G!ValueOf(t, list, l)]
<1>1. typed[t] = [l \in own \cup {"global"} |-> IF l \in own THEN map[l] ELSE list[1].value]
  <2>1. DOMAIN map = own
    OBVIOUS
  <2>2. G!Typed(t, list[1].value) = list[1].value
    BY DEF G!Typed
  <2>3. typed[t] = G!WithGlobal(t, map, list)
    BY DEF G!InsertFiles
  <2> HIDE DEF map, own
  <2> QED BY <2>1, <2>2, <2>3 DEF G!WithGlobal, G!Global
<1>2. own = {list[i].level : i \in DOMAIN list \ {1}}
  BY ListFacts
<1>3. "global" \notin own /\ k # "global" /\ k \in Keys
  BY <1>2 DEF LogKeys, Keys
<1>4. \A l \in own : map[l] = G!ValueOf(t, list, l)
  OBVIOUS
<1> HIDE DEF own, map
<1>5. typed[t]["global"] = list[1].value /\ "global" \in DOMAIN typed[t]
  BY <1>1, <1>3
<1>6. k \notin own => G!GetConfig(t, k) = list[1].value
  BY <1>1, <1>3, <1>5 DEF G!GetConfig, G!Global
<1>7. ASSUME NEW v, Has(list, k, v) PROVE G!GetConfig(t, k) = v
  <2>1. CASE k \in own
    <3>1. typed[t][k] = G!Typed(t, v) /\ k \in DOMAIN typed[t]
      BY <1>1, <1>3, <1>4, <1>7, <2>1, ValueIs
    <3> QED BY <3>1 DEF G!GetConfig, G!Typed
  <2>2. CASE k \notin own
    <3>1. PICK i \in DOMAIN list : list[i].level = k /\ list[i].value = v
      BY <1>7 DEF Has
    <3>2. i = 1
      BY <1>2, <2>2, <3>1
    <3> QED BY <1>6, <2>2, <3>1, <3>2
  <2> QED BY <2>1, <2>2
<1>8. ASSUME \A v : ~Has(list, k, v) PROVE k \notin own
  BY <1>2, <1>8 DEF Has
<1>9. G!GetConfig(t, "global") = list[1].value
  BY <1>5 DEF G!GetConfig
<1> QED BY <1>6, <1>7, <1>8, <1>9

LEMMA NothingIsEmpty == <<>> \in Bases /\ \A k, v : ~Has(<<>>, k, v)
<1>1. <<>> \in Seq([level : Keys, value : Values]) /\ DOMAIN <<>> = {}
  OBVIOUS
<1> QED BY <1>1 DEF Bases, Lists, Has

\* Statements that begin with Global, merged twice, give every level the value
\* of its own statement or that of Global.
LEMMA MergedTwice ==
  ASSUME NEW list \in Lists, list # <<>>, First(list) = "global",
         NEW base \in Bases, base # <<>>, First(base) = "global"
  PROVE  LET new == G!SetAll(list, G!SetAll(<<>>, base)) IN
         /\ new \in Lists /\ new # <<>> /\ First(new) = "global"
         /\ \A i \in DOMAIN base : Has(new, base[i].level, base[i].value)
         /\ \A k \in Keys : (\E i \in DOMAIN base : base[i].level = k) \/ Has(new, k, base[1].value)
<1> DEFINE mid == G!SetAll(<<>>, base)
<1>1. <<>> \in Lists
  BY NothingIsEmpty DEF Bases
<1>2. /\ mid \in Lists /\ mid # <<>> /\ First(mid) = "global"
      /\ \A i \in DOMAIN base : Has(mid, base[i].level, base[i].value)
      /\ \A k \in Keys : (\E i \in DOMAIN base : base[i].level = k) \/ Has(mid, k, base[1].value)
  BY <1>1, SetAllMerges
<1> HIDE DEF mid
<1>3. mid \in Bases
  BY <1>2, ListFacts DEF Bases, Lists, First
<1> DEFINE new == G!SetAll(list, mid)
<1>4. /\ new \in Lists /\ new # <<>> /\ First(new) = "global"
      /\ \A i \in DOMAIN mid : Has(new, mid[i].level, mid[i].value)
  BY <1>2, <1>3, SetAllMerges
<1> HIDE DEF new
<1>5. \A k, v : Has(mid, k, v) => Has(new, k, v)
  BY <1>4 DEF Has
<1> QED BY <1>2, <1>4, <1>5 DEF mid, new

OneForAll == {"Enabled", "ToFile", "ToStandardOutput", "MaxLogFileSize", "LogFlushThreshold"}

LEMMA SingleList ==
  ASSUME NEW v \in Values
  PROVE  LET list == <<G!Entry("global", v)>> IN list \in Bases /\ list # <<>> /\ First(list) = "global"
<1> DEFINE e == [level |-> "global", value |-> v]
           E == [level : Keys, value : Values]
<1>1. e \in E /\ e.level = "global"
  BY DEF Keys
<1> HIDE DEF e, E
<1>2. <<e>> \in Seq(E) /\ DOMAIN <<e>> = {1} /\ <<e>>[1] = e /\ <<e>> # <<>>
  BY <1>1
<1>3. <<e>> \in Lists
  BY <1>1, <1>2 DEF Lists, E
<1> QED BY <1>1, <1>2, <1>3 DEF Bases, First, G!Entry, e

LEMMA DefaultLists ==
  /\ \A t \in OneForAll : G!Default[t] \in Lists /\ G!Default[t] # <<>> /\ First(G!Default[t]) = "global"
  /\ G!Default["Filename"] = <<>>
<1>1. ASSUME NEW t \in OneForAll PROVE G!Default[t] \in Lists /\ G!Default[t] # <<>> /\ First(G!Default[t]) = "global"
  <2>1. PICK v \in Values : G!Default[t] = G!SetAll(<<>>, <<G!Entry("global", v)>>)
    BY DEF G!Default, G!SetFromBase, G!NoConfigurations, G!Types, G!Global, OneForAll, Values
  <2> DEFINE base == <<G!Entry("global", v)>>
  <2>2. base \in Bases /\ base # <<>> /\ First(base) = "global"
    BY SingleList
  <2> HIDE DEF base
  <2>3. <<>> \in Lists
    BY NothingIsEmpty DEF Bases
  <2>4. LET new == G!SetAll(<<>>, base) IN new \in Lists /\ new # <<>> /\ First(new) = "global"
    BY <2>2, <2>3, SetAllMerges
  <2> QED BY <2>1, <2>4 DEF base
<1>2. G!Default["Filename"] = <<>>
  <2> DEFINE new == G!SetAll(<<>>, <<>>)
  <2>1. G!Default["Filename"] = new
    BY DEF G!Default, G!SetFromBase, G!NoConfigurations, G!Types
  <2>2. <<>> \in Lists /\ <<>> \in Bases /\ \A i \in DOMAIN <<>> : FALSE
    BY NothingIsEmpty DEF Bases
  <2>3. new \in Lists /\ \A k, u : Has(new, k, u) => Has(<<>>, k, u)
    BY <2>2, SetAllMerges
  <2> HIDE DEF new
  <2>4. new # <<>> => Has(new, new[1].level, new[1].value)
    BY <2>3, ListFacts DEF Has
  <2> QED BY <2>1, <2>3, <2>4, NothingIsEmpty
<1> QED BY <1>1, <1>2

Words == [Enabled |-> "1", ToFile |-> "1", ToStandardOutput |-> "0",
          MaxLogFileSize |-> "209715200", LogFlushThreshold |-> "100"]

Names == [debug |-> "debug_log", error |-> "error_log", info |-> "info_log"]

LEMMA EnabledStatements ==
  ASSUME params.switches \in [LogKeys -> BOOLEAN]
  PROVE  LET base == G!Statements["Enabled"] IN
         /\ base \in Bases /\ base # <<>> /\ First(base) = "global"
         /\ \A k \in LogKeys : Has(base, k, G!OnOff(params.switches[k]))
<1> DEFINE E == [level : Keys, value : Values]
           top == G!Entry("global", "1")
           head == <<top>>
           rest == [i \in 1 .. 7 |-> G!Entry(G!ValidLevels[i], G!OnOff(params.switches[G!ValidLevels[i]]))]
           base == head \o rest
<1>1. /\ Len(G!ValidLevels) = 7
      /\ \A i \in 1 .. 7 : G!ValidLevels[i] \in LogKeys
      /\ \A k \in LogKeys : \E i \in 1 .. 7 : k = G!ValidLevels[i]
      /\ \A i, j \in 1 .. 7 : G!ValidLevels[i] = G!ValidLevels[j] => i = j
      /\ "global" \notin LogKeys
  BY DEF LogKeys, G!ValidLevels
<1>2. base = G!Statements["Enabled"]
  BY <1>1 DEF G!Statements, G!Global
<1>3. head \in Seq(E) /\ Len(head) = 1 /\ head[1].level = "global"
  <2>1. top \in E /\ top.level = "global"
    BY DEF G!Entry, Keys, Values
  <2> HIDE DEF top, E
  <2> QED BY <2>1
<1>4. ASSUME NEW i \in 1 .. 7
      PROVE  /\ rest[i] \in E /\ rest[i].level = G!ValidLevels[i]
             /\ rest[i].value = G!OnOff(params.switches[G!ValidLevels[i]])
  <2> DEFINE l == G!ValidLevels[i]
             v == G!OnOff(params.switches[l])
  <2>1. l \in Keys /\ v \in Values
    BY <1>1 DEF G!OnOff, Keys, Values
  <2>2. rest[i] = [level |-> l, value |-> v]
    BY DEF G!Entry
  <2> HIDE DEF l, v, rest
  <2>3. rest[i] \in E /\ rest[i].level = l /\ rest[i].value = v
    BY <2>1, <2>2
  <2> QED BY <2>3 DEF l, v
<1>5. rest = [i \in 1 .. 7 |-> rest[i]]
  OBVIOUS
<1> HIDE DEF E, head, rest
<1>6. rest \in Seq(E) /\ Len(rest) = 7
  BY <1>4, <1>5
<1>7. base \in Seq(E) /\ Len(base) = 8 /\ DOMAIN base = 1 .. 8
  <2>1. base \in Seq(E) /\ Len(base) = Len(head) + Len(rest)
    BY <1>3, <1>6, ConcatProperties, Zenon
  <2> HIDE DEF base
  <2> QED BY <2>1, <1>3, <1>6
<1>8. base[1] = head[1] /\ \A i \in 2 .. 8 : base[i] = rest[i - 1]
  <2>1. \A i \in 1 .. Len(head) + Len(rest) :
          base[i] = IF i <= Len(head) THEN head[i] ELSE rest[i - Len(head)]
    BY <1>3, <1>6, ConcatProperties, Zenon
  <2> HIDE DEF base
  <2> QED BY <2>1, <1>3, <1>6
<1> HIDE DEF base
<1>9. base[1].level = "global" /\ \A i \in 2 .. 8 : base[i].level = G!ValidLevels[i - 1] /\ i - 1 \in 1 .. 7
  <2>1. ASSUME NEW i \in 2 .. 8 PROVE base[i].level = G!ValidLevels[i - 1] /\ i - 1 \in 1 .. 7
    <3>1. i - 1 \in 1 .. 7
      OBVIOUS
    <3> QED BY <3>1, <1>4, <1>8
  <2> QED BY <2>1, <1>3, <1>8
<1>10. base \in Bases
  <2>1. ASSUME NEW i \in 1 .. 8, NEW j \in 1 .. 8, base[i].level = base[j].level PROVE i = j
    <3>1. CASE i \in 2 .. 8 /\ j \in 2 .. 8
      <4>1. i - 1 = j - 1
        BY <2>1, <3>1, <1>1, <1>9
      <4> QED BY <4>1
    <3>2. CASE i = 1 \/ j = 1
      BY <2>1, <3>2, <1>1, <1>9
    <3> QED BY <3>1, <3>2
  <2>2. ASSUME NEW i \in 1 .. 8, base[i].level = "global" PROVE i = 1
    BY <2>1, <2>2, <1>9
  <2> QED BY <1>7, <2>1, <2>2 DEF Bases, Lists, E
<1>11. ASSUME NEW k \in LogKeys PROVE Has(base, k, G!OnOff(params.switches[k]))
  <2>1. PICK i \in 1 .. 7 : k = G!ValidLevels[i]
    BY <1>1
  <2>2. i + 1 \in 2 .. 8 /\ (i + 1) - 1 = i
    OBVIOUS
  <2>3. base[i + 1].level = k /\ base[i + 1].value = G!OnOff(params.switches[k])
    BY <1>4, <1>8, <2>1, <2>2
  <2> QED BY <1>7, <2>2, <2>3 DEF Has
<1> QED BY <1>2, <1>7, <1>9, <1>10, <1>11 DEF First

In(list, x) == \E i \in DOMAIN list : list[i] = x
Injective(list) == \A i, j \in DOMAIN list : list[i] = list[j] => i = j

LEMMA Concatenates ==
  ASSUME NEW E, NEW p \in Seq(E), NEW q \in Seq(E)
  PROVE  /\ p \o q \in Seq(E)
         /\ \A x : In(p \o q, x) <=> In(p, x) \/ In(q, x)
         /\ Injective(p) /\ Injective(q) /\ (\A x : ~(In(p, x) /\ In(q, x))) => Injective(p \o q)
<1> DEFINE r == p \o q
           m == Len(p)
           n == Len(q)
<1>1. r \in Seq(E) /\ Len(r) = m + n /\ \A i \in 1 .. m + n : r[i] = IF i <= m THEN p[i] ELSE q[i - m]
  BY ConcatProperties, Zenon
<1>2. m \in Nat /\ n \in Nat /\ DOMAIN p = 1 .. m /\ DOMAIN q = 1 .. n
  OBVIOUS
<1> HIDE DEF r, m, n
<1>3. DOMAIN r = 1 .. m + n
  BY <1>1, <1>2
<1>4. ASSUME NEW i \in DOMAIN p PROVE i \in DOMAIN r /\ r[i] = p[i]
  BY <1>1, <1>2, <1>3
<1>5. ASSUME NEW i \in DOMAIN q PROVE i + m \in DOMAIN r /\ r[i + m] = q[i]
  <2>1. i + m \in 1 .. m + n /\ ~(i + m <= m) /\ (i + m) - m = i
    BY <1>2
  <2> QED BY <2>1, <1>1, <1>3
<1>6. ASSUME NEW i \in DOMAIN r
      PROVE  (i \in DOMAIN p /\ r[i] = p[i]) \/ (i - m \in DOMAIN q /\ r[i] = q[i - m])
  BY <1>1, <1>2, <1>3
<1>7. ASSUME NEW x PROVE In(r, x) <=> In(p, x) \/ In(q, x)
  BY <1>4, <1>5, <1>6 DEF In
<1>8. ASSUME Injective(p), Injective(q), \A x : ~(In(p, x) /\ In(q, x)), NEW i \in DOMAIN r, NEW j \in DOMAIN r, r[i] = r[j]
      PROVE  i = j
  <2>1. CASE i \in DOMAIN p /\ r[i] = p[i] /\ j \in DOMAIN p /\ r[j] = p[j]
    BY <1>8, <2>1 DEF Injective
  <2>2. CASE i - m \in DOMAIN q /\ r[i] = q[i - m] /\ j - m \in DOMAIN q /\ r[j] = q[j - m]
    <3>1. i - m = j - m
      BY <1>8, <2>2 DEF Injective
    <3> QED BY <3>1, <1>2, <1>3
  <2>3. CASE i \in DOMAIN p /\ r[i] = p[i] /\ j - m \in DOMAIN q /\ r[j] = q[j - m]
    BY <1>8, <2>3 DEF In
  <2>4. CASE i - m \in DOMAIN q /\ r[i] = q[i - m] /\ j \in DOMAIN p /\ r[j] = p[j]
    BY <1>8, <2>4 DEF In
  <2> QED BY <1>6, <2>1, <2>2, <2>3, <2>4
<1>9. Injective(p) /\ Injective(q) /\ (\A x : ~(In(p, x) /\ In(q, x))) => Injective(r)
  BY <1>8 DEF Injective
<1> QED BY <1>1, <1>7, <1>9 DEF r

LEMMA FileStatements ==
  ASSUME params.switches \in [LogKeys -> BOOLEAN]
  PROVE  LET base == G!Statements["Filename"] IN
         /\ base \in Bases /\ \A i \in DOMAIN base : base[i].level # "global"
         /\ \A k, v : Has(base, k, v) <=> k \in DOMAIN Names /\ params.switches[k] /\ v = Names[k]
<1> DEFINE E == [level : Keys, value : Values]
           D(k) == G!Entry(k, Names[k])
           S(k) == IF params.switches[k] THEN <<D(k)>> ELSE <<>>
           base == S("debug") \o S("error") \o S("info")
<1>1. base = G!Statements["Filename"]
  BY DEF G!Statements, G!OwnFile, Names
<1>d. DOMAIN Names = {"debug", "error", "info"} /\ DOMAIN Names \subseteq LogKeys
  BY DEF Names, LogKeys
<1>2. ASSUME NEW k \in DOMAIN Names PROVE D(k) \in E /\ D(k).level = k /\ D(k).value = Names[k]
  <2>1. k \in Keys /\ Names[k] \in Values
    BY <1>d DEF Names, Keys, Values
  <2>2. D(k) = [level |-> k, value |-> Names[k]]
    BY DEF G!Entry
  <2> QED BY <2>1, <2>2
<1> HIDE DEF E, D
<1>3. /\ \A k \in DOMAIN Names : params.switches[k] \in BOOLEAN
      /\ D("debug") # D("error") /\ D("debug") # D("info") /\ D("error") # D("info")
  BY <1>d, <1>2
<1>4. /\ base \in Seq(E) /\ Injective(base)
      /\ \A x : In(base, x) <=> \E k \in DOMAIN Names : params.switches[k] /\ x = D(k)
  <2>1. ASSUME NEW k \in DOMAIN Names
        PROVE  S(k) \in Seq(E) /\ Injective(S(k)) /\ \A x : In(S(k), x) <=> params.switches[k] /\ x = D(k)
    <3>1. CASE params.switches[k]
      <4>1. S(k) = <<D(k)>> /\ D(k) \in E
        BY <3>1, <1>2
      <4> HIDE DEF S
      <4> QED BY <3>1, <4>1 DEF In, Injective
    <3>2. CASE ~params.switches[k]
      <4>1. S(k) = <<>>
        BY <3>2
      <4> HIDE DEF S
      <4> QED BY <3>2, <4>1 DEF In, Injective
    <3> QED BY <3>1, <3>2
  <2> DEFINE d == S("debug")
             e == S("error")
             f == S("info")
  <2>2. /\ d \in Seq(E) /\ Injective(d) /\ \A x : In(d, x) <=> params.switches["debug"] /\ x = D("debug")
        /\ e \in Seq(E) /\ Injective(e) /\ \A x : In(e, x) <=> params.switches["error"] /\ x = D("error")
        /\ f \in Seq(E) /\ Injective(f) /\ \A x : In(f, x) <=> params.switches["info"] /\ x = D("info")
    BY <1>d, <2>1
  <2>3. base = (d \o e) \o f
    OBVIOUS
  <2> HIDE DEF S, base, d, e, f
  <2>4. d \o e \in Seq(E) /\ Injective(d \o e) /\ \A x : In(d \o e, x) <=> In(d, x) \/ In(e, x)
    BY <1>3, <2>2, Concatenates
  <2> DEFINE de == d \o e
  <2>5. de \in Seq(E) /\ Injective(de) /\ \A x : In(de, x) <=> In(d, x) \/ In(e, x)
    BY <2>4
  <2>6. base = de \o f
    BY <2>3
  <2> HIDE DEF de
  <2>7. de \o f \in Seq(E) /\ Injective(de \o f) /\ \A x : In(de \o f, x) <=> In(de, x) \/ In(f, x)
    BY <1>3, <2>2, <2>5, Concatenates
  <2>8. \A x : In(base, x) <=> \E k \in DOMAIN Names : params.switches[k] /\ x = D(k)
    BY <1>d, <2>2, <2>5, <2>6, <2>7
  <2> QED BY <2>6, <2>7, <2>8
<1> HIDE DEF base
<1>5. base \in Lists
  <2>1. ASSUME NEW i \in DOMAIN base, NEW j \in DOMAIN base, base[i].level = base[j].level PROVE i = j
    <3>1. PICK k \in DOMAIN Names : base[i] = D(k)
      BY <1>4 DEF In
    <3>2. PICK l \in DOMAIN Names : base[j] = D(l)
      BY <1>4 DEF In
    <3>3. k = l
      BY <2>1, <3>1, <3>2, <1>2
    <3> QED BY <3>1, <3>2, <3>3, <1>4 DEF Injective
  <2> QED BY <2>1, <1>4 DEF Lists, E
<1>6. \A i \in DOMAIN base : base[i].level # "global"
  <2>1. ASSUME NEW i \in DOMAIN base PROVE \E k \in DOMAIN Names : base[i] = D(k)
    BY <1>4 DEF In
  <2>2. "global" \notin DOMAIN Names
    BY <1>d
  <2> QED BY <2>1, <2>2, <1>2
<1>7. ASSUME NEW k, NEW v PROVE Has(base, k, v) <=> k \in DOMAIN Names /\ params.switches[k] /\ v = Names[k]
  <2>1. ASSUME NEW i \in DOMAIN base, base[i].level = k, base[i].value = v
        PROVE  k \in DOMAIN Names /\ params.switches[k] /\ v = Names[k]
    <3>1. PICK l \in DOMAIN Names : params.switches[l] /\ base[i] = D(l)
      BY <1>4 DEF In
    <3> QED BY <2>1, <3>1, <1>2
  <2>2. ASSUME k \in DOMAIN Names, params.switches[k], v = Names[k] PROVE Has(base, k, v)
    <3>1. PICK i \in DOMAIN base : base[i] = D(k)
      BY <2>2, <1>4 DEF In
    <3> QED BY <2>2, <3>1, <1>2 DEF Has
  <2> QED BY <2>1, <2>2 DEF Has
<1> QED BY <1>1, <1>5, <1>6, <1>7 DEF Bases

-----------------------------------------------------------------------------
(* The logger. *)

Configured == G!SetFromBase(G!Default, G!SetFromBase(G!NoConfigurations, G!Statements))

LEMMA ConfiguredLists ==
  ASSUME NEW t \in G!Types
  PROVE  Configured[t] = G!SetAll(G!Default[t], G!SetAll(<<>>, G!Statements[t]))
BY DEF Configured, G!SetFromBase, G!NoConfigurations

LEMMA LevelsAre ==
  ASSUME params.switches \in [LogKeys -> BOOLEAN], typed = G!Build(Configured, unopened), NEW k \in LogKeys
  PROVE  /\ G!GetConfig("Enabled", k) = params.switches[k]
         /\ ~G!GetConfig("ToStandardOutput", k)
         /\ G!GetConfig("MaxLogFileSize", k) = "209715200" /\ G!GetConfig("LogFlushThreshold", k) = "100"
<1>k. k # "global" /\ k \in Keys
  BY DEF LogKeys, Keys
<1>1. ASSUME NEW t \in OneForAll \ {"ToFile"}, NEW v,
             G!Statements[t] \in Bases, G!Statements[t] # <<>>, First(G!Statements[t]) = "global",
             \/ Has(G!Statements[t], k, v)
             \/ (\A i \in DOMAIN G!Statements[t] : G!Statements[t][i].level # k) /\ v = G!Statements[t][1].value
      PROVE  G!GetConfig(t, k) = G!Typed(t, v)
  <2> DEFINE base == G!Statements[t]
             list == G!Default[t]
             new == G!SetAll(list, G!SetAll(<<>>, base))
  <2>1. list \in Lists /\ list # <<>> /\ First(list) = "global" /\ base \in Bases /\ base # <<>> /\ First(base) = "global"
    BY <1>1, DefaultLists
  <2> HIDE DEF list, base
  <2>2. /\ new \in Lists /\ new # <<>> /\ First(new) = "global"
        /\ \A i \in DOMAIN base : Has(new, base[i].level, base[i].value)
        /\ \A l \in Keys : (\E i \in DOMAIN base : base[i].level = l) \/ Has(new, l, base[1].value)
    BY <2>1, MergedTwice
  <2>3. Configured[t] = new
    BY ConfiguredLists DEF OneForAll, G!Types, list, base
  <2> HIDE DEF new
  <2>4. Has(new, k, v)
    BY <1>1, <1>k, <2>2 DEF Has, base
  <2>5. typed[t] = G!SetValueOfAll(t, new)
    BY <2>2, <2>3 DEF G!Build, G!MapOf, OneForAll, G!Types
  <2> QED BY <2>2, <2>4, <2>5, SettingIs
<1>2. G!GetConfig("Enabled", k) = params.switches[k]
  <2>1. G!GetConfig("Enabled", k) = G!Typed("Enabled", G!OnOff(params.switches[k]))
    BY <1>1, EnabledStatements DEF OneForAll
  <2>2. params.switches[k] \in BOOLEAN
    OBVIOUS
  <2> QED BY <2>1, <2>2 DEF G!Typed, G!OnOff, G!Bool
<1>3. ASSUME NEW t \in OneForAll \ {"ToFile"}, NEW v \in Values, G!Statements[t] = <<G!Entry("global", v)>>
      PROVE  G!GetConfig(t, k) = G!Typed(t, v)
  <2> DEFINE base == <<G!Entry("global", v)>>
  <2>1. base \in Bases /\ base # <<>> /\ First(base) = "global"
    BY SingleList
  <2>2. DOMAIN base = {1} /\ base[1].level = "global" /\ base[1].value = v
    BY DEF G!Entry
  <2> HIDE DEF base
  <2>3. G!Statements[t] = base
    BY <1>3 DEF base
  <2> QED BY <1>1, <1>k, <2>1, <2>2, <2>3
<1>5. G!GetConfig("ToStandardOutput", k) = G!Typed("ToStandardOutput", "0")
  BY <1>3 DEF OneForAll, Values, G!Statements, G!Global
<1>6. G!GetConfig("MaxLogFileSize", k) = G!Typed("MaxLogFileSize", "209715200")
  BY <1>3 DEF OneForAll, Values, G!Statements, G!Global
<1>7. G!GetConfig("LogFlushThreshold", k) = G!Typed("LogFlushThreshold", "100")
  BY <1>3 DEF OneForAll, Values, G!Statements, G!Global
<1>8. ~G!Typed("ToStandardOutput", "0")
  BY DEF G!Typed, G!Bool
<1>9. \A v : G!Typed("MaxLogFileSize", v) = v /\ G!Typed("LogFlushThreshold", v) = v
  BY DEF G!Typed
<1> QED BY <1>2, <1>5, <1>6, <1>7, <1>8, <1>9

\* The list of log files: one for each level of Names that is switched on.
LEMMA FilesOf ==
  ASSUME params.switches \in [LogKeys -> BOOLEAN]
  PROVE  LET files == Configured["Filename"] IN
         /\ files \in Lists /\ \A i \in DOMAIN files : files[i].level # "global"
         /\ \A k, v : Has(files, k, v) <=> k \in DOMAIN Names /\ params.switches[k] /\ v = Names[k]
<1> DEFINE base == G!Statements["Filename"]
           mid == G!SetAll(<<>>, base)
           new == G!SetAll(<<>>, mid)
<1>0. "global" \notin DOMAIN Names /\ DOMAIN Names \subseteq LogKeys
  BY DEF Names, LogKeys
<1>1. /\ base \in Bases /\ \A i \in DOMAIN base : base[i].level # "global"
      /\ \A k, v : Has(base, k, v) <=> k \in DOMAIN Names /\ params.switches[k] /\ v = Names[k]
  BY FileStatements
<1>2. <<>> \in Lists
  BY NothingIsEmpty DEF Bases
<1>3. Configured["Filename"] = new
  BY ConfiguredLists, DefaultLists DEF G!Types
<1> HIDE DEF base
<1>4. mid \in Lists /\ \A k, v : Has(mid, k, v) <=> Has(base, k, v)
  <2>1. /\ mid \in Lists /\ \A i \in DOMAIN base : Has(mid, base[i].level, base[i].value)
        /\ \A k, v : Has(mid, k, v) => Has(<<>>, k, v) \/ Has(base, k, v)
    BY <1>1, <1>2, SetAllMerges
  <2> HIDE DEF mid
  <2>2. \A k, v : Has(base, k, v) => Has(mid, k, v)
    BY <2>1 DEF Has
  <2> QED BY <2>1, <2>2, NothingIsEmpty
<1> HIDE DEF mid
<1>5. \A i \in DOMAIN mid : mid[i].level # "global"
  BY <1>0, <1>1, <1>4 DEF Has
<1>6. mid \in Bases
  BY <1>4, <1>5 DEF Bases
<1>7. new \in Lists /\ \A k, v : Has(new, k, v) <=> Has(mid, k, v)
  <2>1. /\ new \in Lists /\ \A i \in DOMAIN mid : Has(new, mid[i].level, mid[i].value)
        /\ \A k, v : Has(new, k, v) => Has(<<>>, k, v) \/ Has(mid, k, v)
    BY <1>2, <1>5, <1>6, SetAllMerges
  <2> HIDE DEF new
  <2>2. \A k, v : Has(mid, k, v) => Has(new, k, v)
    BY <2>1 DEF Has
  <2> QED BY <2>1, <2>2, NothingIsEmpty
<1> HIDE DEF new
<1>8. \A k, v : Has(new, k, v) <=> k \in DOMAIN Names /\ params.switches[k] /\ v = Names[k]
  BY <1>1, <1>4, <1>7
<1>9. \A i \in DOMAIN new : new[i].level # "global"
  BY <1>0, <1>8 DEF Has
<1> QED BY <1>3, <1>7, <1>8, <1>9

LEMMA FilesAre ==
  ASSUME params.switches \in [LogKeys -> BOOLEAN], typed = G!Build(Configured, unopened)
  PROVE  /\ \A k \in DOMAIN Names : params.switches[k] => G!GetConfig("Filename", k) = Names[k]
         /\ \A l \in LogKeys \ DOMAIN Names :
              IF \E k \in DOMAIN Names : params.switches[k]
              THEN \E k \in DOMAIN Names : params.switches[k] /\ G!GetConfig("Filename", l) = Names[k]
              ELSE G!GetConfig("Filename", l) = G!NoFile
<1> DEFINE new == Configured["Filename"]
<1>0. "global" \notin DOMAIN Names /\ DOMAIN Names \subseteq LogKeys
  BY DEF Names, LogKeys
<1>1. /\ new \in Lists /\ \A i \in DOMAIN new : new[i].level # "global"
      /\ \A k, v : Has(new, k, v) <=> k \in DOMAIN Names /\ params.switches[k] /\ v = Names[k]
  BY FilesOf
<1>2. typed["Filename"] = G!MapOf("Filename", new)
  BY DEF G!Build, G!Types
<1> HIDE DEF new
<1>10. CASE new = <<>>
  <2>1. \A k \in DOMAIN Names : ~params.switches[k]
    BY <1>1, <1>10, NothingIsEmpty
  <2>2. typed["Filename"] = [l \in {} |-> G!NoFile]
    BY <1>2, <1>10 DEF G!MapOf
  <2>3. \A l \in LogKeys : G!GetConfig("Filename", l) = G!NoFile
    BY <2>2 DEF G!GetConfig
  <2> QED BY <2>1, <2>3
<1>11. CASE new # <<>>
  <2>1. typed["Filename"] = G!InsertFiles("Filename", new)
    BY <1>2, <1>11 DEF G!MapOf
  <2>2. ASSUME NEW k \in LogKeys
        PROVE  /\ \A v : Has(new, k, v) => G!GetConfig("Filename", k) = v
               /\ (\A v : ~Has(new, k, v)) => G!GetConfig("Filename", k) = new[1].value
    BY <1>1, <1>11, <2>1, FileIs
  <2>3. Has(new, new[1].level, new[1].value)
    BY <1>1, <1>11, ListFacts DEF Has
  <2>4. \E k \in DOMAIN Names : params.switches[k] /\ new[1].value = Names[k]
    BY <1>1, <2>3
  <2>5. \A k \in DOMAIN Names : params.switches[k] => G!GetConfig("Filename", k) = Names[k]
    BY <1>0, <1>1, <2>2
  <2>6. \A l \in LogKeys \ DOMAIN Names : G!GetConfig("Filename", l) = new[1].value
    BY <1>1, <2>2
  <2> QED BY <2>4, <2>5, <2>6
<1> QED BY <1>10, <1>11

LEMMA FileNamesAre ==
  ASSUME params.switches \in [LogKeys -> BOOLEAN]
  PROVE  \A v \in G!FileNames : v \in {"debug_log", "error_log", "info_log"}
<1> DEFINE base == G!Statements["Filename"]
<1>1. ASSUME NEW v \in G!FileNames PROVE \E k \in DOMAIN Names : v = Names[k]
  <2>1. PICK i \in DOMAIN base : v = base[i].value
    BY DEF G!FileNames, G!Range
  <2> HIDE DEF base
  <2>2. Has(base, base[i].level, v)
    BY <2>1 DEF Has
  <2> QED BY <2>2, FileStatements DEF base
<1> QED BY <1>1 DEF Names

\* A level is written to its file if that and the first file are open.
LEMMA OutputIs ==
  ASSUME params.switches \in [LogKeys -> BOOLEAN], typed = G!Build(Configured, unopened),
         unopened \subseteq G!FileNames, NEW k \in LogKeys
  PROVE  G!GetConfig("ToFile", k) <=>
           {G!GetConfig("Filename", k), G!GetConfig("Filename", "global")} \cap unopened = {}
<1> DEFINE files == Configured["Filename"]
           new == Configured["ToFile"]
           map == G!SetValueOfAll("ToFile", new)
           base == <<G!Entry("global", "1")>>
           failed == {i \in DOMAIN files : files[i].value \in unopened}
           forced == {files[i].level : i \in failed}
           result == typed["ToFile"]
<1>k. k # "global" /\ k \in Keys /\ "global" \in Keys
  BY DEF LogKeys, Keys
<1>1. /\ files \in Lists /\ \A i \in DOMAIN files : files[i].level # "global"
      /\ \A l, v : Has(files, l, v) <=> l \in DOMAIN Names /\ params.switches[l] /\ v = Names[l]
  BY FilesOf
<1>2. /\ new \in Lists /\ new # <<>> /\ First(new) = "global"
      /\ Has(new, k, "1") /\ new[1].value = "1"
  <2> DEFINE list == G!Default["ToFile"]
             merged == G!SetAll(list, G!SetAll(<<>>, base))
  <2>1. list \in Lists /\ list # <<>> /\ First(list) = "global"
    BY DefaultLists DEF OneForAll
  <2>2. base \in Bases /\ base # <<>> /\ First(base) = "global"
    BY SingleList DEF Values
  <2>3. DOMAIN base = {1} /\ base[1].level = "global" /\ base[1].value = "1"
    BY DEF G!Entry
  <2>4. new = merged
    BY ConfiguredLists DEF G!Types, G!Statements, G!Global
  <2> HIDE DEF list, base, new
  <2>5. /\ merged \in Lists /\ merged # <<>> /\ First(merged) = "global"
        /\ \A i \in DOMAIN base : Has(merged, base[i].level, base[i].value)
        /\ \A l \in Keys : (\E i \in DOMAIN base : base[i].level = l) \/ Has(merged, l, base[1].value)
    BY <2>1, <2>2, MergedTwice
  <2> HIDE DEF merged
  <2>6. Has(new, k, "1") /\ Has(new, "global", "1")
    BY <1>k, <2>3, <2>4, <2>5
  <2>7. new[1].value = "1"
    BY <2>4, <2>5, <2>6, ListFacts DEF Has, Lists, First
  <2> QED BY <2>4, <2>5, <2>6, <2>7
<1>3. result = G!ForceToFile(map, files, unopened) /\ typed["Filename"] = G!MapOf("Filename", files)
  BY <1>2 DEF G!Build, G!MapOf, G!Types
<1> HIDE DEF new, files
<1>4. "global" \in DOMAIN map /\ map["global"] = TRUE /\ k \notin DOMAIN map
  <2>1. G!Typed("ToFile", "1") = TRUE
    BY DEF G!Typed, G!Bool
  <2>2. "global" \in DOMAIN map /\ map["global"] = G!Typed("ToFile", new[1].value)
    BY <1>2, SettingsMap
  <2>3. IF G!Typed("ToFile", "1") = G!Typed("ToFile", new[1].value) THEN k \notin DOMAIN map
        ELSE k \in DOMAIN map /\ map[k] = G!Typed("ToFile", "1")
    BY <1>2, SettingsMap
  <2> HIDE DEF map
  <2> QED BY <1>2, <2>1, <2>2, <2>3
<1> HIDE DEF map
<1>5. result = IF 1 \in failed THEN [map EXCEPT !["global"] = FALSE]
               ELSE [l \in DOMAIN map \cup forced |-> l \notin forced /\ map[l]]
  BY <1>3, <1>4 DEF G!ForceToFile, G!Global
<1>6. "global" \notin forced
  BY <1>1
<1> HIDE DEF result, failed, forced
<1>7. G!GetConfig("ToFile", k) <=> 1 \notin failed /\ k \notin forced
  <2>1. CASE 1 \in failed
    <3>1. DOMAIN result = DOMAIN map /\ result["global"] = FALSE
      BY <1>4, <1>5, <2>1
    <3> QED BY <1>4, <2>1, <3>1 DEF G!GetConfig, G!Global, result
  <2>2. CASE 1 \notin failed
    <3>1. /\ DOMAIN result = DOMAIN map \cup forced
          /\ \A l \in DOMAIN map \cup forced : result[l] = (l \notin forced /\ map[l])
      BY <1>5, <2>2
    <3>2. CASE k \in forced
      <4>1. k \in DOMAIN result /\ result[k] = FALSE
        BY <3>1, <3>2
      <4> QED BY <3>2, <4>1 DEF G!GetConfig, result
    <3>3. CASE k \notin forced
      <4>1. k \notin DOMAIN result /\ "global" \in DOMAIN result /\ result["global"] = TRUE
        BY <1>4, <1>6, <3>1, <3>3
      <4> QED BY <2>2, <3>3, <4>1 DEF G!GetConfig, G!Global, result
    <3> QED BY <3>2, <3>3
  <2> QED BY <2>1, <2>2
<1>8. k \in forced <=> \E v \in unopened : Has(files, k, v)
  BY DEF forced, failed, Has
<1>9. CASE files = <<>>
  <2>1. DOMAIN files = {} /\ failed = {} /\ forced = {}
    BY <1>9 DEF failed, forced
  <2>2. typed["Filename"] = [l \in {} |-> G!NoFile]
    BY <1>3, <1>9 DEF G!MapOf
  <2>3. G!GetConfig("Filename", k) = G!NoFile /\ G!GetConfig("Filename", "global") = G!NoFile
    BY <2>2 DEF G!GetConfig, G!Global
  <2>4. G!NoFile \notin unopened
    BY FileNamesAre DEF G!NoFile, Names
  <2> QED BY <1>7, <2>1, <2>3, <2>4
<1>10. CASE files # <<>>
  <2>1. typed["Filename"] = G!InsertFiles("Filename", files)
    BY <1>3, <1>10 DEF G!MapOf
  <2>2. /\ G!GetConfig("Filename", "global") = files[1].value
        /\ \A v : Has(files, k, v) => G!GetConfig("Filename", k) = v
        /\ (\A v : ~Has(files, k, v)) => G!GetConfig("Filename", k) = files[1].value
    BY <1>1, <1>10, <2>1, FileIs
  <2>3. 1 \in failed <=> files[1].value \in unopened
    BY <1>1, <1>10, ListFacts DEF failed
  <2>4. CASE \E v : Has(files, k, v)
    <3>1. PICK v : Has(files, k, v)
      BY <2>4
    <3>2. \A u : Has(files, k, u) => u = v
      BY <1>1, <3>1
    <3>3. G!GetConfig("Filename", k) = v /\ (k \in forced <=> v \in unopened)
      BY <1>8, <2>2, <3>1, <3>2
    <3> QED BY <1>7, <2>2, <2>3, <3>3
  <2>5. CASE \A v : ~Has(files, k, v)
    <3>1. G!GetConfig("Filename", k) = files[1].value /\ k \notin forced
      BY <1>8, <2>2, <2>5
    <3> QED BY <1>7, <2>2, <2>3, <3>1
  <2> QED BY <2>4, <2>5
<1> QED BY <1>9, <1>10

\* The switches are those of the file from LoadLog on, and the logger keeps the
\* settings made of them.
SwitchInv ==
  /\ section \in {"exists", "http", "bucket", "caffe", "log"} => params.switches = C!Defaults.switches
  /\ section \in {"zmq", "auth", "done"} /\ file.is = "object" =>
       \A k \in LogKeys : params.switches[k] =
         IF file.log[k] \in {"true", "false"} THEN file.log[k] = "true" ELSE k = "info"

LogInv ==
  /\ ConfigInv /\ SwitchInv
  /\ configured => section = "done" /\ typed = G!Build(Configured, unopened) /\ unopened \subseteq G!FileNames

LEMMA SwitchSteps == ConfigInv /\ SwitchInv /\ C!Next => SwitchInv'
<1> SUFFICES ASSUME ConfigInv, SwitchInv, C!Next PROVE SwitchInv'
  OBVIOUS
<1>1. CASE C!GenerateDefaultConfig
  <2>1. params = C!Defaults /\ params' = params /\ section' \in {"done", "dead"}
    BY <1>1 DEF C!GenerateDefaultConfig, ConfigInv
  <2>2. CASE file' = file
    BY <1>1, <2>1, <2>2 DEF C!GenerateDefaultConfig, SwitchInv
  <2>3. CASE file' = C!Generated
    <3>1. \A k \in LogKeys : file'.log[k] = IF k = "info" THEN "true" ELSE "false"
      BY <2>1, <2>3 DEF C!Generated, C!Defaults
    <3>2. \A k \in LogKeys : params'.switches[k] = (k = "info")
      BY <2>1 DEF C!Defaults
    <3> QED BY <2>1, <3>1, <3>2 DEF SwitchInv
  <2>4. CASE file'.is = "broken"
    BY <2>1, <2>4 DEF SwitchInv
  <2> QED BY <1>1, <2>2, <2>3, <2>4 DEF C!GenerateDefaultConfig, C!Truncated
<1>2. CASE C!OpenConfig
  BY <1>2 DEF C!OpenConfig, SwitchInv
<1>3. CASE C!LoadHttp \/ C!LoadBucket \/ C!LoadZmq
  BY <1>3 DEF C!LoadHttp, C!LoadBucket, C!LoadZmq, C!LoadPlain, C!Reported, SwitchInv
<1>4. CASE C!LoadCaffe
  <2>1. params'.switches = params.switches /\ section' \in {"log", "dead"} /\ section = "caffe"
    BY <1>4 DEF C!LoadCaffe, C!LoadPools, C!Reported, ConfigInv, Params
  <2> QED BY <2>1 DEF SwitchInv
<1>5. CASE C!LoadLog
  <2>1. /\ file' = file /\ section' \in {"zmq", "dead"}
        /\ params'.switches = [k \in LogKeys |->
             IF file.log[k] \in {"true", "false"} THEN file.log[k] = "true" ELSE params.switches[k]]
    BY <1>5 DEF C!LoadLog, C!Reported, ConfigInv, Params
  <2>2. \A k \in LogKeys : params.switches[k] = (k = "info")
    BY <1>5 DEF C!LoadLog, SwitchInv, C!Defaults
  <2> QED BY <2>1, <2>2 DEF SwitchInv
<1>6. CASE C!LoadAuth
  <2>1. params'.switches = params.switches /\ section' \in {"done", "dead"} /\ section = "auth" /\ file' = file
    BY <1>6 DEF C!LoadAuth, C!WithPath, C!Reported, ConfigInv, Params
  <2> QED BY <2>1 DEF SwitchInv
<1> QED BY <1>1, <1>2, <1>3, <1>4, <1>5, <1>6 DEF C!Next

LEMMA LogInvInit == BootInit => LogInv
BY ConfigInvInit DEF BootInit, LogInv, SwitchInv, C!Init, G!Init

LEMMA LogInvNext == ServeInv /\ LogInv /\ [BootNext]_bootVars => LogInv'
<1> SUFFICES ASSUME ServeInv, LogInv, [BootNext]_bootVars PROVE LogInv'
  OBVIOUS
<1>c. ConfigInv'
  BY ServeInvNext DEF ServeInv
<1>1. CASE UNCHANGED <<config, logging>>
  <2>1. SwitchInv'
    BY <1>1 DEF config, SwitchInv, LogInv
  <2>2. params' = params /\ typed' = typed /\ configured' = configured /\ section' = section /\ unopened' = unopened
    BY <1>1 DEF config, logging
  <2>3. Configured' = Configured
    BY <2>2 DEF Configured, G!Statements, G!OwnFile
  <2>4. G!Build(Configured, unopened)' = G!Build(Configured, unopened) /\ G!FileNames' = G!FileNames
    BY <2>2, <2>3 DEF G!Build, G!MapOf, G!FileNames, G!Statements, G!OwnFile
  <2> QED BY <1>c, <2>1, <2>2, <2>4 DEF LogInv
<1>2. CASE Configure
  <2>1. section # "done" /\ configured' = configured
    BY <1>2 DEF Configure, logging, C!Next, C!GenerateDefaultConfig, C!OpenConfig, C!LoadHttp, C!LoadBucket,
                C!LoadCaffe, C!LoadLog, C!LoadZmq, C!LoadAuth, C!LoadPlain
  <2>2. SwitchInv'
    BY <1>2, SwitchSteps DEF Configure, LogInv
  <2> QED BY <1>c, <2>1, <2>2 DEF LogInv
<1>3. CASE InitEasylogging
  <2>1. UNCHANGED config /\ section = "done" /\ typed' = G!Build(Configured, unopened') /\ unopened' \subseteq G!FileNames
    BY <1>3 DEF InitEasylogging, G!InitEasylogging, G!Reconfigure, Configured
  <2>2. SwitchInv'
    BY <2>1 DEF config, SwitchInv, LogInv
  <2>3. params' = params /\ section' = section
    BY <2>1 DEF config
  <2>4. Configured' = Configured
    BY <2>3 DEF Configured, G!Statements, G!OwnFile
  <2>5. G!Build(Configured, unopened)' = G!Build(Configured, unopened') /\ G!FileNames' = G!FileNames
    BY <2>3, <2>4 DEF G!Build, G!MapOf, G!FileNames, G!Statements, G!OwnFile
  <2> QED BY <1>c, <2>1, <2>2, <2>3, <2>5 DEF LogInv
<1>4. CASE Restart
  BY <1>c, <1>4 DEF Restart, LogInv, SwitchInv
<1> QED BY <1>1, <1>2, <1>3, <1>4
     DEF BootNext, bootVars, MakeServer, Serve, Exit, LicenseMonitor

LEMMA LogInvImplies == LogInv => LogsAsConfigured
<1> SUFFICES ASSUME LogInv, configured PROVE LogsAsConfigured
  BY DEF LogsAsConfigured
<1>1. params.switches \in [LogKeys -> BOOLEAN] /\ typed = G!Build(Configured, unopened) /\ section = "done" /\ unopened \subseteq G!FileNames
  BY DEF LogInv, ConfigInv, Params
<1>2. G!Levels = LogKeys
  BY DEF G!Levels, G!Range, G!ValidLevels, LogKeys
<1>3. G!LevelsAreAsConfigured
  BY <1>1, <1>2, LevelsAre, OutputIs DEF G!LevelsAreAsConfigured, G!Global
<1>4. G!OwnFiles
  BY <1>1, FilesAre DEF G!OwnFiles, Names
<1>5. G!OthersShareAFile
  <2>1. DOMAIN Names = {"debug", "error", "info"}
    BY DEF Names
  <2>2. {"trace", "fatal", "warning", "verbose"} = LogKeys \ DOMAIN Names
    BY <2>1 DEF LogKeys
  <2> QED BY <1>1, <2>1, <2>2, FilesAre DEF G!OthersShareAFile
<1>6. ASSUME file.is = "object", NEW l \in LogKeys
      PROVE  G!GetConfig("Enabled", l) <=>
               (IF file.log[l] \in {"true", "false"} THEN file.log[l] = "true" ELSE l = "info")
  <2>1. G!GetConfig("Enabled", l) = params.switches[l]
    BY <1>1, LevelsAre
  <2>2. params.switches[l] = IF file.log[l] \in {"true", "false"} THEN file.log[l] = "true" ELSE l = "info"
    BY <1>1, <1>6 DEF LogInv, SwitchInv
  <2> QED BY <2>1, <2>2
<1> QED BY <1>3, <1>4, <1>5, <1>6 DEF LogsAsConfigured

\* Whatever the file says and whichever log files cannot be opened: when the
\* first thread is started every level is on or off as the file has it or by
\* default, and rolls at the size and writes to the file that initEasylogging
\* means it to, or nowhere if that or the first file is not open, although the
\* statements are merged twice, Global sets every level, and most levels have no
\* entry of their own.
THEOREM LogsTheFile == BootSpec => []LogsAsConfigured
<1>1. BootInit => ServeInv /\ LogInv
  BY ServeInvInit, LogInvInit
<1>2. ServeInv /\ LogInv /\ [BootNext]_bootVars => (ServeInv /\ LogInv)'
  BY ServeInvNext, LogInvNext
<1>3. LogInv => LogsAsConfigured
  BY LogInvImplies
<1> QED BY <1>1, <1>2, <1>3, PTL DEF BootSpec
==============================================================================
