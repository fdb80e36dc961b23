-------------------------------- MODULE Startup --------------------------------
(***************************************************************************)
(* How the verifier comes up: ZmqServer's constructor makes one DQueue per *)
(* configured interface, each DQueue starts its Workers, each Worker asks  *)
(* the HandlerFactory singleton for a handler of its own, and only then    *)
(* start() runs the ZmqWorker thread that reads requests.  The workers of  *)
(* the first pools run while the main thread makes the next ones.  Boot    *)
(* says how the process gets here.                                         *)
(***************************************************************************)
EXTENDS Naturals, Sequences, FiniteSets

CONSTANTS
  Interfaces,   \* the interfaces in the order of the constructor
  MaxWorkers,   \* bound on the size of a pool
  MaxFailures   \* bound on threads that cannot be created

ASSUME SizesAssumption == MaxWorkers \in Nat /\ MaxFailures \in Nat

Pools == DOMAIN Interfaces
Workers == Pools \X (1 .. MaxWorkers)
Main == <<0, 0>>
Threads == Workers \cup {Main}

VARIABLES
  size,       \* size[k]: workers configured for pool k, 0 also if not built
  pool,       \* the pool the main thread is making
  factory,    \* how often HandlerFactory::factory has been set
  mtx,        \* the workers that hold the factory's mutex
  pc,         \* where the main thread and the workers are, "none" before the start
  registered, \* the pools in the dispatcher
  zmq,        \* where the ZmqWorker thread is
  failures

vars == <<size, pool, factory, mtx, pc, registered, zmq, failures>>

Alive == pc[Main] # "dead"
Started(k) == {i \in 1 .. MaxWorkers : pc[<<k, i>>] # "none"}
Goto(t, to) == pc' = [pc EXCEPT ![t] = to]

-----------------------------------------------------------------------------
(* The main thread: the constructors. *)

\* Mutant: DQueue's constructor leaves the first call of instance to its
\* workers.
SkipInstance ==
  /\ pc[Main] = "pool" /\ pool \in Pools
  /\ IF size[pool] > 0 THEN Goto(Main, "spawn") /\ UNCHANGED pool
                       ELSE pool' = pool + 1 /\ UNCHANGED pc
  /\ UNCHANGED <<size, factory, mtx, registered, zmq, failures>>

\* A pool without workers is neither made nor registered.
BeginPool ==
  /\ pc[Main] = "pool" /\ pool \in Pools
  /\ IF size[pool] > 0 THEN Goto(Main, "instance") /\ UNCHANGED pool
                       ELSE pool' = pool + 1 /\ UNCHANGED pc
  /\ UNCHANGED <<size, factory, mtx, registered, zmq, failures>>

\* HandlerFactory::instance tests the pointer and then sets it; no lock.
AfterInstance(t) == IF t = Main THEN "spawn" ELSE "create"

InstanceTests(t) ==
  /\ Alive /\ pc[t] = "instance"
  /\ Goto(t, IF factory = 0 THEN "reset" ELSE AfterInstance(t))
  /\ UNCHANGED <<size, pool, factory, mtx, registered, zmq, failures>>

InstanceResets(t) ==
  /\ Alive /\ pc[t] = "reset"
  /\ factory' = factory + 1
  /\ Goto(t, AfterInstance(t))
  /\ UNCHANGED <<size, pool, mtx, registered, zmq, failures>>

Spawn ==
  /\ pc[Main] = "spawn" /\ Cardinality(Started(pool)) < size[pool]
  /\ Goto(<<pool, Cardinality(Started(pool)) + 1>>, "instance")
  /\ UNCHANGED <<size, pool, factory, mtx, registered, zmq, failures>>

\* A thread cannot be created: the exception is caught and logged, and the
\* queue goes on with the workers it has, possibly none.
SpawnFails ==
  /\ pc[Main] = "spawn" /\ Cardinality(Started(pool)) < size[pool]
  /\ failures < MaxFailures
  /\ failures' = failures + 1
  /\ Goto(Main, "register")
  /\ UNCHANGED <<size, pool, factory, mtx, registered, zmq>>

AllSpawned ==
  /\ pc[Main] = "spawn" /\ Cardinality(Started(pool)) = size[pool]
  /\ Goto(Main, "register")
  /\ UNCHANGED <<size, pool, factory, mtx, registered, zmq, failures>>

RegisterDq ==
  /\ pc[Main] = "register"
  /\ registered' = registered \cup {pool}
  /\ Goto(Main, "pool") /\ pool' = pool + 1
  /\ UNCHANGED <<size, factory, mtx, zmq, failures>>

-----------------------------------------------------------------------------
(* start and shutdown, and the ZmqWorker thread. *)

Start ==
  /\ pc[Main] = "pool" /\ pool \notin Pools
  /\ Goto(Main, "join") /\ zmq' = "connect"
  /\ UNCHANGED <<size, pool, factory, mtx, registered, failures>>

ZmqConnect ==
  /\ Alive /\ zmq = "connect"
  /\ zmq' \in {"bind", "ended"}
  /\ UNCHANGED <<size, pool, factory, mtx, pc, registered, failures>>

\* The inproc address is bound before the sender is made, which connects to it.
ZmqBind ==
  /\ Alive /\ zmq = "bind"
  /\ zmq' \in {"serving", "ended"}
  /\ UNCHANGED <<size, pool, factory, mtx, pc, registered, failures>>

\* ZmqWorker is gone: start returns, and shutdownDq uses the null pointer of
\* MONITOR, which is never registered.
JoinAndShutdown ==
  /\ pc[Main] = "join" /\ zmq = "ended"
  /\ Goto(Main, "dead")
  /\ UNCHANGED <<size, pool, factory, mtx, registered, zmq, failures>>

-----------------------------------------------------------------------------
(* A Worker thread, up to its loop. *)

Create(w) ==
  /\ Alive /\ pc[w] = "create" /\ mtx = {}
  /\ mtx' = {w}
  /\ Goto(w, "creating")
  /\ UNCHANGED <<size, pool, factory, registered, zmq, failures>>

Created(w) ==
  /\ Alive /\ pc[w] = "creating"
  /\ mtx' = {}
  /\ Goto(w, "serving")
  /\ UNCHANGED <<size, pool, factory, registered, zmq, failures>>

\* A handler that cannot load its model ends the process: nothing catches an
\* exception of a Worker thread.
CreateThrows(w) ==
  /\ Alive /\ pc[w] = "creating"
  /\ Goto(Main, "dead")
  /\ UNCHANGED <<size, pool, factory, mtx, registered, zmq, failures>>

-----------------------------------------------------------------------------
MainStep ==
  \/ BeginPool \/ Spawn \/ SpawnFails \/ AllSpawned \/ RegisterDq
  \/ Start \/ JoinAndShutdown
ZmqStep == ZmqConnect \/ ZmqBind
ThreadStep(t) == InstanceTests(t) \/ InstanceResets(t) \/ Create(t) \/ Created(t) \/ CreateThrows(t)

Next == MainStep \/ ZmqStep \/ \E t \in Threads : ThreadStep(t)

-----------------------------------------------------------------------------
(* Properties. *)

\* instance takes no lock.  All the same nobody else is about to read or to
\* set the singleton while one thread is about to set it, and it is set once:
\* the first DQueue sets it before it starts a worker, and every later thread
\* finds it set.
FactorySetAlone ==
  /\ factory <= 1
  /\ \A t, u \in Threads : pc[t] = "reset" /\ pc[u] \in {"instance", "reset"} => t = u

\* Models are loaded one at a time, under the factory's mutex, which is free
\* when nobody loads.
OneLoadAtATime ==
  /\ Cardinality(mtx) <= 1
  /\ {w \in Workers : pc[w] = "creating"} = mtx
=============================================================================
