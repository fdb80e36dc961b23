-------------------------------- MODULE DQueue --------------------------------
(***************************************************************************)
(* MQ::DQueue and its Worker threads (Queue.cpp): a deque under a mutex    *)
(* with one condition variable.  get waits for at most time_ms; it tests   *)
(* status before the wait and never again.                                 *)
(*                                                                         *)
(* One thread, the ZmqWorker's, pushes; the main thread calls shutdown     *)
(* after it has joined that thread.  The module calls both the caller.     *)
(* A step of a thread is what it does with the mutex held; shutdown, which *)
(* visits the workers with the mutex held, is two.                         *)
(***************************************************************************)
EXTENDS Naturals, Sequences, FiniteSets

CONSTANTS
  Workers,     \* the Worker threads of the queue
  Items,       \* the messages
  MaxPushes,   \* bound on the calls of push
  NoItem       \* no message in hand

ASSUME WorkersAssumption == IsFiniteSet(Workers)
ASSUME ItemsAssumption == NoItem \notin Items
ASSUME BoundAssumption == MaxPushes \in Nat

VARIABLES
  msg_list,   \* the messages waiting
  status,     \* cleared by shutdown
  mtx,        \* "free", or "caller" while shutdown holds it
  pc,         \* pc[w]: where worker w is
  message,    \* message[w]: the message w is handling
  caller,     \* where the pushing, later shutting-down thread is
  pushes      \* calls of push so far

vars == <<msg_list, status, mtx, pc, message, caller, pushes>>

\* "get": about to lock mtx in get; "wait": parked in wait_for; "woken" and
\* "timedOut": about to lock mtx again inside wait_for and test the predicate,
\* for the last time if the time is up; "handle": get returned true.
WorkerPcs == {"get", "wait", "woken", "timedOut", "handle"}
CallerPcs == {"serve", "notify", "joined", "shutdown", "done"}

Goto(w, to) == pc' = [pc EXCEPT ![w] = to]

Init ==
  /\ msg_list = <<>>
  /\ status = TRUE
  /\ mtx = "free"
  /\ pc = [w \in Workers |-> "get"]
  /\ message = [w \in Workers |-> NoItem]
  /\ caller = "serve"
  /\ pushes = 0

-----------------------------------------------------------------------------
(* The caller: push, then shutdown. *)

Push(x) ==
  /\ caller = "serve" /\ mtx = "free"
  /\ pushes < MaxPushes
  /\ pushes' = pushes + 1
  /\ msg_list' = Append(msg_list, x)
  /\ caller' = "notify"
  /\ UNCHANGED <<status, mtx, pc, message>>

\* Mutant: push does not notify.
PushSilently ==
  /\ caller = "notify"
  /\ caller' = "serve"
  /\ UNCHANGED <<msg_list, status, mtx, pc, message, pushes>>

\* notify_one, after the unlock.
NotifyOne ==
  /\ caller = "notify"
  /\ \/ (\A w \in Workers : pc[w] # "wait") /\ UNCHANGED pc
     \/ \E w \in Workers : pc[w] = "wait" /\ Goto(w, "woken")
  /\ caller' = "serve"
  /\ UNCHANGED <<msg_list, status, mtx, message, pushes>>

\* The ZmqWorker thread has ended and the main thread has joined it.
StopServing ==
  /\ caller = "serve"
  /\ caller' = "joined"
  /\ UNCHANGED <<msg_list, status, mtx, pc, message, pushes>>

\* status is cleared and everybody woken with the mutex held.
Shutdown ==
  /\ caller = "joined" /\ mtx = "free"
  /\ mtx' = "caller"
  /\ status' = FALSE
  /\ pc' = [w \in Workers |-> IF pc[w] = "wait" THEN "woken" ELSE pc[w]]
  /\ caller' = "shutdown"
  /\ UNCHANGED <<msg_list, message, pushes>>

\* Mutant: the test of the worker pointers is put right, and with it every
\* worker is joined while the mutex is held.
ShutdownJoins ==
  /\ caller = "shutdown"
  /\ \A w \in Workers : pc[w] = "ended"
  /\ mtx' = "free"
  /\ caller' = "done"
  /\ UNCHANGED <<msg_list, status, pc, message, pushes>>

\* The test of the worker pointers is inverted: no worker is shut down, none
\* is joined, and Worker::status stays true.
ShutdownUnlock ==
  /\ caller = "shutdown"
  /\ mtx' = "free"
  /\ caller' = "done"
  /\ UNCHANGED <<msg_list, status, pc, message, pushes>>

-----------------------------------------------------------------------------
(* Worker::run and get. *)

\* Mutant: a worker that calls get does not look at status.
TakeWhenClosed(w) ==
  /\ mtx = "free"
  /\ pc[w] \in {"get", "woken", "timedOut"}
  /\ msg_list # <<>>
  /\ message' = [message EXCEPT ![w] = Head(msg_list)]
  /\ msg_list' = Tail(msg_list)
  /\ Goto(w, "handle")
  /\ UNCHANGED <<status, mtx, caller, pushes>>

Take(w) ==
  /\ mtx = "free"
  /\ pc[w] \in {"get", "woken", "timedOut"}
  /\ pc[w] = "get" => status
  /\ msg_list # <<>>
  /\ message' = [message EXCEPT ![w] = Head(msg_list)]
  /\ msg_list' = Tail(msg_list)
  /\ Goto(w, "handle")
  /\ UNCHANGED <<status, mtx, caller, pushes>>

Wait(w) ==
  /\ mtx = "free"
  /\ msg_list = <<>>
  /\ \/ pc[w] = "get" /\ status
     \/ pc[w] = "woken"
  /\ Goto(w, "wait")
  /\ UNCHANGED <<msg_list, status, mtx, message, caller, pushes>>

TimeOut(w) ==
  /\ pc[w] = "wait"
  /\ Goto(w, "timedOut")
  /\ UNCHANGED <<msg_list, status, mtx, message, caller, pushes>>

\* A condition variable may wake a thread without a notify.
SpuriousWake(w) ==
  /\ pc[w] = "wait"
  /\ Goto(w, "woken")
  /\ UNCHANGED <<msg_list, status, mtx, message, caller, pushes>>

\* Mutant: the worker's loop ends when get returns false.
GetFailsForGood(w) ==
  /\ mtx = "free"
  /\ pc[w] = "timedOut" /\ msg_list = <<>>
  /\ Goto(w, "ended")
  /\ UNCHANGED <<msg_list, status, mtx, message, caller, pushes>>

\* wait_for returns false, get returns false, the worker calls it again.
GetFails(w) ==
  /\ mtx = "free"
  /\ pc[w] = "timedOut" /\ msg_list = <<>>
  /\ Goto(w, "get")
  /\ UNCHANGED <<msg_list, status, mtx, message, caller, pushes>>

\* get returns false at once; Worker::status is still true, so the worker
\* calls it again: after shutdown every worker spins here.
GetRefused(w) ==
  /\ mtx = "free"
  /\ pc[w] = "get" /\ ~ status
  /\ UNCHANGED vars

\* handler->handle and message.call, outside the mutex.
Handle(w) ==
  /\ pc[w] = "handle"
  /\ message' = [message EXCEPT ![w] = NoItem]
  /\ Goto(w, "get")
  /\ UNCHANGED <<msg_list, status, mtx, caller, pushes>>

WorkerStep(w) == Take(w) \/ Wait(w) \/ TimeOut(w) \/ GetFails(w) \/ Handle(w)

Next ==
  \/ \E x \in Items : Push(x)
  \/ NotifyOne \/ StopServing \/ Shutdown \/ ShutdownUnlock
  \/ \E w \in Workers : WorkerStep(w) \/ SpuriousWake(w) \/ GetRefused(w)

Spec == Init /\ [][Next]_vars

\* Threads keep running and wait_for returns when its time is up.  The caller
\* need not push nor stop serving; once it has, it calls shutdown.
FairSpec ==
  /\ Spec
  /\ \A w \in Workers : WF_vars(WorkerStep(w))
  /\ WF_vars(NotifyOne) /\ WF_vars(Shutdown) /\ WF_vars(ShutdownUnlock)

-----------------------------------------------------------------------------
(* Properties. *)

TypeOK ==
  /\ msg_list \in Seq(Items)
  /\ status \in BOOLEAN
  /\ mtx \in {"free", "caller"}
  /\ pc \in [Workers -> WorkerPcs]
  /\ message \in [Workers -> Items \cup {NoItem}]
  /\ caller \in CallerPcs
  /\ pushes \in 0 .. MaxPushes

\* The workers inside wait_for, past the test of status.
Inside == {w \in Workers : pc[w] \in {"wait", "woken", "timedOut"}}

TQ == INSTANCE TaskQueue
        WITH tasks <- msg_list, hand <- message, open <- status,
             late <- IF status THEN {} ELSE Inside

\* DQueue is a first-in first-out task queue: no message is lost, repeated or
\* reordered while it is open.  Once shutdown has cleared status a worker
\* takes at most the one message of the get it was already inside of.
ImplementsTaskQueue == TQ!Spec

\* The workers about to look at the list.
Looking == {w \in Workers : pc[w] \in {"woken", "timedOut"} \/ (pc[w] = "get" /\ status)}
Notifies == IF caller = "notify" THEN 1 ELSE 0

\* While a worker is parked, each waiting message has a notify on its way or
\* a worker about to look at the list: no message waits for a time-out or for
\* a busy worker, although notify_one follows the unlock and may hit a worker
\* that finds the list empty.
NoLostWakeup ==
  (\E w \in Workers : pc[w] = "wait") => Len(msg_list) <= Cardinality(Looking) + Notifies

\* A message that waits is taken, unless the queue is shut down.
MessagesAreTaken ==
  \A n \in 1 .. MaxPushes :
    (Len(msg_list) = n ~> Len(msg_list) # n \/ caller \notin {"serve", "notify"})

\* shutdown returns whatever the workers are doing, although it visits them
\* with the mutex they need.
ShutdownReturns == caller \in {"joined", "shutdown"} ~> caller = "done"
=============================================================================
