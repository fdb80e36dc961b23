-------------------------------- MODULE BQueue --------------------------------
(***************************************************************************)
(* MQ::BQueue (Queue.cpp): a ring buffer of Capacity slots under a mutex,  *)
(* with the condition variables notFull and notEmpty.  dev::BlockingQueue  *)
(* (blockQueue.h) is the same algorithm.                                   *)
(*                                                                         *)
(* A step of a thread is what it does with the mutex held, or the notify   *)
(* it does after unlocking.  A thread that waits on a condition variable   *)
(* goes back for the mutex when it is notified, when its time is up, or    *)
(* for no reason at all, and then tests the predicate again.               *)
(***************************************************************************)
EXTENDS Integers, Sequences, FiniteSets

CONSTANTS
  Producers,   \* the threads that push
  Consumers,   \* the threads that get (the pool's Workers)
  Items,       \* the messages
  Capacity,    \* number of slots
  MaxPushes,   \* bound on the calls of push
  NoItem       \* a default-constructed message

ASSUME CapacityAssumption == Capacity \in Nat \ {0}
ASSUME ThreadsAssumption == /\ Producers \cap Consumers = {}
                            /\ IsFiniteSet(Producers) /\ IsFiniteSet(Consumers)
ASSUME BoundAssumption == MaxPushes \in Nat
ASSUME ItemsAssumption == NoItem \notin Items

Slots == 0 .. Capacity - 1
Threads == Producers \cup Consumers

VARIABLES
  queue,    \* the ring buffer
  head,     \* index of the oldest message
  tail,     \* index of the first free slot
  pc,       \* what each thread is at
  item,     \* item[p]: the argument of p's push
  msg,      \* msg[c]: the message c's last successful get returned
  pushes    \* calls of push so far

vars == <<queue, head, tail, pc, item, msg, pushes>>

\* "push", "get", "getNow": about to lock mtx and test the predicate;
\* "waitPush", "waitGet", "waitGetNow": parked on the condition variable;
\* "timedOut": wait_for has run out, about to lock mtx for the last test;
\* "notify": the message is moved, the other side not yet notified.
ProducerPcs == {"idle", "push", "waitPush", "notify"}
ConsumerPcs == {"idle", "get", "getNow", "waitGet", "waitGetNow", "timedOut", "notify"}

Goto(t, to) == pc' = [pc EXCEPT ![t] = to]

Full == (tail + 1) % Capacity = head
Empty == head = tail

Init ==
  /\ queue = [i \in Slots |-> NoItem]
  /\ head = 0 /\ tail = 0
  /\ pc = [t \in Threads |-> "idle"]
  /\ item = [p \in Producers |-> NoItem]
  /\ msg = [c \in Consumers |-> NoItem]
  /\ pushes = 0

-----------------------------------------------------------------------------
(* push *)

PushCall(p) ==
  /\ pc[p] = "idle"
  /\ pushes < MaxPushes
  /\ pushes' = pushes + 1
  /\ \E x \in Items : item' = [item EXCEPT ![p] = x]
  /\ Goto(p, "push")
  /\ UNCHANGED <<queue, head, tail, msg>>

PushWaits(p) ==
  /\ pc[p] = "push"
  /\ Full
  /\ Goto(p, "waitPush")
  /\ UNCHANGED <<queue, head, tail, item, msg, pushes>>

Push(p) ==
  /\ pc[p] = "push"
  /\ ~ Full
  /\ queue' = [queue EXCEPT ![tail] = item[p]]
  /\ tail' = (tail + 1) % Capacity
  /\ Goto(p, "notify")
  /\ UNCHANGED <<head, item, msg, pushes>>

\* notify_one wakes one of the threads parked on the condition variable.
WakeOne(t, parked, entry) ==
  LET S == {u \in Threads : pc[u] \in parked} IN
    \/ /\ S = {}
       /\ Goto(t, "idle")
    \/ \E u \in S : pc' = [pc EXCEPT ![t] = "idle", ![u] = entry[pc[u]]]

Reenter == [waitPush |-> "push", waitGet |-> "get", waitGetNow |-> "getNow"]

\* Mutant: push does not notify.
NotifyNobody(p) ==
  /\ pc[p] = "notify"
  /\ Goto(p, "idle")
  /\ UNCHANGED <<queue, head, tail, item, msg, pushes>>

NotifyNotEmpty(p) ==
  /\ pc[p] = "notify"
  /\ WakeOne(p, {"waitGet", "waitGetNow"}, Reenter)
  /\ UNCHANGED <<queue, head, tail, item, msg, pushes>>

-----------------------------------------------------------------------------
(* get and getNow *)

GetCall(c) ==
  /\ pc[c] = "idle"
  /\ Goto(c, "get") \/ Goto(c, "getNow")
  /\ UNCHANGED <<queue, head, tail, item, msg, pushes>>

GetWaits(c) ==
  /\ Empty
  /\ \/ pc[c] = "get" /\ Goto(c, "waitGet")
     \/ pc[c] = "getNow" /\ Goto(c, "waitGetNow")
  /\ UNCHANGED <<queue, head, tail, item, msg, pushes>>

\* Mutant: a waiting consumer takes without testing the predicate again.
GetUnchecked(c) ==
  /\ pc[c] \in {"get", "getNow", "timedOut"}
  /\ msg' = [msg EXCEPT ![c] = queue[head]]
  /\ head' = (head + 1) % Capacity
  /\ Goto(c, "notify")
  /\ UNCHANGED <<queue, tail, item, pushes>>

Get(c) ==
  /\ pc[c] \in {"get", "getNow", "timedOut"}
  /\ ~ Empty
  /\ msg' = [msg EXCEPT ![c] = queue[head]]
  /\ head' = (head + 1) % Capacity
  /\ Goto(c, "notify")
  /\ UNCHANGED <<queue, tail, item, pushes>>

TimeOut(c) ==
  /\ pc[c] = "waitGet"
  /\ Goto(c, "timedOut")
  /\ UNCHANGED <<queue, head, tail, item, msg, pushes>>

\* wait_for returned with the predicate false: get returns false.
GetFails(c) ==
  /\ pc[c] = "timedOut"
  /\ Empty
  /\ Goto(c, "idle")
  /\ UNCHANGED <<queue, head, tail, item, msg, pushes>>

\* Mutant: get notifies notEmpty instead of notFull.
NotifyWrongSide(c) ==
  /\ pc[c] = "notify"
  /\ WakeOne(c, {"waitGet", "waitGetNow"}, Reenter)
  /\ UNCHANGED <<queue, head, tail, item, msg, pushes>>

NotifyNotFull(c) ==
  /\ pc[c] = "notify"
  /\ WakeOne(c, {"waitPush"}, Reenter)
  /\ UNCHANGED <<queue, head, tail, item, msg, pushes>>

-----------------------------------------------------------------------------
\* A condition variable may wake a thread without a notify.
SpuriousWake(t) ==
  /\ pc[t] \in DOMAIN Reenter
  /\ Goto(t, Reenter[pc[t]])
  /\ UNCHANGED <<queue, head, tail, item, msg, pushes>>

\* shutdown only wakes everybody: no flag says that the queue is closed, and
\* its test of the worker pointers is inverted, so no worker is stopped.
Shutdown ==
  /\ pc' = [t \in Threads |-> IF pc[t] \in DOMAIN Reenter THEN Reenter[pc[t]] ELSE pc[t]]
  /\ UNCHANGED <<queue, head, tail, item, msg, pushes>>

ProducerStep(p) == PushWaits(p) \/ Push(p) \/ NotifyNotEmpty(p)
ConsumerStep(c) == \/ GetCall(c) \/ GetWaits(c) \/ Get(c)
                   \/ TimeOut(c) \/ GetFails(c) \/ NotifyNotFull(c)

Next ==
  \/ \E p \in Producers : PushCall(p) \/ ProducerStep(p)
  \/ \E c \in Consumers : ConsumerStep(c)
  \/ \E t \in Threads : SpuriousWake(t)
  \/ Shutdown

Spec == Init /\ [][Next]_vars

\* A producer that called push keeps running, a worker calls get again and
\* again.  Nothing is assumed of spurious wake-ups, and nobody has to push.
FairSpec ==
  /\ Spec
  /\ \A p \in Producers : WF_vars(ProducerStep(p))
  /\ \A c \in Consumers : WF_vars(ConsumerStep(c))

-----------------------------------------------------------------------------
(* Properties. *)

TypeOK ==
  /\ queue \in [Slots -> Items \cup {NoItem}]
  /\ head \in Slots /\ tail \in Slots
  /\ \A p \in Producers : pc[p] \in ProducerPcs
  /\ \A c \in Consumers : pc[c] \in ConsumerPcs
  /\ DOMAIN pc = Threads
  /\ item \in [Producers -> Items \cup {NoItem}]
  /\ \A p \in Producers : pc[p] \in {"push", "waitPush"} => item[p] \in Items
  /\ msg \in [Consumers -> Items \cup {NoItem}]
  /\ pushes \in 0 .. MaxPushes

\* The number of messages in the buffer and where the i-th oldest of them is.
Count == IF head <= tail THEN tail - head ELSE tail - head + Capacity
SlotOf(i) == IF head + i - 1 < Capacity THEN head + i - 1 ELSE head + i - 1 - Capacity
Contents == [i \in 1 .. Count |-> queue[SlotOf(i)]]

BF == INSTANCE BoundedFifo WITH fifo <- Contents, hand <- msg, Bound <- Capacity - 1

\* The ring buffer is a first-in first-out queue of at most Capacity-1
\* messages: wrapping around, time-outs and spurious wake-ups neither lose,
\* repeat, reorder nor overwrite a message.
ImplementsBoundedFifo == BF!Spec

At(T, places) == Cardinality({t \in T : pc[t] \in places})

\* No wake-up is lost: while a producer is parked, each free slot has a
\* producer about to fill it or a consumer about to notify, and while a
\* consumer is parked, each message has a consumer about to take it or a
\* producer about to notify; although notify_one follows the unlock and may
\* hit a thread that finds the predicate false.
NoLostWakeup ==
  /\ (\E p \in Producers : pc[p] = "waitPush")
       => Capacity - 1 - Count <= At(Producers, {"push"}) + At(Consumers, {"notify"})
  /\ (\E c \in Consumers : pc[c] \in {"waitGet", "waitGetNow"})
       => Count <= At(Consumers, {"get", "getNow", "timedOut"}) + At(Producers, {"notify"})

\* Neither side waits for ever: a message does not stay at the head of the
\* queue, even when every consumer uses getNow and only a notify can wake it,
\* and a blocked push gets through, because the workers make room and wake it.
BothSidesMove ==
  /\ \A i \in Slots : (~ Empty /\ head = i) ~> head # i
  /\ \A p \in Producers : pc[p] = "push" ~> pc[p] = "idle"
=============================================================================
