----------------------------- MODULE DQueueProofs -----------------------------
(***************************************************************************)
(* For every finite set of workers and every set of messages: DQueue is    *)
(* the task queue it promises to be, and loses no wake-up.                 *)
(*                                                                         *)
(* The inductive invariant adds to TypeOK what ties the threads to the     *)
(* data: only a worker that handles a message has one in hand, and status  *)
(* is set exactly until the caller is in shutdown.  NoLostWakeup is then   *)
(* inductive relative to it: each step that shortens the list, or spends a *)
(* notify or a worker that was about to look, is paid for.                 *)
(***************************************************************************)
EXTENDS DQueue, FiniteSetTheorems, TLAPS

Busy == \A w \in Workers : message[w] # NoItem <=> pc[w] = "handle"
Closed == status <=> caller \in {"serve", "notify", "joined"}

IInv == TypeOK /\ Busy /\ Closed

LEMMA IInvInit == Init => IInv
  BY ItemsAssumption, BoundAssumption
  DEF Init, IInv, TypeOK, Busy, Closed, WorkerPcs, CallerPcs

LEMMA TakeFacts ==
  ASSUME TypeOK, NEW w \in Workers, Take(w)
  PROVE  /\ Head(msg_list) \in Items
         /\ Tail(msg_list) \in Seq(Items)
         /\ Len(msg_list') = Len(msg_list) - 1
         /\ Len(msg_list) \in Nat
  <1>1. msg_list \in Seq(Items) /\ msg_list # <<>> /\ msg_list' = Tail(msg_list)
    BY DEF TypeOK, Take
  <1>. QED
    BY <1>1

LEMMA PushFacts ==
  ASSUME TypeOK, NEW x \in Items, Push(x)
  PROVE  /\ Append(msg_list, x) \in Seq(Items)
         /\ Len(msg_list') = Len(msg_list) + 1
         /\ Len(msg_list) \in Nat
  <1>1. msg_list \in Seq(Items) /\ msg_list' = Append(msg_list, x)
    BY DEF TypeOK, Push
  <1>. QED
    BY <1>1

LEMMA IInvStep == IInv /\ [Next]_vars => IInv'
  <1>. SUFFICES ASSUME IInv, [Next]_vars PROVE IInv'
    OBVIOUS
  <1>. USE DEF IInv, Busy, Closed, WorkerPcs, CallerPcs
  <1>1. ASSUME NEW x \in Items, Push(x) PROVE IInv'
    <2>1. msg_list' \in Seq(Items)
      BY <1>1, PushFacts DEF Push
    <2>. QED
      BY <1>1, <2>1, BoundAssumption DEF TypeOK, Push
  <1>2. CASE NotifyOne
    BY <1>2 DEF TypeOK, NotifyOne, Goto
  <1>3. CASE StopServing
    BY <1>3 DEF TypeOK, StopServing
  <1>4. CASE Shutdown
    BY <1>4 DEF TypeOK, Shutdown
  <1>5. CASE ShutdownUnlock
    BY <1>5 DEF TypeOK, ShutdownUnlock
  <1>6. ASSUME NEW w \in Workers, Take(w) PROVE IInv'
    <2>1. Head(msg_list) \in Items /\ msg_list' \in Seq(Items)
      BY <1>6, TakeFacts DEF Take
    <2>. QED
      BY <1>6, <2>1, ItemsAssumption DEF TypeOK, Take, Goto
  <1>7. ASSUME NEW w \in Workers, Wait(w) PROVE IInv'
    BY <1>7 DEF TypeOK, Wait, Goto
  <1>8. ASSUME NEW w \in Workers, TimeOut(w) PROVE IInv'
    BY <1>8 DEF TypeOK, TimeOut, Goto
  <1>9. ASSUME NEW w \in Workers, SpuriousWake(w) PROVE IInv'
    BY <1>9 DEF TypeOK, SpuriousWake, Goto
  <1>10. ASSUME NEW w \in Workers, GetFails(w) PROVE IInv'
    BY <1>10 DEF TypeOK, GetFails, Goto
  <1>11. ASSUME NEW w \in Workers, Handle(w) PROVE IInv'
    BY <1>11 DEF TypeOK, Handle, Goto
  <1>12. CASE UNCHANGED vars
    BY <1>12 DEF TypeOK, vars
  <1>. QED
    BY <1>1, <1>2, <1>3, <1>4, <1>5, <1>6, <1>7, <1>8, <1>9, <1>10, <1>11, <1>12
    DEF Next, WorkerStep, GetRefused

LEMMA IInvariant == Spec => []IInv
  BY IInvInit, IInvStep, PTL DEF Spec

(* Every thread is in one of the states of its code and every message in     *)
(* hand or in the list is one that was pushed.                               *)
THEOREM TypeCorrect == Spec => []TypeOK
  <1>1. IInv => TypeOK
    BY DEF IInv
  <1>. QED
    BY <1>1, IInvariant, PTL

-----------------------------------------------------------------------------
LEMMA TaskInit == Init => TQ!Init
  BY DEF Init, TQ!Init

LEMMA TaskStep == IInv /\ [Next]_vars => [TQ!Next]_(TQ!vars)
  <1>. SUFFICES ASSUME IInv, [Next]_vars PROVE [TQ!Next]_(TQ!vars)
    OBVIOUS
  <1>. USE DEF TQ!Next, TQ!vars
  <1>0. pc \in [Workers -> WorkerPcs] /\ message \in [Workers -> Items \cup {NoItem}]
    BY DEF IInv, TypeOK
  <1>1. ASSUME NEW x \in Items, Push(x) PROVE TQ!Next
    BY <1>1 DEF Push, TQ!Put, Inside
  <1>2. ASSUME NEW w \in Workers, Take(w) PROVE TQ!Next
    <2>1. message[w] = NoItem
      BY <1>2 DEF IInv, Busy, Take
    <2>2. status \/ w \in Inside
      BY <1>2 DEF Take, Inside
    <2>3. Inside' = Inside \ {w}
      BY <1>0, <1>2 DEF Take, Goto, Inside
    <2>4. TQ!Take(w)
      BY <1>2, <2>1, <2>2, <2>3 DEF Take, TQ!Take
    <2>. QED
      BY <2>4
  <1>3. ASSUME NEW w \in Workers, Handle(w) PROVE TQ!Next
    <2>1. message[w] # NoItem
      BY <1>3 DEF IInv, Busy, Handle
    <2>2. Inside' = Inside
      BY <1>0, <1>3 DEF Handle, Goto, Inside
    <2>3. TQ!Finish(w)
      BY <1>3, <2>1, <2>2 DEF Handle, TQ!Finish
    <2>. QED
      BY <2>3
  <1>4. CASE Shutdown
    <2>1. status /\ ~ status'
      BY <1>4 DEF IInv, Closed, Shutdown
    <2>2. Inside' \in SUBSET {w \in Workers : message[w] = NoItem}
      BY <1>0, <1>4 DEF IInv, Busy, Shutdown, Inside
    <2>3. TQ!Close
      BY <1>4, <2>1, <2>2 DEF Shutdown, TQ!Close
    <2>. QED
      BY <2>3
  <1>5. ASSUME NEW w \in Workers, GetFails(w) PROVE [TQ!Next]_(TQ!vars)
    <2>1. w \in Inside /\ Inside' = Inside \ {w}
      BY <1>0, <1>5 DEF GetFails, Goto, Inside
    <2>2. UNCHANGED <<msg_list, message, status>>
      BY <1>5 DEF GetFails
    <2>3. CASE status
      BY <2>2, <2>3
    <2>4. CASE ~ status
      <3>1. TQ!GiveUp(w)
        BY <2>1, <2>2, <2>4 DEF TQ!GiveUp
      <3>. QED
        BY <3>1
    <2>. QED
      BY <2>3, <2>4
  <1>6. ASSUME NEW w \in Workers, Wait(w) PROVE UNCHANGED TQ!vars
    <2>1. UNCHANGED <<msg_list, message, status>>
      BY <1>6 DEF Wait
    <2>2. status \/ Inside' = Inside
      BY <1>0, <1>6 DEF Wait, Goto, Inside
    <2>. QED
      BY <2>1, <2>2
  <1>7. ASSUME NEW w \in Workers, TimeOut(w) \/ SpuriousWake(w) PROVE UNCHANGED TQ!vars
    <2>1. UNCHANGED <<msg_list, message, status>>
      BY <1>7 DEF TimeOut, SpuriousWake
    <2>2. Inside' = Inside
      BY <1>0, <1>7 DEF TimeOut, SpuriousWake, Goto, Inside
    <2>. QED
      BY <2>1, <2>2
  <1>8. CASE NotifyOne
    <2>1. UNCHANGED <<msg_list, message, status>>
      BY <1>8 DEF NotifyOne
    <2>2. Inside' = Inside
      BY <1>0, <1>8 DEF NotifyOne, Goto, Inside
    <2>. QED
      BY <2>1, <2>2
  <1>9. CASE StopServing \/ ShutdownUnlock \/ UNCHANGED vars
    BY <1>9 DEF StopServing, ShutdownUnlock, vars, Inside
  <1>. QED
    BY <1>1, <1>2, <1>3, <1>4, <1>5, <1>6, <1>7, <1>8, <1>9
    DEF Next, WorkerStep, GetRefused

(* However many workers and messages: while it is open DQueue loses, repeats *)
(* and reorders nothing, and after shutdown each worker takes at most the    *)
(* one message of the get it was already inside of.                          *)
THEOREM QueueIsTaskQueue == Spec => ImplementsTaskQueue
  BY TaskInit, TaskStep, IInvariant, PTL DEF Spec, ImplementsTaskQueue, TQ!Spec
-----------------------------------------------------------------------------
LEMMA LookingFinite == IsFiniteSet(Looking) /\ Cardinality(Looking) \in Nat
  <1>1. Looking \subseteq Workers
    BY DEF Looking
  <1>2. IsFiniteSet(Looking)
    BY <1>1, WorkersAssumption, FS_Subset
  <1>. QED
    BY <1>2, FS_CardinalityType

(* The same of the next state: the bound of Looking there is Workers too. *)
LEMMA LookingFinitePrime == IsFiniteSet(Looking') /\ Cardinality(Looking') \in Nat
  <1>1. Looking' \subseteq Workers
    BY DEF Looking
  <1>2. IsFiniteSet(Looking')
    BY <1>1, WorkersAssumption, FS_Subset
  <1>. QED
    BY <1>2, FS_CardinalityType

LEMMA LookingGrows ==
  ASSUME Looking \subseteq Looking'
  PROVE  Cardinality(Looking) <= Cardinality(Looking')
  BY LookingFinitePrime, FS_Subset

LEMMA LookingGains ==
  ASSUME NEW w, w \notin Looking, Looking' = Looking \cup {w}
  PROVE  Cardinality(Looking') = Cardinality(Looking) + 1
  BY LookingFinite, FS_AddElement

LEMMA LookingLoses ==
  ASSUME NEW w, w \in Looking, Looking' = Looking \ {w}
  PROVE  Cardinality(Looking') = Cardinality(Looking) - 1
  BY LookingFinite, FS_RemoveElement

LEMMA WakeupStep == IInv /\ NoLostWakeup /\ [Next]_vars => NoLostWakeup'
  <1>. SUFFICES ASSUME IInv, NoLostWakeup, [Next]_vars,
                       \E w \in Workers : pc'[w] = "wait"
                PROVE  Len(msg_list') <= Cardinality(Looking') + Notifies'
    BY DEF NoLostWakeup
  <1>. DEFINE Goal == Len(msg_list') <= Cardinality(Looking') + Notifies'
              Before == Len(msg_list) <= Cardinality(Looking) + Notifies
  <1>0. /\ pc \in [Workers -> WorkerPcs]
        /\ Len(msg_list) \in Nat
    BY DEF IInv, TypeOK
  <1>00. /\ Cardinality(Looking) \in Nat /\ Cardinality(Looking') \in Nat
         /\ Notifies \in {0, 1} /\ Notifies' \in {0, 1}
    BY LookingFinite, LookingFinitePrime DEF Notifies
  <1>a. ASSUME \A w \in Workers : pc'[w] = "wait" => pc[w] = "wait" PROVE Before
    BY <1>a DEF NoLostWakeup
  <1>b. ASSUME Before, Len(msg_list') = Len(msg_list), Notifies' = Notifies,
               Looking \subseteq Looking'
        PROVE  Goal
    <2>1. Cardinality(Looking) <= Cardinality(Looking')
      BY <1>b, LookingGrows
    <2>. QED
      BY <1>0, <1>00, <1>b, <2>1
  <1>1. ASSUME NEW x \in Items, Push(x) PROVE Goal
    <2>1. Looking' = Looking /\ Notifies = 0 /\ Notifies' = 1 /\ pc' = pc
      BY <1>1 DEF Push, Looking, Notifies
    <2>2. Before
      BY <1>a, <2>1
    <2>3. Len(msg_list') = Len(msg_list) + 1
      BY <1>1, PushFacts DEF IInv
    <2>. QED
      BY <1>0, <1>00, <2>1, <2>2, <2>3
  <1>2. CASE NotifyOne
    <2>1. PICK w \in Workers : pc[w] = "wait" /\ Goto(w, "woken")
      BY <1>2 DEF NotifyOne
    <2>2. w \notin Looking /\ Looking' = Looking \cup {w}
      BY <1>0, <1>2, <2>1 DEF NotifyOne, Goto, Looking
    <2>3. Cardinality(Looking') = Cardinality(Looking) + 1
      BY <2>2, LookingGains
    <2>4. Before
      BY <2>1 DEF NoLostWakeup
    <2>5. msg_list' = msg_list /\ Notifies = 1 /\ Notifies' = 0
      BY <1>2 DEF NotifyOne, Notifies
    <2>. QED
      BY <1>0, <1>00, <2>3, <2>4, <2>5
  <1>3. CASE StopServing \/ ShutdownUnlock \/ UNCHANGED vars
    <2>1. UNCHANGED <<msg_list, status, pc, Notifies>>
      BY <1>3 DEF StopServing, ShutdownUnlock, vars, Notifies
    <2>2. Looking' = Looking
      BY <2>1 DEF Looking
    <2>3. Before
      BY <1>a, <2>1
    <2>. QED
      BY <1>b, <2>1, <2>2, <2>3
  <1>4. CASE Shutdown
    BY <1>0, <1>4 DEF Shutdown
  <1>5. ASSUME NEW w \in Workers, Take(w) PROVE Goal
    <2>1. w \in Looking /\ Looking' = Looking \ {w}
      BY <1>0, <1>5 DEF Take, Goto, Looking
    <2>2. Cardinality(Looking') = Cardinality(Looking) - 1
      BY <2>1, LookingLoses
    <2>3. Before
      BY <1>0, <1>5, <1>a DEF Take, Goto
    <2>4. Len(msg_list') = Len(msg_list) - 1 /\ Notifies' = Notifies
      BY <1>5, TakeFacts DEF IInv, Take, Notifies
    <2>. QED
      BY <1>0, <1>00, <2>2, <2>3, <2>4
  <1>6. ASSUME NEW w \in Workers, Wait(w) \/ GetFails(w) PROVE Goal
    <2>1. msg_list' = <<>>
      BY <1>6 DEF Wait, GetFails
    <2>. QED
      BY <1>00, <2>1
  <1>7. ASSUME NEW w \in Workers, TimeOut(w) \/ SpuriousWake(w) \/ Handle(w) PROVE Goal
    <2>1. /\ msg_list' = msg_list /\ status' = status /\ Notifies' = Notifies
          /\ \A v \in Workers : pc'[v] = "wait" => pc[v] = "wait"
      BY <1>0, <1>7 DEF TimeOut, SpuriousWake, Handle, Goto, Notifies
    <2>2. Looking \subseteq Looking'
      BY <1>0, <1>7 DEF TimeOut, SpuriousWake, Handle, Goto, Looking
    <2>. QED
      BY <1>a, <1>b, <2>1, <2>2
  <1>. QED
    BY <1>1, <1>2, <1>3, <1>4, <1>5, <1>6, <1>7 DEF Next, WorkerStep, GetRefused

(* However many workers: while one of them is parked, no message of the list *)
(* is without a notify or a worker on its way to it.                         *)
THEOREM NoWakeupIsLost == Spec => []NoLostWakeup
  <1>1. Init => NoLostWakeup
    BY DEF Init, NoLostWakeup
  <1>. QED
    BY <1>1, WakeupStep, IInvariant, PTL DEF Spec
=============================================================================
