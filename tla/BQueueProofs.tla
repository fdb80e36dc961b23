----------------------------- MODULE BQueueProofs -----------------------------
(***************************************************************************)
(* For every capacity, every set of threads and every set of messages the  *)
(* ring buffer of BQueue is a bounded first-in first-out queue.            *)
(*                                                                         *)
(* TypeOK is inductive as it stands: it says that head and tail are slots  *)
(* and that a producer about to push carries a message.  Under it the two  *)
(* moves of the buffer are those of BoundedFifo (lemmas PushAppends and    *)
(* GetTakesHead), and every other step leaves the buffer alone.            *)
(*                                                                         *)
(* NoLostWakeup is inductive relative to it.  Both halves are accounts:    *)
(* the free slots against the producers about to push and the consumers    *)
(* about to notify, the messages against the consumers about to take and   *)
(* the producers about to notify; every step that raises the one side      *)
(* raises the other with it, or wakes the last thread that was parked.     *)
(***************************************************************************)
EXTENDS BQueue, FiniteSetTheorems, TLAPS

(* The next slot: the modulus only matters at the end of the buffer. *)
LEMMA NextSlot ==
  ASSUME NEW i \in Slots
  PROVE  /\ (i + 1) % Capacity \in Slots
         /\ (i + 1) % Capacity = IF i + 1 = Capacity THEN 0 ELSE i + 1
  BY CapacityAssumption DEF Slots

(* notify_one moves threads only between the states of TypeOK. *)
LEMMA WakeOneType ==
  ASSUME TypeOK, NEW t \in Threads,
         NEW parked \in SUBSET {"waitPush", "waitGet", "waitGetNow"},
         WakeOne(t, parked, Reenter)
  PROVE  /\ DOMAIN pc' = Threads
         /\ \A p \in Producers : pc'[p] \in ProducerPcs
         /\ \A c \in Consumers : pc'[c] \in ConsumerPcs
         /\ \A p \in Producers : pc'[p] = "push" => pc[p] \in {"push", "waitPush"}
         /\ \A p \in Producers : pc'[p] = "waitPush" => pc[p] = "waitPush"
  <1>1. CASE Goto(t, "idle")
    BY <1>1 DEF TypeOK, Goto, Threads, ProducerPcs, ConsumerPcs
  <1>2. ASSUME NEW u \in Threads, pc[u] \in parked,
               pc' = [pc EXCEPT ![t] = "idle", ![u] = Reenter[pc[u]]]
        PROVE  /\ DOMAIN pc' = Threads
               /\ \A p \in Producers : pc'[p] \in ProducerPcs
               /\ \A c \in Consumers : pc'[c] \in ConsumerPcs
               /\ \A p \in Producers : pc'[p] = "push" => pc[p] \in {"push", "waitPush"}
               /\ \A p \in Producers : pc'[p] = "waitPush" => pc[p] = "waitPush"
    <2>1. pc[u] \in {"waitPush", "waitGet", "waitGetNow"}
      BY <1>2
    <2>2. \A x \in Threads : pc'[x] = IF x = u THEN Reenter[pc[u]]
                                      ELSE IF x = t THEN "idle" ELSE pc[x]
      BY <1>2 DEF TypeOK
    <2>3. /\ u \in Producers => pc[u] = "waitPush" /\ Reenter[pc[u]] = "push"
          /\ u \in Consumers => Reenter[pc[u]] \in {"get", "getNow"}
      BY <2>1 DEF TypeOK, Reenter, ProducerPcs, ConsumerPcs
    <2>4. DOMAIN pc' = Threads
      BY <1>2 DEF TypeOK
    <2>. QED
      BY <2>2, <2>3, <2>4 DEF TypeOK, Threads, ProducerPcs, ConsumerPcs
  <1>. QED
    BY <1>1, <1>2 DEF WakeOne

LEMMA TypeInit == Init => TypeOK
  BY CapacityAssumption, ThreadsAssumption, BoundAssumption
  DEF Init, TypeOK, Slots, Threads, ProducerPcs, ConsumerPcs

LEMMA TypeStep == TypeOK /\ [Next]_vars => TypeOK'
  <1>. SUFFICES ASSUME TypeOK, [Next]_vars PROVE TypeOK'
    OBVIOUS
  <1>. USE ThreadsAssumption, BoundAssumption DEF Threads
  <1>1. ASSUME NEW p \in Producers, PushCall(p) PROVE TypeOK'
    BY <1>1 DEF TypeOK, PushCall, Goto, ProducerPcs
  <1>2. ASSUME NEW p \in Producers, PushWaits(p) PROVE TypeOK'
    BY <1>2 DEF TypeOK, PushWaits, Goto, ProducerPcs
  <1>3. ASSUME NEW p \in Producers, Push(p) PROVE TypeOK'
    <2>1. tail' \in Slots
      BY <1>3, NextSlot DEF TypeOK, Push
    <2>2. queue' \in [Slots -> Items \cup {NoItem}]
      BY <1>3 DEF TypeOK, Push
    <2>. QED
      BY <1>3, <2>1, <2>2 DEF TypeOK, Push, Goto, ProducerPcs
  <1>4. ASSUME NEW p \in Producers, NotifyNotEmpty(p) PROVE TypeOK'
    <2>1. WakeOne(p, {"waitGet", "waitGetNow"}, Reenter)
      BY <1>4 DEF NotifyNotEmpty
    <2>. QED
      BY <1>4, <2>1, WakeOneType DEF TypeOK, NotifyNotEmpty
  <1>5. ASSUME NEW c \in Consumers, GetCall(c) PROVE TypeOK'
    BY <1>5 DEF TypeOK, GetCall, Goto, ConsumerPcs
  <1>6. ASSUME NEW c \in Consumers, GetWaits(c) PROVE TypeOK'
    BY <1>6 DEF TypeOK, GetWaits, Goto, ConsumerPcs
  <1>7. ASSUME NEW c \in Consumers, Get(c) PROVE TypeOK'
    <2>1. head' \in Slots
      BY <1>7, NextSlot DEF TypeOK, Get
    <2>2. msg' \in [Consumers -> Items \cup {NoItem}]
      BY <1>7 DEF TypeOK, Get
    <2>. QED
      BY <1>7, <2>1, <2>2 DEF TypeOK, Get, Goto, ConsumerPcs
  <1>8. ASSUME NEW c \in Consumers, TimeOut(c) PROVE TypeOK'
    BY <1>8 DEF TypeOK, TimeOut, Goto, ConsumerPcs
  <1>9. ASSUME NEW c \in Consumers, GetFails(c) PROVE TypeOK'
    BY <1>9 DEF TypeOK, GetFails, Goto, ConsumerPcs
  <1>10. ASSUME NEW c \in Consumers, NotifyNotFull(c) PROVE TypeOK'
    <2>1. WakeOne(c, {"waitPush"}, Reenter)
      BY <1>10 DEF NotifyNotFull
    <2>. QED
      BY <1>10, <2>1, WakeOneType DEF TypeOK, NotifyNotFull
  <1>11. ASSUME NEW t \in Threads, SpuriousWake(t) PROVE TypeOK'
    BY <1>11 DEF TypeOK, SpuriousWake, Goto, Reenter, ProducerPcs, ConsumerPcs
  <1>12. CASE Shutdown
    BY <1>12 DEF TypeOK, Shutdown, Reenter, ProducerPcs, ConsumerPcs
  <1>13. CASE UNCHANGED vars
    BY <1>13 DEF TypeOK, vars
  <1>. QED
    BY <1>1, <1>2, <1>3, <1>4, <1>5, <1>6, <1>7, <1>8, <1>9, <1>10, <1>11,
       <1>12, <1>13 DEF Next, ProducerStep, ConsumerStep

(* Every slot index, every thread state and every argument of push stays in  *)
(* its range: nothing is written outside the buffer.                         *)
THEOREM TypeCorrect == Spec => []TypeOK
  BY TypeInit, TypeStep, PTL DEF Spec

-----------------------------------------------------------------------------
LEMMA CountType ==
  ASSUME TypeOK
  PROVE  /\ Count \in 0 .. Capacity - 1
         /\ \A i \in 1 .. Count : SlotOf(i) \in Slots
         /\ Full <=> Count = Capacity - 1
         /\ Empty <=> Count = 0
  <1>1. /\ head \in 0 .. Capacity - 1 /\ tail \in 0 .. Capacity - 1
        /\ Capacity \in Nat \ {0}
    BY CapacityAssumption DEF TypeOK, Slots
  <1>2. Count \in 0 .. Capacity - 1 /\ (Empty <=> Count = 0)
    BY <1>1 DEF Count, Empty
  <1>3. \A i \in 1 .. Count : SlotOf(i) \in Slots
    BY <1>1, <1>2 DEF SlotOf, Slots
  <1>4. (tail + 1) % Capacity = IF tail + 1 = Capacity THEN 0 ELSE tail + 1
    BY NextSlot DEF TypeOK
  <1>5. Full <=> Count = Capacity - 1
    BY <1>1, <1>4 DEF Full, Count
  <1>. QED
    BY <1>2, <1>3, <1>5

(* A push writes the slot after the last message: the buffer, read from      *)
(* head, has the pushed message appended.                                    *)
LEMMA PushAppends ==
  ASSUME TypeOK, NEW p \in Producers, Push(p)
  PROVE  Contents' = Append(Contents, item[p])
  <1>1. /\ head \in Slots /\ tail \in Slots /\ head' = head
        /\ tail' = IF tail + 1 = Capacity THEN 0 ELSE tail + 1
        /\ tail' # head
    BY NextSlot DEF TypeOK, Push, Full
  <1>2. Count \in Nat /\ Count' = Count + 1
    BY <1>1, CapacityAssumption DEF Count, Slots
  <1>3. \A i \in Nat : SlotOf(i)' = SlotOf(i)
    BY <1>1 DEF SlotOf
  <1>4. /\ \A i \in 1 .. Count : SlotOf(i) \in Slots \ {tail}
        /\ SlotOf(Count + 1) = tail
    BY <1>1, CapacityAssumption DEF SlotOf, Count, Slots
  <1>5. /\ queue \in [Slots -> Items \cup {NoItem}]
        /\ queue' = [queue EXCEPT ![tail] = item[p]]
        /\ item[p] \in Items
    BY DEF TypeOK, Push
  <1>6. Contents' = [i \in 1 .. Count + 1 |-> queue'[SlotOf(i)]]
    BY <1>2, <1>3 DEF Contents
  <1>7. Contents = [i \in 1 .. Count |-> queue[SlotOf(i)]]
    BY DEF Contents
  <1>. DEFINE n == Count
              F(i) == queue[SlotOf(i)]
              G(i) == queue'[SlotOf(i)]
  <1>8. /\ n \in Nat
        /\ \A i \in 1 .. n : F(i) \in Items \cup {NoItem} /\ G(i) = F(i)
        /\ G(n + 1) = item[p]
    BY <1>1, <1>2, <1>4, <1>5
  <1>9. /\ Contents = [i \in 1 .. n |-> F(i)]
        /\ Contents' = [i \in 1 .. n + 1 |-> G(i)]
    BY <1>6, <1>7
  <1>. HIDE DEF n, F, G
  <1>10. Contents \in Seq(Items \cup {NoItem}) /\ Len(Contents) = n
    BY <1>8, <1>9
  <1>11. Append(Contents, item[p])
           = [i \in 1 .. n + 1 |-> IF i = n + 1 THEN item[p] ELSE Contents[i]]
    BY <1>5, <1>8, <1>10
  <1>. QED
    BY <1>8, <1>9, <1>11

(* A get reads the slot of the oldest message and leaves the others.         *)
LEMMA GetTakesHead ==
  ASSUME TypeOK, NEW c \in Consumers, Get(c)
  PROVE  /\ Contents # <<>>
         /\ msg' = [msg EXCEPT ![c] = Head(Contents)]
         /\ Contents' = Tail(Contents)
  <1>1. /\ head \in Slots /\ tail \in Slots /\ tail' = tail /\ queue' = queue
        /\ head' = IF head + 1 = Capacity THEN 0 ELSE head + 1
        /\ head # tail
    BY NextSlot DEF TypeOK, Get, Empty
  <1>2. Count \in Nat \ {0} /\ Count' = Count - 1
    BY <1>1, CapacityAssumption DEF Count, Slots
  <1>3. /\ \A i \in 1 .. Count - 1 : SlotOf(i)' = SlotOf(i + 1)
        /\ \A i \in 1 .. Count : SlotOf(i) \in Slots
        /\ SlotOf(1) = head
    BY <1>1, <1>2, CapacityAssumption DEF SlotOf, Count, Slots
  <1>4. queue \in [Slots -> Items \cup {NoItem}]
    BY DEF TypeOK
  <1>5. Contents' = [i \in 1 .. Count - 1 |-> queue[SlotOf(i + 1)]]
    BY <1>1, <1>2, <1>3 DEF Contents
  <1>6. Contents = [i \in 1 .. Count |-> queue[SlotOf(i)]]
    BY DEF Contents
  <1>. DEFINE n == Count
              F(i) == queue[SlotOf(i)]
  <1>7. /\ n \in Nat \ {0}
        /\ \A i \in 1 .. n : F(i) \in Items \cup {NoItem}
        /\ F(1) = queue[head]
    BY <1>2, <1>3, <1>4
  <1>8. /\ Contents = [i \in 1 .. n |-> F(i)]
        /\ Contents' = [i \in 1 .. n - 1 |-> F(i + 1)]
    BY <1>5, <1>6
  <1>9. msg' = [msg EXCEPT ![c] = queue[head]]
    BY DEF Get
  <1>. HIDE DEF n, F
  <1>10. Contents \in Seq(Items \cup {NoItem}) /\ Len(Contents) = n
    BY <1>7, <1>8
  <1>11. Contents # <<>> /\ Head(Contents) = queue[head]
    BY <1>7, <1>8, <1>10
  <1>12. /\ Tail(Contents) \in Seq(Items \cup {NoItem})
         /\ Len(Tail(Contents)) = n - 1
         /\ \A i \in 1 .. n - 1 : Tail(Contents)[i] = Contents[i + 1]
    BY <1>7, <1>10, <1>11
  <1>13. Contents' \in Seq(Items \cup {NoItem}) /\ Len(Contents') = n - 1
    BY <1>7, <1>8
  <1>14. \A i \in 1 .. n - 1 : Contents'[i] = Tail(Contents)[i]
    BY <1>7, <1>8, <1>12
  <1>15. Contents' = Tail(Contents)
    BY <1>12, <1>13, <1>14
  <1>. QED
    BY <1>9, <1>11, <1>15

LEMMA QuietSteps ==
  ASSUME UNCHANGED <<queue, head, tail>>
  PROVE  UNCHANGED Contents
  BY DEF Contents, Count, SlotOf

(* The initial buffer is empty, and a step of any thread is a Put, a Take or *)
(* leaves the abstract queue alone.                                          *)
LEMMA FifoInit == Init => BF!Init
  <1>. SUFFICES ASSUME Init PROVE BF!Init
    OBVIOUS
  <1>1. Count = 0
    BY DEF Init, Count
  <1>2. Contents = <<>>
    BY <1>1 DEF Contents
  <1>. QED
    BY <1>2 DEF Init, BF!Init

LEMMA FifoStep == TypeOK /\ [Next]_vars => [BF!Next]_(BF!vars)
  <1>. SUFFICES ASSUME TypeOK, [Next]_vars PROVE [BF!Next]_(BF!vars)
    OBVIOUS
  <1>1. ASSUME NEW p \in Producers, Push(p) PROVE BF!Next
    <2>1. Contents' = Append(Contents, item[p])
      BY <1>1, PushAppends
    <2>2. Len(Contents) = Count /\ Count < Capacity - 1
      <3>1. Count \in 0 .. Capacity - 1 /\ ~ (Count = Capacity - 1)
        BY <1>1, CountType DEF Push
      <3>. QED
        BY <3>1, CapacityAssumption DEF Contents
    <2>3. item[p] \in Items /\ UNCHANGED msg
      BY <1>1 DEF TypeOK, Push
    <2>. QED
      BY <2>1, <2>2, <2>3 DEF BF!Next, BF!Put
  <1>2. ASSUME NEW c \in Consumers, Get(c) PROVE BF!Next
    BY <1>2, GetTakesHead DEF BF!Next, BF!Take
  <1>3. ASSUME UNCHANGED <<queue, head, tail, msg>> PROVE UNCHANGED BF!vars
    BY <1>3, QuietSteps DEF BF!vars
  <1>4. ASSUME NEW p \in Producers,
               PushCall(p) \/ PushWaits(p) \/ NotifyNotEmpty(p)
        PROVE  UNCHANGED <<queue, head, tail, msg>>
    BY <1>4 DEF PushCall, PushWaits, NotifyNotEmpty
  <1>5. ASSUME NEW c \in Consumers,
               \/ GetCall(c) \/ GetWaits(c) \/ TimeOut(c)
               \/ GetFails(c) \/ NotifyNotFull(c)
        PROVE  UNCHANGED <<queue, head, tail, msg>>
    BY <1>5 DEF GetCall, GetWaits, TimeOut, GetFails, NotifyNotFull
  <1>6. ASSUME (\E t \in Threads : SpuriousWake(t)) \/ Shutdown \/ UNCHANGED vars
        PROVE  UNCHANGED <<queue, head, tail, msg>>
    BY <1>6 DEF SpuriousWake, Shutdown, vars
  <1>. QED
    BY <1>1, <1>2, <1>3, <1>4, <1>5, <1>6 DEF Next, ProducerStep, ConsumerStep

(* The ring buffer never loses, repeats, reorders or overwrites a message,   *)
(* whatever the capacity: it implements the bounded FIFO queue.              *)
THEOREM RingIsFifo == Spec => ImplementsBoundedFifo
  <1>1. Init => BF!Init
    BY FifoInit
  <1>2. TypeOK /\ [Next]_vars => [BF!Next]_(BF!vars)
    BY FifoStep
  <1>. QED
    BY <1>1, <1>2, TypeCorrect, PTL DEF Spec, ImplementsBoundedFifo, BF!Spec

-----------------------------------------------------------------------------
(* A step of push adds one message, a step of get takes one.                 *)
LEMMA CountStep ==
  ASSUME TypeOK
  PROVE  /\ \A p \in Producers : Push(p) => Count' = Count + 1
         /\ \A c \in Consumers : Get(c) => Count' = Count - 1
         /\ UNCHANGED <<head, tail>> => Count' = Count
  <1>1. head \in Slots /\ tail \in Slots /\ Capacity \in Nat \ {0}
    BY CapacityAssumption DEF TypeOK
  <1>2. ASSUME NEW p \in Producers, Push(p) PROVE Count' = Count + 1
    <2>1. /\ head' = head /\ tail' # head
          /\ tail' = IF tail + 1 = Capacity THEN 0 ELSE tail + 1
      BY <1>1, <1>2, NextSlot DEF Push, Full
    <2>. QED
      BY <1>1, <2>1 DEF Count, Slots
  <1>3. ASSUME NEW c \in Consumers, Get(c) PROVE Count' = Count - 1
    <2>1. /\ tail' = tail /\ head # tail
          /\ head' = IF head + 1 = Capacity THEN 0 ELSE head + 1
      BY <1>1, <1>3, NextSlot DEF Get, Empty
    <2>. QED
      BY <1>1, <2>1 DEF Count, Slots
  <1>. QED
    BY <1>2, <1>3 DEF Count

\* a and b threads are enough for n messages, or for the slots n messages leave.
Taken(n, a, b) == n <= a + b
Filled(n, a, b) == Capacity - 1 - n <= a + b
OneJoins(a, c) == a + 1 <= c
OneLeaves(a, c) == a <= c + 1

(* How a count of threads changes when some of them move.                    *)
LEMMA AtFacts ==
  ASSUME NEW T, IsFiniteSet(T), NEW places
  PROVE  /\ At(T, places) \in Nat /\ At(T, places)' \in Nat
         /\ (\A t \in T : pc[t] \in places => pc'[t] \in places)
              => At(T, places) <= At(T, places)'
  <1>. DEFINE S == {t \in T : pc[t] \in places}
              U == {t \in T : pc'[t] \in places}
  <1>1. IsFiniteSet(S) /\ IsFiniteSet(U)
    BY FS_Subset
  <1>2. At(T, places) = Cardinality(S) /\ At(T, places)' = Cardinality(U)
    BY DEF At
  <1>3. (\A t \in T : pc[t] \in places => pc'[t] \in places) => S \subseteq U
    OBVIOUS
  <1>. HIDE DEF S, U
  <1>4. Cardinality(S) \in Nat /\ Cardinality(U) \in Nat
    BY <1>1, FS_CardinalityType
  <1>5. S \subseteq U => Cardinality(S) <= Cardinality(U)
    BY <1>1, FS_Subset
  <1>. QED
    BY <1>2, <1>3, <1>4, <1>5

LEMMA AtGains ==
  ASSUME NEW T, IsFiniteSet(T), NEW places, NEW u \in T,
         pc[u] \notin places, pc'[u] \in places,
         \A t \in T \ {u} : pc[t] \in places => pc'[t] \in places
  PROVE  OneJoins(At(T, places), At(T, places)')
  <1>. DEFINE S == {t \in T : pc[t] \in places}
              U == {t \in T : pc'[t] \in places}
  <1>1. IsFiniteSet(S) /\ IsFiniteSet(U) /\ u \notin S /\ S \cup {u} \subseteq U
    BY FS_Subset
  <1>2. At(T, places) = Cardinality(S) /\ At(T, places)' = Cardinality(U)
    BY DEF At
  <1>. HIDE DEF S, U
  <1>3. Cardinality(S \cup {u}) = Cardinality(S) + 1
    BY <1>1, FS_AddElement
  <1>4. Cardinality(S \cup {u}) <= Cardinality(U)
    BY <1>1, FS_Subset
  <1>. QED
    BY <1>2, <1>3, <1>4
 DEF OneJoins
LEMMA AtLoses ==
  ASSUME NEW T, IsFiniteSet(T), NEW places, NEW u \in T, pc[u] \in places,
         \A t \in T \ {u} : pc[t] \in places => pc'[t] \in places
  PROVE  OneLeaves(At(T, places), At(T, places)')
  <1>. DEFINE S == {t \in T : pc[t] \in places}
              U == {t \in T : pc'[t] \in places}
  <1>1. IsFiniteSet(S) /\ IsFiniteSet(U) /\ u \in S /\ S \ {u} \subseteq U
    BY FS_Subset
  <1>2. At(T, places) = Cardinality(S) /\ At(T, places)' = Cardinality(U)
    BY DEF At
  <1>. HIDE DEF S, U
  <1>3. Cardinality(S \ {u}) = Cardinality(S) - 1
    BY <1>1, FS_RemoveElement
  <1>4. Cardinality(S \ {u}) <= Cardinality(U)
    BY <1>1, FS_Subset
  <1>5. Cardinality(S) \in Nat /\ Cardinality(U) \in Nat
    BY <1>1, FS_CardinalityType
  <1>. QED
    BY <1>2, <1>3, <1>4, <1>5
 DEF OneLeaves
(* notify_one with a thread left parked: it has woken another one.           *)
LEMMA WakeOneMoves ==
  ASSUME TypeOK, NEW t \in Threads, pc[t] = "notify",
         NEW parked \in SUBSET {"waitPush", "waitGet", "waitGetNow"},
         WakeOne(t, parked, Reenter),
         \E v \in Threads : pc'[v] \in parked
  PROVE  \E u \in Threads : /\ pc[u] \in parked /\ u # t
                            /\ \A x \in Threads : pc'[x] = IF x = u THEN Reenter[pc[u]]
                                                           ELSE IF x = t THEN "idle" ELSE pc[x]
  <1>1. PICK v \in Threads : pc'[v] \in parked
    OBVIOUS
  <1>2. ASSUME Goto(t, "idle"), {u \in Threads : pc[u] \in parked} = {} PROVE FALSE
    BY <1>1, <1>2 DEF TypeOK, Goto
  <1>3. PICK u \in Threads : pc[u] \in parked /\ pc' = [pc EXCEPT ![t] = "idle", ![u] = Reenter[pc[u]]]
    BY <1>2 DEF WakeOne
  <1>. QED
    BY <1>3 DEF TypeOK

-----------------------------------------------------------------------------
\* The threads that keep the two accounts.
Pushing == At(Producers, {"push"})
ToNotifyNotFull == At(Consumers, {"notify"})
Looking == At(Consumers, {"get", "getNow", "timedOut"})
ToNotifyNotEmpty == At(Producers, {"notify"})

\* The two halves of NoLostWakeup.
PushersCounted ==
  (\E p \in Producers : pc[p] = "waitPush")
    => Filled(Count, Pushing, ToNotifyNotFull)
TakersCounted ==
  (\E c \in Consumers : pc[c] \in {"waitGet", "waitGetNow"})
    => Taken(Count, Looking, ToNotifyNotEmpty)

(* What a step may do to an account: nothing; one thread passes from the     *)
(* second group to the first; one of the first group does its work; a slot   *)
(* or a message more, with a thread of the second group for it.              *)
LEMMA Accounts ==
  /\ \A n, m, a, b, c, d \in Int : m = n /\ a <= c /\ b <= d =>
       (Filled(n, a, b) => Filled(m, c, d)) /\ (Taken(n, a, b) => Taken(m, c, d))
  /\ \A n, m, a, b, c, d \in Int : m = n /\ OneJoins(a, c) /\ OneLeaves(b, d) =>
       (Filled(n, a, b) => Filled(m, c, d)) /\ (Taken(n, a, b) => Taken(m, c, d))
  /\ \A n, m, a, b, c, d \in Int : OneLeaves(a, c) /\ b <= d =>
       (m = n + 1 /\ Filled(n, a, b) => Filled(m, c, d)) /\ (m = n - 1 /\ Taken(n, a, b) => Taken(m, c, d))
  /\ \A n, m, a, b, c, d \in Int : a <= c /\ OneJoins(b, d) =>
       (m = n - 1 /\ Filled(n, a, b) => Filled(m, c, d)) /\ (m = n + 1 /\ Taken(n, a, b) => Taken(m, c, d))
  /\ \A n, m, c, d \in Int : m = n /\ 0 <= c /\ 0 <= d =>
       (n = Capacity - 1 => Filled(m, c, d)) /\ (n = 0 => Taken(m, c, d))
  BY CapacityAssumption DEF Filled, Taken, OneJoins, OneLeaves

(* Each free slot keeps its producer about to push, or its notify.           *)
LEMMA PushersStep == TypeOK /\ PushersCounted /\ [Next]_vars => PushersCounted'
  <1>. SUFFICES ASSUME TypeOK, PushersCounted, [Next]_vars,
                       NEW v \in Producers, pc'[v] = "waitPush"
                PROVE  Filled(Count', Pushing', ToNotifyNotFull')
    BY DEF PushersCounted
  <1>. DEFINE Goal == Filled(Count', Pushing', ToNotifyNotFull')
  <1>0. /\ Producers \cap Consumers = {} /\ Threads = Producers \cup Consumers
        /\ IsFiniteSet(Producers) /\ IsFiniteSet(Consumers) /\ DOMAIN pc = Threads
    BY ThreadsAssumption DEF Threads, TypeOK
  <1>1. /\ Capacity \in Int /\ Count \in Int /\ (Full <=> Count = Capacity - 1)
        /\ Count + 1 \in Int /\ Count - 1 \in Int
    BY CapacityAssumption, CountType
  <1>2. /\ Pushing \in Int /\ ToNotifyNotFull \in Int
        /\ Pushing' \in Int /\ 0 <= Pushing' /\ ToNotifyNotFull' \in Int /\ 0 <= ToNotifyNotFull'
    BY <1>0, AtFacts DEF Pushing, ToNotifyNotFull
  <1>3. pc[v] = "waitPush" => Filled(Count, Pushing, ToNotifyNotFull)
    BY DEF PushersCounted
  <1>4. ASSUME pc[v] = "waitPush", UNCHANGED <<head, tail>>,
               \A p \in Producers : pc[p] \in {"push"} => pc'[p] \in {"push"},
               \A c \in Consumers : pc[c] \in {"notify"} => pc'[c] \in {"notify"}
        PROVE  Goal
    <2>1. Pushing <= Pushing' /\ ToNotifyNotFull <= ToNotifyNotFull'
      BY <1>0, <1>4, AtFacts DEF Pushing, ToNotifyNotFull
    <2>2. Count' = Count
      BY <1>4, CountStep
    <2>. QED
      BY <1>1, <1>2, <1>3, <1>4, <2>1, <2>2, Accounts
  <1>5. ASSUME NEW p \in Producers, PushCall(p) PROVE Goal
    BY <1>0, <1>4, <1>5 DEF PushCall, Goto
  <1>6. ASSUME NEW p \in Producers, PushWaits(p) PROVE Goal
    <2>1. Count' = Count /\ Full
      BY <1>6, CountStep DEF PushWaits
    <2>. QED
      BY <1>1, <1>2, <2>1, Accounts
  <1>7. ASSUME NEW p \in Producers, Push(p) PROVE Goal
    <2>1. pc[p] = "push" /\ \A t \in Threads \ {p} : pc'[t] = pc[t]
      BY <1>0, <1>7 DEF Push, Goto
    <2>2. pc'[p] = "notify"
      BY <1>0, <1>7 DEF Push, Goto
    <2>3. OneLeaves(Pushing, Pushing')
      BY <1>0, <2>1, AtLoses DEF Pushing, ToNotifyNotFull
    <2>4. ToNotifyNotFull <= ToNotifyNotFull'
      BY <1>0, <2>1, AtFacts DEF Pushing, ToNotifyNotFull
    <2>5. Count' = Count + 1 /\ pc[v] = "waitPush"
      BY <1>0, <1>7, <2>1, <2>2, CountStep
    <2>. QED
      BY <1>1, <1>2, <1>3, <2>3, <2>4, <2>5, Accounts
  <1>8. ASSUME NEW p \in Producers, NotifyNotEmpty(p) PROVE Goal
    <2>1. UNCHANGED <<head, tail>> /\ WakeOne(p, {"waitGet", "waitGetNow"}, Reenter) /\ pc[p] = "notify"
      BY <1>8 DEF NotifyNotEmpty
    <2>2. \A t \in Threads : pc[t] \in {"push", "waitPush"} => pc'[t] = pc[t]
      BY <1>0, <2>1 DEF WakeOne, Goto, Reenter
    <2>3. \A c \in Consumers : pc[c] = "notify" => pc'[c] = "notify"
      BY <1>0, <2>1 DEF WakeOne, Goto, Reenter
    <2>4. pc[v] = "waitPush"
      BY <1>0, <2>1, WakeOneType
    <2>. HIDE DEF Goal
    <2>. QED
      BY <1>0, <1>4, <2>1, <2>2, <2>3, <2>4
  <1>9. ASSUME NEW c \in Consumers, GetCall(c) \/ GetWaits(c) \/ TimeOut(c) \/ GetFails(c) PROVE Goal
    BY <1>0, <1>4, <1>9 DEF GetCall, GetWaits, TimeOut, GetFails, Goto
  <1>10. ASSUME NEW c \in Consumers, Get(c) PROVE Goal
    <2>1. pc[c] # "notify" /\ pc'[c] = "notify" /\ \A t \in Threads \ {c} : pc'[t] = pc[t]
      BY <1>0, <1>10 DEF Get, Goto
    <2>2. OneJoins(ToNotifyNotFull, ToNotifyNotFull')
      BY <1>0, <2>1, AtGains DEF Pushing, ToNotifyNotFull
    <2>3. Pushing <= Pushing'
      BY <1>0, <2>1, AtFacts DEF Pushing, ToNotifyNotFull
    <2>4. Count' = Count - 1 /\ pc[v] = "waitPush"
      BY <1>0, <1>10, <2>1, CountStep
    <2>. QED
      BY <1>1, <1>2, <1>3, <2>2, <2>3, <2>4, Accounts
  <1>11. ASSUME NEW c \in Consumers, NotifyNotFull(c) PROVE Goal
    <2>1. UNCHANGED <<head, tail>> /\ WakeOne(c, {"waitPush"}, Reenter) /\ pc[c] = "notify"
      BY <1>11 DEF NotifyNotFull
    <2>2. PICK u \in Threads : /\ pc[u] \in {"waitPush"} /\ u # c
                               /\ \A x \in Threads : pc'[x] = IF x = u THEN Reenter[pc[u]]
                                                              ELSE IF x = c THEN "idle" ELSE pc[x]
      BY <1>0, <2>1, WakeOneMoves
    <2>3. u \in Producers /\ pc'[u] = "push" /\ Reenter[pc[u]] = "push"
      BY <1>0, <2>2 DEF TypeOK, ConsumerPcs, Reenter
    <2>4. OneJoins(Pushing, Pushing')
      BY <1>0, <2>2, <2>3, AtGains DEF Pushing, ToNotifyNotFull
    <2>5. OneLeaves(ToNotifyNotFull, ToNotifyNotFull')
      BY <1>0, <2>1, <2>2, <2>3, AtLoses DEF Pushing, ToNotifyNotFull
    <2>6. Count' = Count /\ pc[v] = "waitPush"
      BY <1>0, <2>1, <2>2, <2>3, CountStep
    <2>. QED
      BY <1>1, <1>2, <1>3, <2>4, <2>5, <2>6, Accounts
  <1>12. ASSUME NEW t \in Threads, SpuriousWake(t) PROVE Goal
    <2>1. \A x \in Threads : pc'[x] = IF x = t THEN Reenter[pc[t]] ELSE pc[x]
      BY <1>0, <1>12 DEF SpuriousWake, Goto
    <2>2. pc[t] \in {"waitPush", "waitGet", "waitGetNow"} /\ UNCHANGED <<head, tail>>
      BY <1>12 DEF SpuriousWake, Reenter
    <2>. HIDE DEF Goal
    <2>. QED
      BY <1>0, <1>4, <2>1, <2>2 DEF Reenter
  <1>13. CASE Shutdown
    BY <1>0, <1>13 DEF Shutdown, Reenter
  <1>14. CASE UNCHANGED vars
    BY <1>4, <1>14 DEF vars
  <1>. QED
    BY <1>5, <1>6, <1>7, <1>8, <1>9, <1>10, <1>11, <1>12, <1>13, <1>14
    DEF Next, ProducerStep, ConsumerStep

(* Each message keeps its consumer about to take it, or its notify.          *)
LEMMA TakersStep == TypeOK /\ TakersCounted /\ [Next]_vars => TakersCounted'
  <1>. DEFINE looking == {"get", "getNow", "timedOut"}
              parked == {"waitGet", "waitGetNow"}
  <1>. SUFFICES ASSUME TypeOK, TakersCounted, [Next]_vars,
                       NEW v \in Consumers, pc'[v] \in parked
                PROVE  Taken(Count', Looking', ToNotifyNotEmpty')
    BY DEF TakersCounted
  <1>. DEFINE Goal == Taken(Count', Looking', ToNotifyNotEmpty')
  <1>0. /\ Producers \cap Consumers = {} /\ Threads = Producers \cup Consumers
        /\ IsFiniteSet(Producers) /\ IsFiniteSet(Consumers) /\ DOMAIN pc = Threads
    BY ThreadsAssumption DEF Threads, TypeOK
  <1>1. /\ Capacity \in Int /\ Count \in Int /\ (Empty <=> Count = 0)
        /\ Count + 1 \in Int /\ Count - 1 \in Int
    BY CountType, CapacityAssumption
  <1>2. /\ Looking \in Int /\ ToNotifyNotEmpty \in Int
        /\ Looking' \in Int /\ 0 <= Looking' /\ ToNotifyNotEmpty' \in Int /\ 0 <= ToNotifyNotEmpty'
    BY <1>0, AtFacts DEF Looking, ToNotifyNotEmpty
  <1>3. pc[v] \in parked => Taken(Count, Looking, ToNotifyNotEmpty)
    BY DEF TakersCounted
  <1>4. ASSUME pc[v] \in parked, UNCHANGED <<head, tail>>,
               \A c \in Consumers : pc[c] \in looking => pc'[c] \in looking,
               \A p \in Producers : pc[p] \in {"notify"} => pc'[p] \in {"notify"}
        PROVE  Goal
    <2>1. Looking <= Looking' /\ ToNotifyNotEmpty <= ToNotifyNotEmpty'
      BY <1>0, <1>4, AtFacts DEF Looking, ToNotifyNotEmpty
    <2>2. Count' = Count
      BY <1>4, CountStep
    <2>. QED
      BY <1>1, <1>2, <1>3, <1>4, <2>1, <2>2, Accounts
  <1>5. ASSUME NEW p \in Producers, PushCall(p) \/ PushWaits(p) PROVE Goal
    BY <1>0, <1>4, <1>5 DEF PushCall, PushWaits, Goto
  <1>6. ASSUME NEW p \in Producers, Push(p) PROVE Goal
    <2>1. pc[p] # "notify" /\ pc'[p] = "notify" /\ \A t \in Threads \ {p} : pc'[t] = pc[t]
      BY <1>0, <1>6 DEF Push, Goto
    <2>2. OneJoins(ToNotifyNotEmpty, ToNotifyNotEmpty')
      BY <1>0, <2>1, AtGains DEF Looking, ToNotifyNotEmpty
    <2>3. Looking <= Looking'
      BY <1>0, <2>1, AtFacts DEF Looking, ToNotifyNotEmpty
    <2>4. Count' = Count + 1 /\ pc[v] \in parked
      BY <1>0, <1>6, <2>1, CountStep
    <2>. HIDE DEF parked
    <2>. QED
      BY <1>1, <1>2, <1>3, <2>2, <2>3, <2>4, Accounts
  <1>7. ASSUME NEW p \in Producers, NotifyNotEmpty(p) PROVE Goal
    <2>1. UNCHANGED <<head, tail>> /\ WakeOne(p, parked, Reenter) /\ pc[p] = "notify"
      BY <1>7 DEF NotifyNotEmpty
    <2>2. PICK u \in Threads : /\ pc[u] \in parked /\ u # p
                               /\ \A x \in Threads : pc'[x] = IF x = u THEN Reenter[pc[u]]
                                                              ELSE IF x = p THEN "idle" ELSE pc[x]
      BY <1>0, <2>1, WakeOneMoves
    <2>3. u \in Consumers /\ pc'[u] \in {"get", "getNow"}
      BY <1>0, <2>2 DEF TypeOK, ProducerPcs, Reenter
    <2>4. OneJoins(Looking, Looking')
      BY <1>0, <2>2, <2>3, AtGains DEF Looking, ToNotifyNotEmpty
    <2>5. OneLeaves(ToNotifyNotEmpty, ToNotifyNotEmpty')
      BY <1>0, <2>1, <2>2, <2>3, AtLoses DEF Looking, ToNotifyNotEmpty
    <2>6. Count' = Count /\ pc[v] \in parked
      BY <1>0, <2>1, <2>2, <2>3, CountStep
    <2>. HIDE DEF parked
    <2>. QED
      BY <1>1, <1>2, <1>3, <2>4, <2>5, <2>6, Accounts
  <1>8. ASSUME NEW c \in Consumers, GetCall(c) PROVE Goal
    BY <1>0, <1>4, <1>8 DEF GetCall, Goto
  <1>9. ASSUME NEW c \in Consumers, GetWaits(c) \/ GetFails(c) PROVE Goal
    <2>1. Count' = Count /\ Empty
      BY <1>9, CountStep DEF GetWaits, GetFails
    <2>. QED
      BY <1>1, <1>2, <2>1, Accounts
  <1>10. ASSUME NEW c \in Consumers, Get(c) PROVE Goal
    <2>1. pc[c] \in looking /\ pc'[c] = "notify" /\ \A t \in Threads \ {c} : pc'[t] = pc[t]
      BY <1>0, <1>10 DEF Get, Goto
    <2>2. OneLeaves(Looking, Looking')
      BY <1>0, <2>1, AtLoses DEF Looking, ToNotifyNotEmpty
    <2>3. ToNotifyNotEmpty <= ToNotifyNotEmpty'
      BY <1>0, <2>1, AtFacts DEF Looking, ToNotifyNotEmpty
    <2>4. Count' = Count - 1 /\ pc[v] \in parked
      BY <1>0, <1>10, <2>1, CountStep
    <2>. HIDE DEF parked
    <2>. QED
      BY <1>1, <1>2, <1>3, <2>2, <2>3, <2>4, Accounts
  <1>11. ASSUME NEW c \in Consumers, TimeOut(c) PROVE Goal
    BY <1>0, <1>4, <1>11 DEF TimeOut, Goto
  <1>12. ASSUME NEW c \in Consumers, NotifyNotFull(c) PROVE Goal
    <2>1. UNCHANGED <<head, tail>> /\ WakeOne(c, {"waitPush"}, Reenter) /\ pc[c] = "notify"
      BY <1>12 DEF NotifyNotFull
    <2>2. \A t \in Threads \ {c} : pc[t] # "waitPush" => pc'[t] = pc[t]
      BY <1>0, <2>1 DEF WakeOne, Goto
    <2>3. pc'[c] = "idle"
      BY <1>0, <2>1 DEF WakeOne, Goto
    <2>4. pc[v] \in parked
      <3>1. v # c
        BY <2>3
      <3>2. pc[v] # "waitPush"
        BY DEF TypeOK, ConsumerPcs
      <3>. QED
        BY <1>0, <2>2, <3>1, <3>2
    <2>. HIDE DEF Goal
    <2>. QED
      BY <1>0, <1>4, <2>1, <2>2, <2>4
  <1>13. ASSUME NEW t \in Threads, SpuriousWake(t) PROVE Goal
    <2>1. \A x \in Threads : pc'[x] = IF x = t THEN Reenter[pc[t]] ELSE pc[x]
      BY <1>0, <1>13 DEF SpuriousWake, Goto
    <2>2. pc[t] \in {"waitPush", "waitGet", "waitGetNow"} /\ UNCHANGED <<head, tail>>
      BY <1>13 DEF SpuriousWake, Reenter
    <2>. HIDE DEF Goal
    <2>. QED
      BY <1>0, <1>4, <2>1, <2>2 DEF Reenter
  <1>14. CASE Shutdown
    BY <1>0, <1>14 DEF Shutdown, Reenter
  <1>15. CASE UNCHANGED vars
    BY <1>4, <1>15 DEF vars
  <1>. QED
    BY <1>5, <1>6, <1>7, <1>8, <1>9, <1>10, <1>11, <1>12, <1>13, <1>14, <1>15
    DEF Next, ProducerStep, ConsumerStep

(* However many producers, consumers and slots: no wake-up is lost between   *)
(* notify_one, which comes after the unlock, and the next look at the        *)
(* predicate, with time-outs and spurious wake-ups in between.               *)
THEOREM NoWakeupIsLost == Spec => []NoLostWakeup
  <1>1. Init => PushersCounted /\ TakersCounted
    BY ThreadsAssumption DEF Init, PushersCounted, TakersCounted, Threads
  <1>2. NoLostWakeup <=> PushersCounted /\ TakersCounted
    BY DEF NoLostWakeup, Filled, Taken, PushersCounted, TakersCounted, Pushing, ToNotifyNotFull,
           Looking, ToNotifyNotEmpty
  <1>. QED
    BY <1>1, <1>2, PushersStep, TakersStep, TypeCorrect, PTL DEF Spec
=============================================================================
