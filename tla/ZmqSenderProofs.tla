---------------------------- MODULE ZmqSenderProofs ----------------------------
(***************************************************************************)
(* For every set of workers and of responses: the list of ZmqSender is the *)
(* task queue of one worker, and a shutdown that finds the sender's thread *)
(* inside get is never over.                                               *)
(*                                                                         *)
(* Neither follows from the types alone.  The inductive invariant says who *)
(* may be where: a message is in hand only between get and zmq_send        *)
(* (Sending), the owner that has cleared status holds the mutex until it   *)
(* has joined the thread (Locked, Closed), and by then the thread has left *)
(* run (Left).  So nobody who takes from the list, or gives up waiting,    *)
(* does it after status was cleared.                                       *)
(***************************************************************************)
EXTENDS ZmqSender, TLAPS

TypeOK ==
  /\ msg_list \in Seq(Responses)
  /\ status \in BOOLEAN
  /\ mtx \in {"free", "owner"}
  /\ run \in RunPcs
  /\ msg \in Responses \cup {NoMsg}
  /\ worker \in [Workers -> {"idle", "push", "notify"}]
  /\ resp \in [Workers -> Responses \cup {NoMsg}]
  /\ \A w \in Workers : worker[w] = "push" => resp[w] \in Responses
  /\ owner \in {"owns", "joining", "joined", "destroyed", "terminated"}
  /\ pushes \in 0 .. MaxPushes

Sending == msg # NoMsg <=> run = "send"
Closed == status <=> owner \in {"owns", "terminated"}
Locked == mtx = "owner" <=> owner = "joining"
Left == owner \in {"joined", "destroyed"} => run \in {"ended", "unconnected"}

IInv == TypeOK /\ Sending /\ Closed /\ Locked /\ Left

LEMMA IInvInit == Init => IInv
  BY MessagesAssumption, BoundAssumption
  DEF Init, IInv, TypeOK, Sending, Closed, Locked, Left, RunPcs, Inside

LEMMA TakeFacts ==
  ASSUME TypeOK, msg_list # <<>>
  PROVE  Head(msg_list) \in Responses /\ Tail(msg_list) \in Seq(Responses)
  <1>1. msg_list \in Seq(Responses)
    BY DEF TypeOK
  <1>. QED
    BY <1>1

LEMMA IInvStep == IInv /\ [Next]_vars => IInv'
  <1>. SUFFICES ASSUME IInv, [Next]_vars PROVE IInv'
    OBVIOUS
  <1>. USE DEF IInv, Sending, Closed, Locked, Left, RunPcs, Inside, Alive
  <1>1. CASE Connect
    BY <1>1 DEF TypeOK, Connect
  <1>2. CASE TestStatus
    BY <1>2 DEF TypeOK, TestStatus
  <1>3. CASE Wait
    BY <1>3 DEF TypeOK, Wait
  <1>4. CASE WakeUp
    BY <1>4 DEF TypeOK, WakeUp
  <1>5. CASE GetFails
    BY <1>5 DEF TypeOK, GetFails
  <1>6. CASE Take
    BY <1>6, TakeFacts, MessagesAssumption DEF TypeOK, Take
  <1>7. CASE Send
    BY <1>7 DEF TypeOK, Send
  <1>8. ASSUME NEW w \in Workers, PushCall(w) PROVE IInv'
    BY <1>8, BoundAssumption DEF TypeOK, PushCall
  <1>9. ASSUME NEW w \in Workers, Push(w) PROVE IInv'
    <2>1. resp[w] \in Responses /\ msg_list \in Seq(Responses) /\ msg_list' = Append(msg_list, resp[w])
      BY <1>9 DEF TypeOK, Push
    <2>2. msg_list' \in Seq(Responses)
      BY <2>1
    <2>. QED
      BY <1>9, <2>2 DEF TypeOK, Push
  <1>10. ASSUME NEW w \in Workers, NotifyOne(w) PROVE IInv'
    BY <1>10 DEF TypeOK, NotifyOne
  <1>11. CASE Shutdown
    BY <1>11 DEF TypeOK, Shutdown
  <1>12. CASE Joined
    BY <1>12 DEF TypeOK, Joined
  <1>13. CASE Destroy
    BY <1>13 DEF TypeOK, Destroy
  <1>14. CASE UNCHANGED vars
    BY <1>14 DEF TypeOK, vars
  <1>. QED
    BY <1>1, <1>2, <1>3, <1>4, <1>5, <1>6, <1>7, <1>8, <1>9, <1>10, <1>11,
       <1>12, <1>13, <1>14 DEF Next, RunStep, WorkerStep

LEMMA IInvariant == Spec => []IInv
  BY IInvInit, IInvStep, PTL DEF Spec

-----------------------------------------------------------------------------
LEMMA TaskInit == Init => TQ!Init
  BY DEF Init, TQ!Init

LEMMA TaskStep == IInv /\ [Next]_vars => [TQ!Next]_(TQ!vars)
  <1>. SUFFICES ASSUME IInv, [Next]_vars PROVE [TQ!Next]_(TQ!vars)
    OBVIOUS
  <1>. DEFINE Late == IF ~ status /\ run \in Inside THEN {Sender} ELSE {}
              Hand == [s \in {Sender} |-> msg]
  <1>. USE DEF TQ!Next, TQ!vars
  <1>1. ASSUME NEW w \in Workers, Push(w) PROVE TQ!Next
    <2>1. resp[w] \in Responses
      BY <1>1 DEF IInv, TypeOK, Push
    <2>2. TQ!Put(resp[w])
      BY <1>1 DEF Push, TQ!Put
    <2>. QED
      BY <2>1, <2>2
  <1>2. CASE Take
    <2>1. msg = NoMsg
      BY <1>2 DEF IInv, Sending, Take
    <2>2. status /\ status'
      BY <1>2 DEF IInv, TypeOK, Closed, Locked, Left, Take
    <2>3. TQ!Take(Sender)
      BY <1>2, <2>1, <2>2 DEF Take, TQ!Take
    <2>. QED
      BY <2>3
  <1>3. CASE Send
    <2>1. msg # NoMsg
      BY <1>3 DEF IInv, Sending, Send
    <2>2. Late' = Late
      BY <1>3 DEF Send, Inside
    <2>3. TQ!Finish(Sender)
      BY <1>3, <2>1, <2>2 DEF Send, TQ!Finish
    <2>. QED
      BY <2>3
  <1>4. CASE Shutdown
    <2>1. status /\ ~ status'
      BY <1>4 DEF IInv, Closed, Shutdown
    <2>2. Late' \in SUBSET {s \in {Sender} : Hand[s] = NoMsg}
      BY <1>4 DEF IInv, Sending, Shutdown, Inside
    <2>3. TQ!Close
      BY <1>4, <2>1, <2>2 DEF Shutdown, TQ!Close
    <2>. QED
      BY <2>3
  <1>5. CASE Connect \/ TestStatus \/ Wait \/ WakeUp \/ GetFails
    <2>1. UNCHANGED <<msg_list, msg, status>>
      BY <1>5 DEF Connect, TestStatus, Wait, WakeUp, GetFails
    <2>2. status \/ (run \in Inside <=> run' \in Inside)
      BY <1>5 DEF IInv, TypeOK, Closed, Locked, Left, Connect, TestStatus, Wait, WakeUp, GetFails, Inside
    <2>. QED
      BY <2>1, <2>2
  <1>6. ASSUME \/ \E w \in Workers : PushCall(w) \/ NotifyOne(w)
               \/ Joined \/ Destroy \/ UNCHANGED vars
        PROVE  UNCHANGED TQ!vars
    <2>1. UNCHANGED <<msg_list, msg, status>> /\ (run \in Inside <=> run' \in Inside)
      BY <1>6 DEF PushCall, NotifyOne, Joined, Destroy, vars, Inside
    <2>. QED
      BY <2>1
  <1>. QED
    BY <1>1, <1>2, <1>3, <1>4, <1>5, <1>6 DEF Next, RunStep, WorkerStep

(* However many workers push: responses leave in the order in which they     *)
(* were pushed, each at most once, whether or not the owner of the sender    *)
(* shuts it down or destroys it meanwhile.                                   *)
THEOREM ListIsTaskQueue == Spec => ImplementsTaskQueue
  BY TaskInit, TaskStep, IInvariant, PTL DEF Spec, ImplementsTaskQueue, TQ!Spec

-----------------------------------------------------------------------------
(* shutdown joins the thread with the mutex held and get cannot return       *)
(* without the mutex: once it has found the thread inside get, the join      *)
(* stays where it is, and with it everybody who pushes.                      *)
THEOREM JoinInsideGetIsForever == Spec => StuckInsideGet
  <1>. DEFINE Stuck == owner = "joining" /\ run \in Inside \cup {"get"}
                        => /\ owner' = "joining" /\ run' \in Inside \cup {"get"}
                           /\ msg_list' = msg_list
  <1>1. IInv /\ [Next]_vars => [Stuck]_vars
    <2>. SUFFICES ASSUME IInv, Next, owner = "joining", run \in Inside \cup {"get"}
                  PROVE  owner' = "joining" /\ run' \in Inside \cup {"get"} /\ msg_list' = msg_list
      OBVIOUS
    <2>1. mtx = "owner"
      BY DEF IInv, Locked
    <2>2. CASE WakeUp
      BY <2>2 DEF WakeUp, Inside
    <2>3. ASSUME NEW w \in Workers, PushCall(w) \/ NotifyOne(w)
          PROVE  owner' = "joining" /\ run' \in Inside \cup {"get"} /\ msg_list' = msg_list
      BY <2>3 DEF PushCall, NotifyOne, Inside
    <2>4. ~ (Connect \/ TestStatus \/ Wait \/ GetFails \/ Take \/ Send)
      BY <2>1 DEF Connect, TestStatus, Wait, GetFails, Take, Send, Inside
    <2>5. ~ (Shutdown \/ Joined \/ Destroy \/ \E w \in Workers : Push(w))
      BY <2>1 DEF Shutdown, Joined, Destroy, Push, Inside
    <2>. QED
      BY <2>2, <2>3, <2>4, <2>5 DEF Next, RunStep, WorkerStep
  <1>. QED
    BY <1>1, IInvariant, PTL DEF Spec, StuckInsideGet
=============================================================================
