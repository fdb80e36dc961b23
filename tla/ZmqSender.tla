------------------------------- MODULE ZmqSender -------------------------------
(***************************************************************************)
(* ZmqSender (ZmqSender.cpp): one thread takes responses from a list and   *)
(* sends them; the workers push.  Its owner may call shutdown, which joins *)
(* the thread with the mutex held, and may destroy the object.             *)
(*                                                                         *)
(* In Dealer the sender's thread serves and is never shut down, as in the  *)
(* verifier; here is what the class does to an owner that ends it.         *)
(***************************************************************************)
EXTENDS Naturals, Sequences

CONSTANTS
  Workers,    \* the threads that push
  Responses,  \* the messages
  MaxPushes,  \* bound on the calls of push
  Sender,     \* the sender's thread
  NoMsg       \* nothing in hand

ASSUME MessagesAssumption == NoMsg \notin Responses
ASSUME BoundAssumption == MaxPushes \in Nat

VARIABLES
  msg_list, status,
  mtx,      \* "free", or "owner" while shutdown holds it
  run,      \* where the sender's thread is
  msg,      \* the message it holds
  worker,   \* worker[w]: "idle", "push" (about to lock mtx) or "notify"
  resp,     \* resp[w]: the argument of w's push
  owner,    \* "owns", "joining", "joined", "destroyed" or "terminated"
  pushes

vars == <<msg_list, status, mtx, run, msg, worker, resp, owner, pushes>>

\* The test of status inside get never ends the call: whoever has cleared it
\* holds the mutex until the thread has ended.
\* "loop": at while (status); "get" to "timedOut": inside get, as in DQueue;
\* "send": between get and the end of the loop body; "ended" and
\* "unconnected": run has returned.
Inside == {"wait", "woken", "timedOut"}
RunPcs == {"connect", "loop", "get", "send", "ended", "unconnected"} \cup Inside

Init ==
  /\ msg_list = <<>> /\ status = TRUE /\ mtx = "free"
  /\ run = "connect" /\ msg = NoMsg
  /\ worker = [w \in Workers |-> "idle"] /\ resp = [w \in Workers |-> NoMsg]
  /\ owner = "owns" /\ pushes = 0

Alive == owner # "terminated"

-----------------------------------------------------------------------------
(* run and get *)

\* When zmq_connect fails, run returns and nobody is told.
Connect ==
  /\ Alive /\ run = "connect"
  /\ run' \in {"loop", "unconnected"}
  /\ UNCHANGED <<msg_list, status, mtx, msg, worker, resp, owner, pushes>>

TestStatus ==
  /\ Alive /\ run = "loop"
  /\ run' = IF status THEN "get" ELSE "ended"
  /\ UNCHANGED <<msg_list, status, mtx, msg, worker, resp, owner, pushes>>

Wait ==
  /\ Alive /\ mtx = "free" /\ msg_list = <<>>
  /\ run = "woken" \/ (run = "get" /\ status)
  /\ run' = "wait"
  /\ UNCHANGED <<msg_list, status, mtx, msg, worker, resp, owner, pushes>>

WakeUp ==
  /\ Alive /\ run = "wait"
  /\ run' \in {"woken", "timedOut"}
  /\ UNCHANGED <<msg_list, status, mtx, msg, worker, resp, owner, pushes>>

\* Mutant: the time-out ends the loop.
GetFailsForGood ==
  /\ Alive /\ mtx = "free" /\ run = "timedOut" /\ msg_list = <<>>
  /\ run' = "ended"
  /\ UNCHANGED <<msg_list, status, mtx, msg, worker, resp, owner, pushes>>

GetFails ==
  /\ Alive /\ mtx = "free" /\ run = "timedOut" /\ msg_list = <<>>
  /\ run' = "loop"
  /\ UNCHANGED <<msg_list, status, mtx, msg, worker, resp, owner, pushes>>

\* Mutant: the newest response is sent first.
TakeNewest ==
  /\ Alive /\ mtx = "free" /\ msg_list # <<>>
  /\ run \in {"woken", "timedOut"} \/ (run = "get" /\ status)
  /\ msg' = msg_list[Len(msg_list)]
  /\ msg_list' = SubSeq(msg_list, 1, Len(msg_list) - 1)
  /\ run' = "send"
  /\ UNCHANGED <<status, mtx, worker, resp, owner, pushes>>

Take ==
  /\ Alive /\ mtx = "free" /\ msg_list # <<>>
  /\ run \in {"woken", "timedOut"} \/ (run = "get" /\ status)
  /\ msg' = Head(msg_list)
  /\ msg_list' = Tail(msg_list)
  /\ run' = "send"
  /\ UNCHANGED <<status, mtx, worker, resp, owner, pushes>>

Send ==
  /\ Alive /\ run = "send"
  /\ msg' = NoMsg
  /\ run' = "loop"
  /\ UNCHANGED <<msg_list, status, mtx, worker, resp, owner, pushes>>

-----------------------------------------------------------------------------
(* push *)

\* An object that has been destroyed is not pushed to.
PushCall(w) ==
  /\ worker[w] = "idle" /\ pushes < MaxPushes /\ owner \notin {"destroyed", "terminated"}
  /\ pushes' = pushes + 1
  /\ \E x \in Responses : resp' = [resp EXCEPT ![w] = x]
  /\ worker' = [worker EXCEPT ![w] = "push"]
  /\ UNCHANGED <<msg_list, status, mtx, run, msg, owner>>

Push(w) ==
  /\ Alive /\ mtx = "free" /\ worker[w] = "push"
  /\ msg_list' = Append(msg_list, resp[w])
  /\ worker' = [worker EXCEPT ![w] = "notify"]
  /\ UNCHANGED <<status, mtx, run, msg, resp, owner, pushes>>

NotifyOne(w) ==
  /\ Alive /\ worker[w] = "notify"
  /\ run' = IF run = "wait" THEN "woken" ELSE run
  /\ worker' = [worker EXCEPT ![w] = "idle"]
  /\ UNCHANGED <<msg_list, status, mtx, msg, resp, owner, pushes>>

-----------------------------------------------------------------------------
(* The owner. *)

\* Mutant: the mutex is released before the join.
ShutdownUnlocks ==
  /\ owner = "owns" /\ mtx = "free"
  /\ status' = FALSE
  /\ run' = IF run = "wait" THEN "woken" ELSE run
  /\ owner' = "joining"
  /\ UNCHANGED <<mtx, msg_list, msg, worker, resp, pushes>>

Shutdown ==
  /\ owner = "owns" /\ mtx = "free"
  /\ mtx' = "owner"
  /\ status' = FALSE
  /\ run' = IF run = "wait" THEN "woken" ELSE run
  /\ owner' = "joining"
  /\ UNCHANGED <<msg_list, msg, worker, resp, pushes>>

Joined ==
  /\ owner = "joining" /\ run \in {"ended", "unconnected"}
  /\ mtx' = "free"
  /\ owner' = "joined"
  /\ UNCHANGED <<msg_list, status, run, msg, worker, resp, pushes>>

\* Deleting a std::thread that was not joined ends the process.
Destroy ==
  /\ owner \in {"owns", "joined"} /\ \A w \in Workers : worker[w] = "idle"
  /\ owner' = IF owner = "joined" THEN "destroyed" ELSE "terminated"
  /\ UNCHANGED <<msg_list, status, mtx, run, msg, worker, resp, pushes>>

-----------------------------------------------------------------------------
RunStep == \/ Connect \/ TestStatus \/ Wait \/ WakeUp
           \/ GetFails \/ Take \/ Send
WorkerStep(w) == Push(w) \/ NotifyOne(w)

Next ==
  \/ RunStep
  \/ \E w \in Workers : PushCall(w) \/ WorkerStep(w)
  \/ Shutdown \/ Joined \/ Destroy

Spec == Init /\ [][Next]_vars

\* Threads keep running; nobody has to push, to shut down or to destroy.
FairSpec == /\ Spec
            /\ WF_vars(RunStep) /\ WF_vars(Joined)
            /\ \A w \in Workers : WF_vars(WorkerStep(w))

-----------------------------------------------------------------------------
(* Properties. *)

TQ == INSTANCE TaskQueue
        WITH Workers <- {Sender}, Items <- Responses, NoItem <- NoMsg,
             tasks <- msg_list, hand <- [s \in {Sender} |-> msg], open <- status,
             late <- IF ~ status /\ run \in Inside THEN {Sender} ELSE {}

\* The sender's list is a first-in first-out task queue with one worker:
\* responses leave in the order they were pushed, each once, and shutdown
\* forsakes what is left in the list.
ImplementsTaskQueue == TQ!Spec

\* While the sender is neither shut down nor destroyed nor ended by a failed
\* connect, a response in the list is sent.
ResponsesAreSent ==
  \A n \in 1 .. MaxPushes :
    (Len(msg_list) = n ~> Len(msg_list) # n \/ run = "unconnected" \/ owner # "owns")

\* Once shutdown has found the thread inside get, it does not return, nothing
\* more is sent, and no push gets through.
StuckInsideGet ==
  [][owner = "joining" /\ run \in Inside \cup {"get"}
       => /\ owner' = "joining" /\ run' \in Inside \cup {"get"}
          /\ msg_list' = msg_list]_vars

\* shutdown, which joins the sender with the mutex held, returns when it finds
\* the thread outside get; when it finds it inside, it never does, nothing
\* more is sent, and no push returns.
ShutdownReturnsUnlessInsideGet ==
  /\ (owner = "joining" /\ run \in {"connect", "loop", "send", "ended", "unconnected"}
        ~> owner = "joined")
  /\ StuckInsideGet

=============================================================================
