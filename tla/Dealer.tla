-------------------------------- MODULE Dealer --------------------------------
(***************************************************************************)
(* The verifier process: the ZmqWorker poll loop, the Dispatcher, one      *)
(* DQueue per interface with its Worker threads, the ZmqSender thread, and *)
(* the zframe_t address frame that all copies of a ZmqMessage share.       *)
(*                                                                         *)
(*   router -> front -> ZmqWorker -> dqs[i] -> Worker -> msgList           *)
(*   router <- back  <- ZmqWorker <- inproc <- ZmqSender <-/               *)
(*                                                                         *)
(* The router process, the network and the clients are the environment.    *)
(* Queue operations are one step each: they run under the queue's mutex    *)
(* (module DQueue looks inside).                                           *)
(***************************************************************************)
EXTENDS Naturals, Sequences, Functions

CONSTANTS
  Requests,    \* the requests clients may send
  Clients,     \* the clients
  Owner,       \* Owner[r]: the client that sends r
  Body,        \* Body[r]: what the ZmqWorker's checks make of r's body
  Workers,     \* the Worker threads of all DQueues
  Serves,      \* Serves[w]: the interface of the DQueue worker w belongs to
  FlagValues,  \* values the sender's uninitialised ZmqMessage::flags may have
  MaxFaults,   \* bound on crashes and poll errors
  NoRequest    \* no message in hand

Interfaces == {"MONITOR", "YOLO", "SHIP", "SAR"}

\* "empty": strlen is 0; "syntax": Reader::parse fails; "range": interface
\* is not in 0 .. INTERFACEID_COUNT-1.
BodyKinds == Interfaces \cup {"empty", "syntax", "range"}

\* The interfaces with a DQueue: those whose pool has at least one worker.
Registered == {Serves[w] : w \in Workers}

Results == Interfaces \cup {"FINDER_NO_SERVICE", "PARAMS_ERROR", "unkonown message"}

ASSUME ConstantsAssumption ==
  /\ Owner \in [Requests -> Clients]
  /\ Body \in [Requests -> BodyKinds]
  /\ Serves \in [Workers -> Interfaces \ {"MONITOR"}]
  /\ FlagValues \in (SUBSET Nat) \ {{}}
  /\ MaxFaults \in Nat
  /\ NoRequest \notin Requests

VARIABLES
  sent,      \* the requests sent so far, in the order they reach the router
  front,     \* requests on their way from the router to rspSock
  back,      \* multipart messages on their way from rspSock to the router
  partial,   \* frames sent on rspSock with ZFRAME_MORE, still to be completed
  mailbox,   \* mailbox[c]: the replies client c received
  up,        \* is the verifier process running
  wpc,       \* where the ZmqWorker thread is
  revents,   \* the sockets the last zmq_poll reported readable
  inproc,    \* multipart messages on the inproc socket between the threads
  dqs,       \* dqs[i]: DQueue::msg_list of interface i
  message,   \* message[w]: the request worker w is handling
  msgList,   \* ZmqSender::msg_list
  msg,       \* the sender's local ZmqMessage
  spc,       \* where the sender thread is
  flags,     \* the sender's msg.flags, never written
  addr,      \* addr[r]: the address frame popped for r
  faults     \* crashes and poll errors so far

vars == <<sent, front, back, partial, mailbox, up, wpc, revents, inproc, dqs,
          message, msgList, msg, spc, flags, addr, faults>>
network == <<sent, front, back, mailbox>>
loop    == <<wpc, revents, partial>>
sender  == <<msgList, msg, spc, flags>>

Answers == [req : Requests, result : Results]
NoAnswer == [req |-> NoRequest, result |-> "none"]
Frames == [kind : {"addr"}, req : Requests] \cup
          [kind : {"body"}, req : Requests, result : Results]
AddrFrame(r) == [kind |-> "addr", req |-> r]
BodyFrame(a) == [kind |-> "body", req |-> a.req, result |-> a.result]

\* What the handler of worker w's pool says to request r: HandlerX::handle
\* only serves its own msgType.
HandlerResult(w, r) == IF Body[r] = Serves[w] THEN Body[r] ELSE "unkonown message"

Init ==
  /\ sent = <<>> /\ front = <<>> /\ back = <<>>
  /\ mailbox = [c \in Clients |-> <<>>]
  /\ up = TRUE
  /\ wpc = "poll" /\ revents = {} /\ partial = <<>>
  /\ inproc = <<>>
  /\ dqs = [i \in Interfaces |-> <<>>]
  /\ message = [w \in Workers |-> NoRequest]
  /\ msgList = <<>> /\ msg = NoAnswer /\ spc = "get"
  /\ flags \in FlagValues
  /\ addr = [r \in Requests |-> "none"]
  /\ faults = 0

-----------------------------------------------------------------------------
(* Clients and router. *)

Send(r) ==
  /\ r \notin Range(sent)
  /\ sent' = Append(sent, r)
  /\ front' = Append(front, r)
  /\ UNCHANGED <<back, mailbox, up, loop, inproc, dqs, message, sender, addr, faults>>

\* The ROUTER socket routes a message by its first frame and drops it when
\* that is not the identity of a client.
RouterDeliver ==
  /\ back # <<>>
  /\ back' = Tail(back)
  /\ LET m == Head(back) IN
       mailbox' = IF m[1].kind = "addr"
                  THEN [mailbox EXCEPT ![Owner[m[1].req]] =
                          Append(@, [req |-> m[2].req, result |-> m[2].result])]
                  ELSE mailbox
  /\ UNCHANGED <<sent, front, up, loop, inproc, dqs, message, sender, addr, faults>>

-----------------------------------------------------------------------------
(* ZmqWorker::run. *)

Readable == {s \in {"rspSock", "rspSockSend"} :
               IF s = "rspSock" THEN front # <<>> ELSE inproc # <<>>}

\* Mutant: the loop reads both sockets whatever revents says.
PollIgnoresRevents ==
  /\ up /\ wpc = "poll"
  /\ Readable # {}
  /\ revents' = {"rspSock", "rspSockSend"}
  /\ wpc' = IF "rspSockSend" \in Readable THEN "response" ELSE "request"
  /\ UNCHANGED <<network, partial, up, inproc, dqs, message, sender, addr, faults>>

\* A poll that times out leaves everything as it is.
Poll ==
  /\ up /\ wpc = "poll"
  /\ Readable # {}
  /\ revents' = Readable
  /\ wpc' = IF "rspSockSend" \in Readable THEN "response" ELSE "request"
  /\ UNCHANGED <<network, partial, up, inproc, dqs, message, sender, addr, faults>>

\* zmq_poll returns -1: the loop is left and both sockets are closed.
PollError ==
  /\ up /\ wpc = "poll"
  /\ faults < MaxFaults
  /\ faults' = faults + 1
  /\ wpc' = "closed" /\ revents' = {} /\ partial' = <<>>
  /\ inproc' = <<>>
  /\ UNCHANGED <<network, up, dqs, message, sender, addr>>

\* The address frame goes out with ZFRAME_MORE; a response of a single frame
\* is taken for the address, and cont is NULL: nothing completes the message.
ForwardResponse ==
  /\ up /\ wpc = "response"
  /\ inproc' = Tail(inproc)
  /\ LET m == Head(inproc) IN
       \/ /\ Len(m) = 2
          /\ back' = Append(back, partial \o m)
          /\ partial' = <<>>
       \/ /\ Len(m) = 1
          /\ partial' = partial \o m
          /\ UNCHANGED back
  /\ wpc' = IF "rspSock" \in revents THEN "request" ELSE "poll"
  /\ UNCHANGED <<sent, front, mailbox, up, revents, dqs, message, sender, addr, faults>>

\* Mutant: an error reply forgets its address frame.
ReplyErrorKeepsFrame(r, code) ==
  /\ back' = Append(back, partial \o
               <<AddrFrame(r), BodyFrame([req |-> r, result |-> code])>>)
  /\ partial' = <<>>
  /\ addr' = [addr EXCEPT ![r] = "live"]
  /\ UNCHANGED dqs

\* Mutant: an error reply goes out without its address frame.
ReplyErrorNoAddr(r, code) ==
  /\ back' = Append(back, partial \o <<BodyFrame([req |-> r, result |-> code])>>)
  /\ partial' = <<>>
  /\ addr' = [addr EXCEPT ![r] = "freed"]
  /\ UNCHANGED dqs

\* An error reply of the ZmqWorker itself: sent on rspSock at once, and the
\* address frame destroyed.
ReplyError(r, code) ==
  /\ back' = Append(back, partial \o
               <<AddrFrame(r), BodyFrame([req |-> r, result |-> code])>>)
  /\ partial' = <<>>
  /\ addr' = [addr EXCEPT ![r] = "freed"]
  /\ UNCHANGED dqs

\* Mutant: the frame is destroyed after a successful dispatch too.
DispatchDestroys(r) ==
  /\ dqs' = [dqs EXCEPT ![Body[r]] = Append(@, r)]
  /\ addr' = [addr EXCEPT ![r] = "freed"]
  /\ UNCHANGED <<back, partial>>

\* Mutant: a queue that holds a message already takes no second one.
DispatchIfFree(r) ==
  /\ dqs' = [dqs EXCEPT ![Body[r]] = IF @ = <<>> THEN <<r>> ELSE @]
  /\ addr' = [addr EXCEPT ![r] = IF dqs[Body[r]] = <<>> THEN "live" ELSE "freed"]
  /\ UNCHANGED <<back, partial>>

\* dispatchDq: the queue gets a copy of the message, and with it the frame.
DispatchDq(r) ==
  /\ dqs' = [dqs EXCEPT ![Body[r]] = Append(@, r)]
  /\ addr' = [addr EXCEPT ![r] = "live"]
  /\ UNCHANGED <<back, partial>>

ReceiveRequest ==
  /\ up /\ wpc = "request"
  /\ front' = Tail(front)
  /\ LET r == Head(front) IN
       \/ /\ Body[r] = "empty"
          /\ addr' = [addr EXCEPT ![r] = "live"]
          /\ UNCHANGED <<back, partial, dqs>>
       \/ /\ Body[r] \in {"syntax", "range"}
          /\ ReplyError(r, "PARAMS_ERROR")
       \/ /\ Body[r] \in Interfaces \ Registered
          /\ ReplyError(r, "FINDER_NO_SERVICE")
       \/ /\ Body[r] \in Registered
          /\ DispatchDq(r)
  /\ wpc' = "poll"
  /\ UNCHANGED <<sent, mailbox, up, revents, inproc, message, sender, faults>>

-----------------------------------------------------------------------------
(* Worker<DQueue>::run. *)

\* Mutant: get copies the front of the list and does not pop it.
WorkerGetKeeps(w) ==
  /\ up /\ message[w] = NoRequest
  /\ dqs[Serves[w]] # <<>>
  /\ message' = [message EXCEPT ![w] = Head(dqs[Serves[w]])]
  /\ UNCHANGED <<network, up, loop, inproc, dqs, sender, addr, faults>>

\* DQueue::get: a time-out changes nothing.
WorkerGet(w) ==
  /\ up /\ message[w] = NoRequest
  /\ dqs[Serves[w]] # <<>>
  /\ message' = [message EXCEPT ![w] = Head(dqs[Serves[w]])]
  /\ dqs' = [dqs EXCEPT ![Serves[w]] = Tail(@)]
  /\ UNCHANGED <<network, up, loop, inproc, sender, addr, faults>>

\* handler->handle, then ZmqMessage::call, which pushes a copy to the sender.
WorkerCall(w) ==
  /\ up /\ message[w] # NoRequest
  /\ msgList' = Append(msgList, [req |-> message[w],
                                 result |-> HandlerResult(w, message[w])])
  /\ message' = [message EXCEPT ![w] = NoRequest]
  /\ UNCHANGED <<network, up, loop, inproc, dqs, msg, spc, flags, addr, faults>>

-----------------------------------------------------------------------------
(* ZmqSender::run. *)

\* Mutant: run does not look at what get returned.
SenderGetIgnoresResult ==
  /\ up /\ spc = "get"
  /\ IF msgList # <<>> THEN msg' = Head(msgList) /\ msgList' = Tail(msgList)
                      ELSE UNCHANGED <<msg, msgList>>
  /\ spc' = "send"
  /\ UNCHANGED <<network, up, loop, inproc, dqs, message, flags, addr, faults>>

\* Mutant: the newest response is taken first.
SenderGetNewest ==
  /\ up /\ spc = "get"
  /\ msgList # <<>>
  /\ msg' = msgList[Len(msgList)]
  /\ msgList' = SubSeq(msgList, 1, Len(msgList) - 1)
  /\ spc' = "send"
  /\ UNCHANGED <<network, up, loop, inproc, dqs, message, flags, addr, faults>>

\* msg = msg_list.front() copies everything but flags.
SenderGet ==
  /\ up /\ spc = "get"
  /\ msgList # <<>>
  /\ msg' = Head(msgList)
  /\ msgList' = Tail(msgList)
  /\ spc' = "send"
  /\ UNCHANGED <<network, up, loop, inproc, dqs, message, flags, addr, faults>>

\* Mutant: the test of flags is inverted.
SenderSendInverted ==
  /\ up /\ spc = "send"
  /\ wpc # "closed"
  /\ inproc' = Append(inproc, IF flags # 0
                              THEN <<AddrFrame(msg.req), BodyFrame(msg)>>
                              ELSE <<BodyFrame(msg)>>)
  /\ spc' = "destroy"
  /\ UNCHANGED <<network, up, loop, dqs, message, msgList, msg, flags, addr, faults>>

\* A DEALER socket without a peer blocks: nothing leaves once the ZmqWorker
\* has closed the other end of inproc.
SenderSend ==
  /\ up /\ spc = "send"
  /\ wpc # "closed"
  /\ inproc' = Append(inproc, IF flags = 0
                              THEN <<AddrFrame(msg.req), BodyFrame(msg)>>
                              ELSE <<BodyFrame(msg)>>)
  /\ spc' = "destroy"
  /\ UNCHANGED <<network, up, loop, dqs, message, msgList, msg, flags, addr, faults>>

\* Mutant: the sender's loop ends after its first response.
SenderDestroyOnce ==
  /\ up /\ spc = "destroy"
  /\ addr' = [addr EXCEPT ![msg.req] = "freed"]
  /\ msg' = NoAnswer
  /\ spc' = "done"
  /\ UNCHANGED <<network, up, loop, inproc, dqs, message, msgList, flags, faults>>

SenderDestroy ==
  /\ up /\ spc = "destroy"
  /\ addr' = [addr EXCEPT ![msg.req] = "freed"]
  /\ msg' = NoAnswer
  /\ spc' = "get"
  /\ UNCHANGED <<network, up, loop, inproc, dqs, message, msgList, flags, faults>>

-----------------------------------------------------------------------------
(* The life of the process. *)

\* The process memory is gone.  Of the requests in flight those it had
\* already taken off the wire are lost, of its replies those still in its
\* sockets.
Die ==
  /\ up' = FALSE
  /\ \E k \in 0 .. Len(front) : front' = SubSeq(front, k + 1, Len(front))
  /\ \E k \in 0 .. Len(back) : back' = SubSeq(back, 1, k)
  /\ partial' = <<>> /\ inproc' = <<>> /\ revents' = {} /\ wpc' = "poll"
  /\ dqs' = [i \in Interfaces |-> <<>>]
  /\ message' = [w \in Workers |-> NoRequest]
  /\ msgList' = <<>> /\ msg' = NoAnswer /\ spc' = "get"
  /\ addr' = [r \in Requests |-> "none"]
  /\ UNCHANGED <<sent, mailbox, flags>>

\* An exception no thread catches (Json::Value::operator[] on a body that is
\* not an object, a failing handler) or a signal ends the process.
Crash ==
  /\ up
  /\ faults < MaxFaults
  /\ faults' = faults + 1
  /\ Die

\* start() returned because the loop was left: shutdownDq calls shutdown on
\* the null DQueue of an unregistered interface, which ends the process.
\* MONITOR is never registered, so there always is one.
MainShutdown ==
  /\ up /\ wpc = "closed"
  /\ Die
  /\ UNCHANGED faults

\* monitor.sh, run by cron, finds no verifier process and starts one.
Restart ==
  /\ ~ up
  /\ up' = TRUE
  /\ flags' \in FlagValues
  /\ UNCHANGED <<network, loop, inproc, dqs, message, msgList, msg, spc, addr, faults>>

-----------------------------------------------------------------------------
ZmqWorkerStep == Poll \/ ForwardResponse \/ ReceiveRequest
SenderStep == SenderGet \/ SenderSend \/ SenderDestroy

Next ==
  \/ \E r \in Requests : Send(r)
  \/ RouterDeliver
  \/ Poll \/ PollError \/ ForwardResponse \/ ReceiveRequest
  \/ \E w \in Workers : WorkerGet(w) \/ WorkerCall(w)
  \/ SenderGet \/ SenderSend \/ SenderDestroy
  \/ Crash \/ MainShutdown \/ Restart

Spec == Init /\ [][Next]_vars

\* Every thread keeps running, handlers return, the router forwards, cron
\* restarts a process that is gone.  Clients need not send anything.
Fairness ==
  /\ WF_vars(ZmqWorkerStep)
  /\ \A w \in Workers : WF_vars(WorkerGet(w) \/ WorkerCall(w))
  /\ WF_vars(SenderStep)
  /\ WF_vars(RouterDeliver)
  /\ WF_vars(MainShutdown)
  /\ WF_vars(Restart)

FairSpec == Spec /\ Fairness

-----------------------------------------------------------------------------
(* Properties. *)

TypeOK ==
  /\ sent \in Seq(Requests) /\ front \in Seq(Requests)
  /\ back \in Seq(Seq(Frames)) /\ partial \in Seq(Frames)
  /\ mailbox \in [Clients -> Seq(Answers)]
  /\ up \in BOOLEAN
  /\ wpc \in {"poll", "response", "request", "closed"}
  /\ revents \in SUBSET {"rspSock", "rspSockSend"}
  /\ inproc \in Seq(Seq(Frames))
  /\ dqs \in [Interfaces -> Seq(Requests)]
  /\ message \in [Workers -> Requests \cup {NoRequest}]
  /\ msgList \in Seq(Answers)
  /\ msg \in Answers \cup {NoAnswer}
  /\ spc \in {"get", "send", "destroy"}
  /\ flags \in FlagValues
  /\ addr \in [Requests -> {"none", "live", "freed"}]
  /\ faults \in 0 .. MaxFaults

\* Some copy of r's ZmqMessage holds the frame pointer and will still use it.
Pointing(r) ==
  \/ \E i \in Interfaces : r \in Range(dqs[i])
  \/ \E w \in Workers : message[w] = r
  \/ \E j \in DOMAIN msgList : msgList[j].req = r
  \/ msg.req = r

\* No use after free and no double free of an address frame, although every
\* copy of a ZmqMessage shares the pointer and three threads pass it on.
PointersLive == \A r \in Requests : Pointing(r) => addr[r] = "live"

\* An address frame that is still allocated has somebody who will free it,
\* unless the body was empty: that path of ZmqWorker::run forgets the frame.
NoLostFrame == \A r \in Requests : addr[r] = "live" => Pointing(r) \/ Body[r] = "empty"

\* The socket reads of the loop never block it: between zmq_poll and the read
\* nobody else takes the message the poll reported.
ReadsNeverBlock == /\ wpc = "request" => front # <<>>
                   /\ wpc = "response" => inproc # <<>>

\* With router-mode messages every multipart message on its way to the router
\* is an address followed by the body that answers that very request: the
\* frames of error replies and forwarded responses never mix on rspSock.
RepliesPaired ==
  /\ partial = <<>>
  /\ \A i \in DOMAIN back :
       /\ Len(back[i]) = 2
       /\ back[i][1].kind = "addr" /\ back[i][2].kind = "body"
       /\ back[i][1].req = back[i][2].req

\* ZmqMessage.h says of flags: 0 means return in router mode.  Every message
\* is created with flags 0, so every one should leave with its address.
RouterModeReturn == \A i \in DOMAIN inproc : Len(inproc[i]) = 2

Precedes(s, x, y) == \E i, j \in DOMAIN s : i < j /\ s[i] = x /\ s[j] = y
RepliesOf(c) == [i \in DOMAIN mailbox[c] |-> mailbox[c][i].req]

\* One worker behind an interface: a client gets the replies of that
\* interface in the order of its requests, through both queues and both
\* sockets.
OneWorkerKeepsOrder ==
  \A q, r \in Requests :
    /\ Body[q] = Body[r] /\ Owner[q] = Owner[r]
    /\ \A v, w \in Workers : Serves[v] = Body[r] /\ Serves[w] = Body[r] => v = w
    /\ Precedes(RepliesOf(Owner[r]), q, r)
    => Precedes(sent, q, r)

\* What a reply to r has to say.
Verdict ==
  [r \in Requests |->
     CASE Body[r] = "empty" -> "silence"
       [] Body[r] \in {"syntax", "range"} -> "PARAMS_ERROR"
       [] Body[r] \in Interfaces \ Registered -> "FINDER_NO_SERVICE"
       [] OTHER -> Body[r]]

RR == INSTANCE RequestReply WITH asked <- Range(sent)

\* The process behaves as RequestReply promises, crashes included: a request
\* gets at most one reply, the right one, and only its client gets it.
ImplementsRequestReply == RR!Spec

Answered(r) == RR!Received(r)

\* No thread of the process and no socket has anything left to do.
Resting ==
  /\ up /\ wpc = "poll" /\ Readable = {} /\ back = <<>>
  /\ \A w \in Workers : message[w] = NoRequest /\ dqs[Serves[w]] = <<>>
  /\ spc = "get" /\ msgList = <<>>

\* Nothing is forgotten: as long as no fault occurred and flags is 0, a
\* process that rests has answered every request with a body.  None of them
\* was dropped between two of the eight places it passes through.
RestingMeansAnswered ==
  flags = 0 /\ faults = 0 /\ Resting =>
    \A r \in Range(sent) : Body[r] = "empty" \/ Answered(r)

\* Without faults, and with flags as they were set, every request with a body
\* is answered: no response stays behind in a queue, in a worker or in a
\* half-sent multipart message.
EveryRequestAnswered ==
  \A r \in Requests : Body[r] # "empty" =>
    (flags = 0 /\ r \in Range(sent) ~> Answered(r))

\* Once the last fault is behind it, a running process answers every request
\* it still has or will still read, a restarted process included.
RecoversService ==
  \A r \in Requests : Body[r] # "empty" =>
    ((/\ faults = MaxFaults /\ up /\ wpc # "closed"
      /\ r \in Range(front) \/ Pointing(r)) ~> Answered(r))
=============================================================================
