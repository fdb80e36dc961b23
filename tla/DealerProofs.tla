---------------------------- MODULE DealerProofs ----------------------------
(***************************************************************************)
(* Theorems about Dealer for every set of requests, clients and workers    *)
(* and every interleaving, crashes included: its types, the custody of the *)
(* address frames, and what the clients may count on.                      *)
(***************************************************************************)
EXTENDS Dealer, SequenceTheorems, TLAPS

-----------------------------------------------------------------------------
(* Where the elements of a queue come from after one operation on it.        *)

(* push_back: the new element is the last one, the others stay.            *)
LEMMA AppendElements ==
  ASSUME NEW S, NEW s \in Seq(S), NEW e \in S
  PROVE  /\ Append(s, e) \in Seq(S)
         /\ Append(s, e) # <<>>
         /\ DOMAIN Append(s, e) = DOMAIN s \cup {Len(s) + 1}
         /\ Len(s) + 1 \notin DOMAIN s
         /\ Append(s, e)[Len(s) + 1] = e
         /\ \A i \in DOMAIN s : Append(s, e)[i] = s[i]
         /\ \A i \in DOMAIN Append(s, e) :
              Append(s, e)[i] = e \/ (i \in DOMAIN s /\ Append(s, e)[i] = s[i])
<1>1. DOMAIN s = 1 .. Len(s) /\ Len(s) \in Nat
  BY LenProperties
<1>2. DOMAIN Append(s, e) = 1 .. Len(s) + 1
  BY AppendProperties, LenProperties
<1>3. QED BY <1>1, <1>2, AppendProperties

(* pop_front: the element after the first moves to its place.              *)
LEMMA TailElements ==
  ASSUME NEW S, NEW s \in Seq(S), s # <<>>
  PROVE  /\ Tail(s) \in Seq(S)
         /\ 1 \in DOMAIN s /\ Head(s) = s[1] /\ Head(s) \in S
         /\ \A i \in DOMAIN Tail(s) : i + 1 \in DOMAIN s /\ i + 1 # 1 /\ Tail(s)[i] = s[i + 1]
<1>1. DOMAIN s = 1 .. Len(s) /\ Len(s) \in Nat \ {0}
  BY LenProperties, EmptySeq
<1>2. /\ Tail(s) \in Seq(S) /\ Len(Tail(s)) = Len(s) - 1
      /\ \A i \in 1 .. Len(Tail(s)) : Tail(s)[i] = s[i + 1]
  BY HeadTailProperties
<1>3. DOMAIN Tail(s) = 1 .. Len(s) - 1
  BY <1>2, LenProperties
<1>4. QED BY <1>1, <1>2, <1>3, HeadTailProperties

(* A prefix keeps its elements at their places.                            *)
LEMMA PrefixElements ==
  ASSUME NEW S, NEW s \in Seq(S), NEW n \in 0 .. Len(s)
  PROVE  /\ SubSeq(s, 1, n) \in Seq(S)
         /\ DOMAIN SubSeq(s, 1, n) = 1 .. n
         /\ \A i \in DOMAIN SubSeq(s, 1, n) : i \in DOMAIN s /\ SubSeq(s, 1, n)[i] = s[i]
<1>1. DOMAIN s = 1 .. Len(s) /\ Len(s) \in Nat /\ \A i \in 1 .. n : s[i] \in S
  BY LenProperties, ElementOfSeq
<1>2. /\ SubSeq(s, 1, n) \in Seq(S)
      /\ Len(SubSeq(s, 1, n)) = IF 1 <= n THEN n - 1 + 1 ELSE 0
      /\ \A i \in 1 .. n - 1 + 1 : SubSeq(s, 1, n)[i] = s[1 + i - 1]
  BY <1>1, SubSeqProperties
<1>3. Len(SubSeq(s, 1, n)) = n
  BY <1>1, <1>2
<1>4. QED BY <1>1, <1>2, <1>3, LenProperties

(* A suffix keeps its elements in their order.                             *)
LEMMA SuffixElements ==
  ASSUME NEW S, NEW s \in Seq(S), NEW k \in 0 .. Len(s)
  PROVE  /\ SubSeq(s, k + 1, Len(s)) \in Seq(S)
         /\ DOMAIN SubSeq(s, k + 1, Len(s)) = 1 .. Len(s) - k
         /\ \A i \in 1 .. Len(s) - k :
              k + i \in DOMAIN s /\ SubSeq(s, k + 1, Len(s))[i] = s[k + i]
<1> DEFINE m == k + 1
           n == Len(s)
           u == SubSeq(s, m, n)
<1>1. DOMAIN s = 1 .. n /\ n \in Nat
  BY LenProperties
<1>2. k \in Nat /\ k <= n /\ m \in Int /\ n \in Int /\ n - m + 1 = n - k /\ m = k + 1
  BY <1>1
<1>3. \A i \in m .. n : s[i] \in S
  BY <1>1, <1>2, ElementOfSeq
<1>5. \A i \in 1 .. n - k : k + i \in 1 .. n /\ m + i - 1 = k + i
  BY <1>1, <1>2
<1> HIDE DEF m, n
<1>4. ~ (m <= n) => n - k = 0
  BY <1>2
<1>6. /\ u \in Seq(S)
      /\ Len(u) = IF m <= n THEN n - m + 1 ELSE 0
      /\ \A i \in 1 .. n - m + 1 : u[i] = s[m + i - 1]
  BY <1>2, <1>3, SubSeqProperties
<1> HIDE DEF u
<1>7. Len(u) = n - k
  BY <1>2, <1>4, <1>6
<1>8. DOMAIN u = 1 .. n - k
  BY <1>6, <1>7, LenProperties
<1>9. \A i \in 1 .. n - k : k + i \in DOMAIN s /\ u[i] = s[k + i]
  BY <1>1, <1>2, <1>5, <1>6
<1>10. QED BY <1>6, <1>8, <1>9 DEF u, m, n

(* Completing a multipart message: the two new frames come last, and first *)
(* only when nothing was sent before them.                                 *)
LEMMA ConcatPair ==
  ASSUME NEW S, NEW s \in Seq(S), NEW a \in S, NEW b \in S
  PROVE  /\ s \o <<a, b>> \in Seq(S)
         /\ Len(s \o <<a, b>>) = Len(s) + 2
         /\ s = <<>> => s \o <<a, b>> = <<a, b>>
         /\ s # <<>> => 1 \in DOMAIN s /\ (s \o <<a, b>>)[1] = s[1]
<1> DEFINE t == <<a, b>>
<1>1. t \in Seq(S) /\ Len(t) = 2
  OBVIOUS
<1> HIDE DEF t
<1>2. DOMAIN s = 1 .. Len(s) /\ Len(s) \in Nat /\ (s # <<>> => Len(s) # 0)
  BY LenProperties, EmptySeq
<1>3. /\ s \o t \in Seq(S)
      /\ Len(s \o t) = Len(s) + Len(t)
      /\ \A i \in 1 .. Len(s) + Len(t) :
           (s \o t)[i] = IF i <= Len(s) THEN s[i] ELSE t[i - Len(s)]
  BY <1>1, ConcatProperties, Zenon
<1>4. s = <<>> => s \o t = t
  BY <1>1, ConcatEmptySeq
<1>5. ASSUME s # <<>> PROVE 1 \in DOMAIN s /\ (s \o t)[1] = s[1]
  BY <1>1, <1>2, <1>3, <1>5
<1>6. QED BY <1>1, <1>3, <1>4, <1>5 DEF t

-----------------------------------------------------------------------------
(* Types: what each variable and each socket holds.                          *)

(* What travels on the sockets: inproc carries an answer with or without its *)
(* address frame, partial only ever collects responses that lost theirs, and *)
(* a message to the router that starts with an address goes on with a body.  *)
Handed(m) == \E a \in Answers :
               m = <<AddrFrame(a.req), BodyFrame(a)>> \/ m = <<BodyFrame(a)>>
Routable(m) == Len(m) > 0 /\ (m[1].kind = "addr" => Len(m) = 2 /\ m[2].kind = "body")

MessageShape ==
  /\ \A i \in DOMAIN inproc : Handed(inproc[i])
  /\ \A i \in DOMAIN partial : partial[i].kind = "body"
  /\ \A i \in DOMAIN back : Routable(back[i])

(* What a thread has in hand at each place of its loop: the ZmqWorker what   *)
(* the last poll reported, the sender the answer it took from its list.      *)
InHand ==
  /\ ReadsNeverBlock
  /\ wpc = "response" /\ "rspSock" \in revents => front # <<>>
  /\ ~ up => wpc = "poll" /\ spc = "get"
  /\ spc # "get" => msg \in Answers

TypeInv == TypeOK /\ MessageShape /\ InHand

LEMMA TypeInvInit == Init => TypeInv
  BY ConstantsAssumption DEF Init, TypeInv, TypeOK, NoAnswer, MessageShape, InHand, ReadsNeverBlock

(* A message completed on rspSock: if it starts with an address, nothing was *)
(* pending and it is the address and the body just sent.                     *)
LEMMA CompletedShape ==
  ASSUME TypeOK, MessageShape, NEW a \in Answers,
         NEW n, n = partial \o <<AddrFrame(a.req), BodyFrame(a)>>
  PROVE  n \in Seq(Frames) /\ Routable(n)
<1>1. /\ AddrFrame(a.req) \in Frames /\ BodyFrame(a) \in Frames
      /\ BodyFrame(a).kind = "body"
  BY DEF AddrFrame, BodyFrame, Frames, Answers
<1>2. /\ n \in Seq(Frames) /\ Len(n) = Len(partial) + 2
      /\ partial = <<>> => n = <<AddrFrame(a.req), BodyFrame(a)>>
      /\ partial # <<>> => 1 \in DOMAIN partial /\ n[1] = partial[1]
  BY <1>1, ConcatPair DEF TypeOK
<1>3. CASE partial = <<>>
  BY <1>1, <1>2, <1>3 DEF Routable
<1>4. CASE partial # <<>>
  BY <1>2, <1>4, LenProperties DEF TypeOK, MessageShape, Routable
<1>5. QED BY <1>3, <1>4

LEMMA TypeInvStep == TypeInv /\ [Next]_vars => TypeInv'
<1> SUFFICES ASSUME TypeOK, MessageShape, InHand, [Next]_vars PROVE TypeInv'
  BY DEF TypeInv
<1> USE DEF TypeInv, network, loop, sender
<1>0. /\ sent \in Seq(Requests) /\ front \in Seq(Requests)
      /\ back \in Seq(Seq(Frames)) /\ inproc \in Seq(Seq(Frames))
      /\ partial \in Seq(Frames)
      /\ mailbox \in [Clients -> Seq(Answers)]
      /\ dqs \in [Interfaces -> Seq(Requests)]
      /\ addr \in [Requests -> {"none", "live", "freed"}]
      /\ msgList \in Seq(Answers)
  BY DEF TypeOK
<1>1. ASSUME NEW r \in Requests, Send(r) PROVE TypeInv'
  <2>1. front' \in Seq(Requests) /\ sent' \in Seq(Requests) /\ front' # <<>>
    BY <1>0, <1>1, AppendElements DEF Send
  <2>2. TypeOK'
    BY <1>1, <2>1 DEF Send, TypeOK
  <2>3. MessageShape'
    BY <1>1 DEF Send, MessageShape
  <2>4. InHand'
    BY <1>1, <2>1 DEF Send, InHand, ReadsNeverBlock
  <2>5. QED BY <2>2, <2>3, <2>4
<1>2. CASE RouterDeliver
  <2> DEFINE m == Head(back)
  <2>1. back # <<>> /\ m = back[1] /\ m \in Seq(Frames) /\ Routable(m)
    BY <1>0, <1>2, TailElements DEF RouterDeliver, MessageShape
  <2>2. /\ back' \in Seq(Seq(Frames))
        /\ \A i \in DOMAIN back' : i + 1 \in DOMAIN back /\ back'[i] = back[i + 1]
    BY <1>0, <1>2, TailElements DEF RouterDeliver
  <2>3. m[1].kind = "addr" =>
           /\ m[1].req \in Requests
           /\ [req |-> m[2].req, result |-> m[2].result] \in Answers
    <3> SUFFICES ASSUME m[1].kind = "addr"
                 PROVE  /\ m[1].req \in Requests
                        /\ [req |-> m[2].req, result |-> m[2].result] \in Answers
      OBVIOUS
    <3>1. m[1] \in Frames /\ m[2] \in Frames /\ m[2].kind = "body"
      BY <2>1, ElementOfSeq DEF Routable
    <3>2. QED BY <3>1 DEF Frames, Answers
  <2>4. mailbox' \in [Clients -> Seq(Answers)]
    <3> DEFINE a == [req |-> m[2].req, result |-> m[2].result]
               c == Owner[m[1].req]
    <3>1. m[1].kind = "addr" => a \in Answers /\ c \in Clients
      BY <2>3, ConstantsAssumption
    <3>2. \/ m[1].kind = "addr" /\ mailbox' = [mailbox EXCEPT ![c] = Append(mailbox[c], a)]
          \/ mailbox' = mailbox
      BY <1>2 DEF RouterDeliver
    <3> HIDE DEF a, c
    <3>3. m[1].kind = "addr" => Append(mailbox[c], a) \in Seq(Answers)
      BY <1>0, <3>1, AppendElements
    <3>4. QED BY <1>0, <3>1, <3>2, <3>3
  <2>5. TypeOK'
    BY <1>2, <2>2, <2>4 DEF RouterDeliver, TypeOK
  <2>6. MessageShape'
    BY <1>2, <2>2 DEF RouterDeliver, MessageShape
  <2>7. InHand'
    BY <1>2 DEF RouterDeliver, InHand, ReadsNeverBlock
  <2>8. QED BY <2>5, <2>6, <2>7
<1>3. CASE Poll
  <2>1. TypeOK'
    BY <1>3 DEF Poll, TypeOK, Readable
  <2>2. MessageShape'
    BY <1>3 DEF Poll, MessageShape
  <2>3. InHand'
    BY <1>3 DEF Poll, InHand, ReadsNeverBlock, Readable
  <2>4. QED BY <2>1, <2>2, <2>3
<1>4. CASE PollError
  <2>1. TypeOK'
    BY <1>4, ConstantsAssumption DEF PollError, TypeOK
  <2>2. MessageShape'
    BY <1>4 DEF PollError, MessageShape
  <2>3. InHand'
    BY <1>4 DEF PollError, InHand, ReadsNeverBlock
  <2>4. QED BY <2>1, <2>2, <2>3
<1>5. CASE ForwardResponse
  <2> DEFINE m == Head(inproc)
  <2>1. /\ inproc # <<>> /\ 1 \in DOMAIN inproc /\ m = inproc[1]
        /\ m \in Seq(Frames) /\ inproc' \in Seq(Seq(Frames))
    BY <1>0, <1>5, TailElements DEF ForwardResponse, InHand, ReadsNeverBlock
  <2>2. \A i \in DOMAIN inproc' : i + 1 \in DOMAIN inproc /\ inproc'[i] = inproc[i + 1]
    BY <1>0, <1>5, <2>1, TailElements DEF ForwardResponse
  <2>3. \/ Len(m) = 2 /\ back' = Append(back, partial \o m) /\ partial' = <<>>
        \/ Len(m) = 1 /\ partial' = partial \o m /\ back' = back
    BY <1>5 DEF ForwardResponse
  <2> HIDE DEF m
  <2>0. PICK a \in Answers : m = <<AddrFrame(a.req), BodyFrame(a)>> \/ m = <<BodyFrame(a)>>
    BY <2>1 DEF MessageShape, Handed
  <2>4. CASE Len(m) = 2
    <3> DEFINE n == partial \o m
    <3>1. back' = Append(back, n) /\ partial' = <<>>
      BY <2>3, <2>4
    <3>2. m = <<AddrFrame(a.req), BodyFrame(a)>>
      BY <2>0, <2>4
    <3>3. n \in Seq(Frames) /\ Routable(n)
      BY <3>2, CompletedShape
    <3> HIDE DEF n
    <3>4. /\ back' \in Seq(Seq(Frames))
          /\ \A i \in DOMAIN back' : back'[i] = n \/ (i \in DOMAIN back /\ back'[i] = back[i])
      BY <1>0, <3>1, <3>3, AppendElements
    <3>5. TypeOK'
      BY <1>5, <2>1, <3>1, <3>4 DEF ForwardResponse, TypeOK
    <3>6. MessageShape'
      BY <2>1, <2>2, <3>1, <3>3, <3>4 DEF MessageShape
    <3>7. QED BY <1>5, <3>5, <3>6 DEF ForwardResponse, InHand, ReadsNeverBlock
  <2>5. CASE Len(m) = 1
    <3>1. back' = back /\ partial' = partial \o m
      BY <2>3, <2>5
    <3>2. m[1].kind = "body"
      BY <2>0, <2>5 DEF BodyFrame
    <3>3. /\ partial' \in Seq(Frames)
          /\ \A i \in DOMAIN partial' : partial'[i].kind = "body"
      BY <2>1, <2>5, <3>1, <3>2, ConcatProperties DEF TypeOK, MessageShape
    <3>4. TypeOK'
      BY <1>5, <2>1, <3>1, <3>3 DEF ForwardResponse, TypeOK
    <3>5. MessageShape'
      BY <2>2, <3>1, <3>3 DEF MessageShape
    <3>6. QED BY <1>5, <3>4, <3>5 DEF ForwardResponse, InHand, ReadsNeverBlock
  <2>6. QED BY <2>3, <2>4, <2>5
<1>6. CASE ReceiveRequest
  <2> DEFINE r == Head(front)
  <2>1. r \in Requests /\ front' \in Seq(Requests)
    BY <1>0, <1>6, TailElements DEF ReceiveRequest, InHand, ReadsNeverBlock
  <2>2. ASSUME NEW code \in Results, ReplyError(r, code) PROVE TypeInv'
    <3> DEFINE m == partial \o <<AddrFrame(r), BodyFrame([req |-> r, result |-> code])>>
    <3>1. m \in Seq(Frames) /\ Routable(m)
      <4> DEFINE a == [req |-> r, result |-> code]
      <4>1. a \in Answers /\ a.req = r
        BY <2>1 DEF Answers
      <4>2. m = partial \o <<AddrFrame(a.req), BodyFrame(a)>>
        BY <4>1
      <4> HIDE DEF a, m
      <4>3. QED BY <4>1, <4>2, CompletedShape
    <3>2. /\ back' = Append(back, m) /\ partial' = <<>> /\ dqs' = dqs
          /\ addr' \in [Requests -> {"none", "live", "freed"}]
      BY <2>2 DEF ReplyError, TypeOK
    <3> HIDE DEF m
    <3>3. /\ back' \in Seq(Seq(Frames))
          /\ \A i \in DOMAIN back' : back'[i] = m \/ (i \in DOMAIN back /\ back'[i] = back[i])
      BY <1>0, <3>1, <3>2, AppendElements
    <3>4. TypeOK'
      BY <1>6, <2>1, <3>2, <3>3 DEF ReceiveRequest, TypeOK
    <3>5. MessageShape'
      BY <1>6, <3>1, <3>2, <3>3 DEF ReceiveRequest, MessageShape
    <3>6. QED BY <1>6, <3>4, <3>5 DEF ReceiveRequest, InHand, ReadsNeverBlock
  <2>3. CASE Body[r] = "empty" \/ Body[r] \in Registered
    <3>0. Registered \subseteq Interfaces /\ {"empty", "syntax", "range"} \cap Interfaces = {}
      BY ConstantsAssumption DEF Registered, Interfaces
    <3>1. \/ Body[r] = "empty" /\ back' = back /\ partial' = partial /\ dqs' = dqs /\ addr' = [addr EXCEPT ![r] = "live"]
          \/ Body[r] \in Interfaces /\ DispatchDq(r)
      BY <1>6, <2>3, <3>0 DEF ReceiveRequest
    <3>2. /\ back' = back /\ partial' = partial
          /\ addr' \in [Requests -> {"none", "live", "freed"}]
          /\ dqs' \in [Interfaces -> Seq(Requests)]
      <4>1. Body[r] \in Interfaces => Append(dqs[Body[r]], r) \in Seq(Requests)
        BY <1>0, <2>1, AppendElements
      <4>2. QED BY <1>0, <2>1, <3>1, <4>1 DEF DispatchDq
    <3>3. TypeOK'
      BY <1>6, <2>1, <3>2 DEF ReceiveRequest, TypeOK
    <3>4. MessageShape'
      BY <1>6, <3>2 DEF ReceiveRequest, MessageShape
    <3>5. QED BY <1>6, <3>3, <3>4 DEF ReceiveRequest, InHand, ReadsNeverBlock
  <2>4. QED BY <1>6, <2>2, <2>3 DEF ReceiveRequest, Results
<1>7. CASE SenderGet
  <2>1. msgList' \in Seq(Answers) /\ msg' \in Answers
    BY <1>0, <1>7, TailElements DEF SenderGet
  <2>2. TypeOK'
    BY <1>7, <2>1 DEF SenderGet, TypeOK
  <2>3. MessageShape'
    BY <1>7 DEF SenderGet, MessageShape
  <2>4. InHand'
    BY <1>7, <2>1 DEF SenderGet, InHand, ReadsNeverBlock
  <2>5. QED BY <2>2, <2>3, <2>4
<1>8. CASE SenderSend
  <2> DEFINE m == IF flags = 0 THEN <<AddrFrame(msg.req), BodyFrame(msg)>> ELSE <<BodyFrame(msg)>>
  <2>1. msg \in Answers
    BY <1>8 DEF SenderSend, InHand
  <2>2. m \in Seq(Frames)
    <3>1. AddrFrame(msg.req) \in Frames /\ BodyFrame(msg) \in Frames
      BY <2>1 DEF AddrFrame, BodyFrame, Frames, Answers
    <3>2. QED BY <3>1
  <2>3. m = <<AddrFrame(msg.req), BodyFrame(msg)>> \/ m = <<BodyFrame(msg)>>
    OBVIOUS
  <2> HIDE DEF m
  <2>4. inproc' = Append(inproc, m)
    BY <1>8 DEF SenderSend, m
  <2>5. /\ inproc' \in Seq(Seq(Frames)) /\ inproc' # <<>>
        /\ \A i \in DOMAIN inproc' : inproc'[i] = m \/ (i \in DOMAIN inproc /\ inproc'[i] = inproc[i])
    BY <1>0, <2>2, <2>4, AppendElements
  <2>6. TypeOK'
    BY <1>8, <2>5 DEF SenderSend, TypeOK
  <2>7. MessageShape'
    BY <1>8, <2>1, <2>3, <2>5 DEF SenderSend, MessageShape, Handed
  <2>8. InHand'
    BY <1>8, <2>5 DEF SenderSend, InHand, ReadsNeverBlock
  <2>9. QED BY <2>6, <2>7, <2>8
<1>9. CASE SenderDestroy
  <2>1. TypeOK'
    BY <1>9 DEF SenderDestroy, TypeOK
  <2>2. MessageShape'
    BY <1>9 DEF SenderDestroy, MessageShape
  <2>3. InHand'
    BY <1>9 DEF SenderDestroy, InHand, ReadsNeverBlock
  <2>4. QED BY <2>1, <2>2, <2>3
<1>10. ASSUME Die, faults' \in 0 .. MaxFaults PROVE TypeInv'
  <2>1. PICK k \in 0 .. Len(front) : front' = SubSeq(front, k + 1, Len(front))
    BY <1>10 DEF Die
  <2>2. PICK n \in 0 .. Len(back) : back' = SubSeq(back, 1, n)
    BY <1>10 DEF Die
  <2>3. front' \in Seq(Requests)
    BY <1>0, <2>1, SuffixElements
  <2>4. back' \in Seq(Seq(Frames)) /\ \A i \in DOMAIN back' : i \in DOMAIN back /\ back'[i] = back[i]
    <3>1. /\ SubSeq(back, 1, n) \in Seq(Seq(Frames))
          /\ \A i \in DOMAIN SubSeq(back, 1, n) : i \in DOMAIN back /\ SubSeq(back, 1, n)[i] = back[i]
      <4>1. back \in Seq(Seq(Frames))
        BY <1>0
      <4>2. QED BY <4>1, PrefixElements
    <3>2. QED BY <2>2, <3>1, Zenon
  <2>5. TypeOK'
    <3>1. /\ up' = FALSE /\ partial' = <<>> /\ inproc' = <<>> /\ revents' = {}
          /\ wpc' = "poll" /\ msgList' = <<>> /\ msg' = NoAnswer /\ spc' = "get"
          /\ dqs' = [i \in Interfaces |-> <<>>]
          /\ message' = [w \in Workers |-> NoRequest]
          /\ addr' = [r \in Requests |-> "none"]
          /\ sent' = sent /\ mailbox' = mailbox /\ flags' = flags
      BY <1>10 DEF Die
    <3>2. /\ dqs' \in [Interfaces -> Seq(Requests)]
          /\ message' \in [Workers -> Requests \cup {NoRequest}]
          /\ addr' \in [Requests -> {"none", "live", "freed"}]
      BY <3>1
    <3>3. /\ faults' \in 0 .. MaxFaults /\ back' \in Seq(Seq(Frames))
          /\ sent' \in Seq(Requests) /\ mailbox' \in [Clients -> Seq(Answers)]
          /\ flags' \in FlagValues
          /\ partial' \in Seq(Frames) /\ inproc' \in Seq(Seq(Frames)) /\ msgList' \in Seq(Answers)
      BY <1>10, <2>4, <3>1 DEF TypeOK
    <3>4. QED BY <2>3, <3>1, <3>2, <3>3 DEF TypeOK
  <2>6. MessageShape'
    BY <1>10, <2>4 DEF Die, MessageShape
  <2>7. InHand'
    BY <1>10 DEF Die, InHand, ReadsNeverBlock
  <2>8. QED BY <2>5, <2>6, <2>7
<1>11. CASE Crash
  BY <1>10, <1>11, ConstantsAssumption DEF Crash, TypeOK
<1>12. CASE MainShutdown
  BY <1>10, <1>12 DEF MainShutdown, TypeOK
<1>13. CASE Restart
  <2>1. TypeOK'
    BY <1>13 DEF Restart, TypeOK
  <2>2. MessageShape'
    BY <1>13 DEF Restart, MessageShape
  <2>3. InHand'
    BY <1>13 DEF Restart, InHand, ReadsNeverBlock
  <2>4. QED BY <2>1, <2>2, <2>3
<1>14. ASSUME NEW w \in Workers, WorkerGet(w) PROVE TypeInv'
  <2>1. /\ message' \in [Workers -> Requests \cup {NoRequest}]
        /\ dqs' \in [Interfaces -> Seq(Requests)]
    <3>1. Serves[w] \in Interfaces
      BY ConstantsAssumption
    <3>2. Head(dqs[Serves[w]]) \in Requests /\ Tail(dqs[Serves[w]]) \in Seq(Requests)
      BY <1>0, <1>14, <3>1, TailElements DEF WorkerGet
    <3>3. QED BY <1>0, <1>14, <3>1, <3>2 DEF WorkerGet, TypeOK
  <2>2. TypeOK'
    BY <1>14, <2>1 DEF WorkerGet, TypeOK
  <2>3. MessageShape'
    BY <1>14 DEF WorkerGet, MessageShape
  <2>4. InHand'
    BY <1>14 DEF WorkerGet, InHand, ReadsNeverBlock
  <2>5. QED BY <2>2, <2>3, <2>4
<1>15. ASSUME NEW w \in Workers, WorkerCall(w) PROVE TypeInv'
  <2>1. [req |-> message[w], result |-> HandlerResult(w, message[w])] \in Answers
    BY <1>15, ConstantsAssumption DEF WorkerCall, TypeOK, Answers, HandlerResult, Results
  <2>2. msgList' \in Seq(Answers)
    BY <1>0, <1>15, <2>1, AppendElements DEF WorkerCall
  <2>3. TypeOK'
    BY <1>15, <2>2 DEF WorkerCall, TypeOK
  <2>4. MessageShape'
    BY <1>15 DEF WorkerCall, MessageShape
  <2>5. InHand'
    BY <1>15 DEF WorkerCall, InHand, ReadsNeverBlock
  <2>6. QED BY <2>3, <2>4, <2>5
<1>16. CASE UNCHANGED vars
  <2>1. TypeOK'
    BY <1>16 DEF vars, TypeOK
  <2>2. MessageShape'
    BY <1>16 DEF vars, MessageShape
  <2>3. InHand'
    BY <1>16 DEF vars, InHand, ReadsNeverBlock
  <2>4. QED BY <2>1, <2>2, <2>3
<1>17. QED
  BY <1>1, <1>2, <1>3, <1>4, <1>5, <1>6, <1>7, <1>8, <1>9, <1>11, <1>12,
     <1>13, <1>14, <1>15, <1>16 DEF Next

LEMMA TypeInvariant == Spec => []TypeInv
  BY TypeInvInit, TypeInvStep, PTL DEF Spec

(* Whatever the interleaving of the threads, the router and the faults, the  *)
(* queues and sockets of the verifier hold requests and answers of requests. *)
THEOREM TypeCorrect == Spec => []TypeOK
<1>1. TypeInv => TypeOK
  BY DEF TypeInv
<1>2. QED BY <1>1, TypeInvariant, PTL

(* The ZmqWorker never reads a socket that is empty: what zmq_poll reported  *)
(* is still there when it reads, also after it forwarded a response first.   *)
THEOREM ReadsCorrect == Spec => []ReadsNeverBlock
<1>1. TypeInv => ReadsNeverBlock
  BY DEF TypeInv, InHand
<1>2. QED BY <1>1, TypeInvariant, PTL

-----------------------------------------------------------------------------
(***************************************************************************)
(* The custody of the address frames, for every set of requests, clients   *)
(* and workers: a frame is used while it is allocated, freed once, and     *)
(* never forgotten.                                                        *)
(*                                                                         *)
(* PointersLive alone is not inductive: that the sender may free the frame *)
(* of its message rests on the message being nowhere else.  So the         *)
(* invariant says that a request is in one place of the process at a time  *)
(* (a queue, a worker, the sender's list, the sender's hand), once in that *)
(* place, and that a request still on the wire has no frame yet.           *)
(***************************************************************************)

NoRepeats(s) == \A i, j \in DOMAIN s : s[i] = s[j] => i = j

Queued(r) == \E i \in Interfaces : r \in Range(dqs[i])
Held(r) == \E w \in Workers : message[w] = r
Listed(r) == \E j \in DOMAIN msgList : msgList[j].req = r
Sending(r) == msg.req = r

(* A request is sent once, is on the wire at most once, and has no frame     *)
(* before the ZmqWorker has received it.                                     *)
Fresh ==
  /\ NoRepeats(front)
  /\ \A i \in DOMAIN front : front[i] \in Range(sent) /\ addr[front[i]] = "none"
  /\ \A r \in Requests : addr[r] # "none" => r \in Range(sent)

OneSlot ==
  /\ \A i \in Interfaces : NoRepeats(dqs[i]) /\ \A r \in Range(dqs[i]) : Body[r] = i
  /\ \A v, w \in Workers : message[v] = message[w] /\ message[v] # NoRequest => v = w
  /\ \A j, k \in DOMAIN msgList : msgList[j].req = msgList[k].req => j = k

(* A request is in one place of the process at a time, its frame is         *)
(* allocated as long as it is in one, and nobody else keeps a frame.         *)
InCustody(r) ==
  /\ Queued(r) => ~ Held(r) /\ ~ Listed(r) /\ ~ Sending(r)
  /\ Held(r) => ~ Listed(r) /\ ~ Sending(r)
  /\ Listed(r) => ~ Sending(r)
  /\ Queued(r) \/ Held(r) \/ Listed(r) \/ Sending(r) => addr[r] = "live"
  /\ addr[r] = "live" =>
       Queued(r) \/ Held(r) \/ Listed(r) \/ Sending(r) \/ Body[r] = "empty"

\* A sender waiting for its list has forgotten the answer it sent before.
IdleSender == spc = "get" => msg = NoAnswer

Custody == Fresh /\ OneSlot /\ IdleSender /\ \A r \in Requests : InCustody(r)

LEMMA CustodyMeans == Custody => PointersLive /\ NoLostFrame
<1>1. \A r : Pointing(r) <=> Queued(r) \/ Held(r) \/ Listed(r) \/ Sending(r)
  BY DEF Pointing, Queued, Held, Listed, Sending
<1>2. QED BY <1>1 DEF Custody, InCustody, PointersLive, NoLostFrame

LEMMA AppendRange ==
  ASSUME NEW S, NEW s \in Seq(S), NEW e \in S, NoRepeats(s), e \notin Range(s)
  PROVE  /\ NoRepeats(Append(s, e))
         /\ Range(Append(s, e)) = Range(s) \cup {e}
<1> DEFINE t == Append(s, e)
           n == Len(s) + 1
<1>1. /\ DOMAIN t = DOMAIN s \cup {n} /\ n \notin DOMAIN s /\ t[n] = e
      /\ \A i \in DOMAIN s : t[i] = s[i]
  BY AppendElements
<1> HIDE DEF t, n
<1>2. NoRepeats(t)
  BY <1>1 DEF NoRepeats, Range
<1>3. Range(t) = Range(s) \cup {e}
  BY <1>1 DEF Range
<1>4. QED BY <1>2, <1>3 DEF t

LEMMA TailRange ==
  ASSUME NEW S, NEW s \in Seq(S), s # <<>>, NoRepeats(s)
  PROVE  /\ NoRepeats(Tail(s))
         /\ Range(Tail(s)) = Range(s) \ {Head(s)}
         /\ Head(s) \in Range(s)
<1> DEFINE t == Tail(s)
           h == Head(s)
<1>1. /\ 1 \in DOMAIN s /\ h = s[1] /\ t \in Seq(S)
      /\ \A i \in DOMAIN t : i + 1 \in DOMAIN s /\ i + 1 # 1 /\ t[i] = s[i + 1]
  BY TailElements
<1>2. Len(t) = Len(s) - 1 /\ DOMAIN s = 1 .. Len(s) /\ Len(s) \in Nat
  BY HeadTailProperties, LenProperties
<1>3. DOMAIN t = 1 .. Len(t)
  BY <1>1, LenProperties
<1> HIDE DEF t, h
<1>4. \A i \in DOMAIN s : i # 1 => i - 1 \in DOMAIN t /\ t[i - 1] = s[i]
  BY <1>1, <1>2, <1>3
<1>5. NoRepeats(t)
  <2>1. ASSUME NEW i \in DOMAIN t, NEW j \in DOMAIN t, t[i] = t[j] PROVE i = j
    <3>1. i + 1 = j + 1
      BY <1>1, <2>1 DEF NoRepeats
    <3>2. QED BY <1>2, <1>3, <3>1
  <2>2. QED BY <2>1 DEF NoRepeats
<1>6. Range(t) = Range(s) \ {h}
  <2>1. ASSUME NEW i \in DOMAIN t PROVE t[i] \in Range(s) /\ t[i] # h
    BY <1>1 DEF NoRepeats, Range
  <2>2. ASSUME NEW i \in DOMAIN s, s[i] # h PROVE s[i] \in Range(t)
    BY <1>1, <1>4, <2>2 DEF Range
  <2>3. QED BY <2>1, <2>2 DEF Range
<1>7. QED BY <1>1, <1>5, <1>6 DEF t, h, Range

-----------------------------------------------------------------------------
LEMMA CustodyInit == Init => Custody
<1> SUFFICES ASSUME Init PROVE Custody
  OBVIOUS
<1>1. \A r \in Requests : ~ Queued(r) /\ ~ Held(r) /\ ~ Listed(r) /\ ~ Sending(r)
  BY ConstantsAssumption DEF Init, Queued, Held, Listed, Sending, Range, NoAnswer
<1>2. Fresh
  BY DEF Init, Fresh, NoRepeats
<1>3. OneSlot
  BY DEF Init, OneSlot, NoRepeats, Range
<1>4. \A r \in Requests : InCustody(r)
  BY <1>1 DEF Init, InCustody
<1>5. QED BY <1>2, <1>3, <1>4 DEF Init, Custody, IdleSender

(* Most steps move no request from one place to another.                     *)
LEMMA StaySteps ==
  ASSUME Custody, UNCHANGED <<dqs, message, msgList, msg, addr>>, 
         Fresh', IdleSender'
  PROVE  Custody'
<1>1. \A r : /\ Queued(r)' <=> Queued(r)
             /\ Held(r)' <=> Held(r)
             /\ Listed(r)' <=> Listed(r)
             /\ Sending(r)' <=> Sending(r)
  BY DEF Queued, Held, Listed, Sending
<1>2. OneSlot'
  BY DEF Custody, OneSlot
<1>3. \A r \in Requests : InCustody(r)'
  BY <1>1 DEF Custody, InCustody
<1>4. QED BY <1>2, <1>3 DEF Custody

(* A request that the ZmqWorker takes off the wire is nowhere else.          *)
LEMMA ArrivalIsNew ==
  ASSUME TypeInv, Custody, wpc = "request"
  PROVE  LET r == Head(front) IN
           /\ r \in Requests /\ r \in Range(sent) /\ addr[r] = "none"
           /\ ~ Queued(r) /\ ~ Held(r) /\ ~ Listed(r) /\ ~ Sending(r)
           /\ NoRepeats(Tail(front))
           /\ \A i \in DOMAIN Tail(front) :
                Tail(front)[i] # r /\ Tail(front)[i] \in Range(front)
<1> DEFINE r == Head(front)
<1>1. front \in Seq(Requests) /\ front # <<>> /\ NoRepeats(front)
  BY DEF TypeInv, TypeOK, InHand, ReadsNeverBlock, Custody, Fresh
<1>2. /\ NoRepeats(Tail(front)) /\ Range(Tail(front)) = Range(front) \ {r}
      /\ r \in Range(front) /\ r \in Requests
  BY <1>1, TailRange, TailElements
<1> HIDE DEF r
<1>3. r \in Range(sent) /\ addr[r] = "none"
  BY <1>2 DEF Custody, Fresh, Range
<1>4. ~ Queued(r) /\ ~ Held(r) /\ ~ Listed(r) /\ ~ Sending(r)
  BY <1>2, <1>3 DEF Custody, InCustody
<1>5. \A i \in DOMAIN Tail(front) : Tail(front)[i] # r /\ Tail(front)[i] \in Range(front)
  BY <1>2 DEF Range
<1>6. QED BY <1>2, <1>3, <1>4, <1>5 DEF r

LEMMA SendCustody ==
  ASSUME TypeInv, Custody, NEW r \in Requests, Send(r)
  PROVE  Custody'
<1>1. r \notin Range(sent) /\ sent' = Append(sent, r) /\ front' = Append(front, r)
  BY DEF Send
<1>2. sent \in Seq(Requests) /\ front \in Seq(Requests) /\ NoRepeats(front)
  BY DEF TypeInv, TypeOK, Custody, Fresh
<1>3. Range(sent') = Range(sent) \cup {r}
  <2>1. /\ DOMAIN sent' = DOMAIN sent \cup {Len(sent) + 1}
        /\ Len(sent) + 1 \notin DOMAIN sent
        /\ sent'[Len(sent) + 1] = r
        /\ \A i \in DOMAIN sent : sent'[i] = sent[i]
    BY <1>1, <1>2, AppendElements
  <2>2. QED BY <2>1 DEF Range
<1>4. r \notin Range(front)
  BY <1>1 DEF Custody, Fresh, Range
<1>5. NoRepeats(front') /\ Range(front') = Range(front) \cup {r}
  BY <1>1, <1>2, <1>4, AppendRange
<1>6. addr' = addr /\ UNCHANGED <<dqs, message, msgList, msg>>
  BY DEF Send, sender
<1>7. addr[r] = "none"
  BY <1>1 DEF Custody, Fresh
<1>8. \A q \in Range(front') : q \in Range(sent') /\ addr'[q] = "none"
  <2>1. \A q \in Range(front) : q \in Range(sent) /\ addr[q] = "none"
    BY DEF Custody, Fresh, Range
  <2>2. QED BY <1>3, <1>5, <1>6, <1>7, <2>1
<1>9. Fresh'
  <2>1. \A i \in DOMAIN front' : front'[i] \in Range(front')
    BY DEF Range
  <2>2. \A q \in Requests : addr'[q] # "none" => q \in Range(sent')
    BY <1>3, <1>6 DEF Custody, Fresh
  <2>3. QED BY <1>5, <1>8, <2>1, <2>2 DEF Fresh
<1>10. IdleSender'
  BY DEF Send, sender, Custody, IdleSender
<1>11. QED BY <1>6, <1>9, <1>10, StaySteps

LEMMA ReceiveCustody ==
  ASSUME TypeInv, Custody, ReceiveRequest
  PROVE  Custody'
<1> DEFINE r == Head(front)
<1>1. /\ r \in Requests /\ r \in Range(sent) /\ addr[r] = "none"
      /\ ~ Queued(r) /\ ~ Held(r) /\ ~ Listed(r) /\ ~ Sending(r)
      /\ NoRepeats(Tail(front))
      /\ \A i \in DOMAIN Tail(front) :
           Tail(front)[i] # r /\ Tail(front)[i] \in Range(front)
  BY ArrivalIsNew DEF ReceiveRequest
<1>2. front' = Tail(front) /\ UNCHANGED <<sent, message, msgList, msg, spc>>
  BY DEF ReceiveRequest, sender
<1>3. addr \in [Requests -> {"none", "live", "freed"}]
      /\ dqs \in [Interfaces -> Seq(Requests)]
  BY DEF TypeInv, TypeOK
<1>4. Registered \subseteq Interfaces
  BY ConstantsAssumption DEF Registered
<1>5. \/ Body[r] = "empty" /\ addr' = [addr EXCEPT ![r] = "live"] /\ dqs' = dqs
      \/ addr' = [addr EXCEPT ![r] = "freed"] /\ dqs' = dqs
      \/ /\ Body[r] \in Interfaces
         /\ addr' = [addr EXCEPT ![r] = "live"]
         /\ dqs' = [dqs EXCEPT ![Body[r]] = Append(dqs[Body[r]], r)]
  BY <1>4 DEF ReceiveRequest, ReplyError, DispatchDq
<1> HIDE DEF r
<1>6. /\ addr'[r] # "none"
      /\ \A q \in Requests \ {r} : addr'[q] = addr[q]
  BY <1>1, <1>3, <1>5
<1>7. Fresh'
  <2>1. \A q \in Range(front) : q \in Requests /\ q \in Range(sent) /\ addr[q] = "none"
    BY ElementOfSeq DEF TypeInv, TypeOK, Custody, Fresh, Range
  <2>2. \A i \in DOMAIN front' : front'[i] \in Range(sent') /\ addr'[front'[i]] = "none"
    BY <1>1, <1>2, <1>6, <2>1
  <2>3. \A q \in Requests : addr'[q] # "none" => q \in Range(sent')
    BY <1>1, <1>2, <1>6 DEF Custody, Fresh
  <2>4. QED BY <1>1, <1>2, <2>2, <2>3 DEF Fresh
<1>8. \A q : /\ Held(q)' <=> Held(q)
             /\ Listed(q)' <=> Listed(q)
             /\ Sending(q)' <=> Sending(q)
  BY <1>2 DEF Held, Listed, Sending
<1>0. IdleSender'
  BY <1>2 DEF Custody, IdleSender
<1>9. CASE dqs' = dqs /\ (Body[r] = "empty" \/ addr'[r] = "freed")
  <2>1. \A q : Queued(q)' <=> Queued(q)
    BY <1>9 DEF Queued
  <2>2. OneSlot'
    BY <1>2, <1>9 DEF Custody, OneSlot
  <2>3. ASSUME NEW q \in Requests PROVE InCustody(q)'
    <3>1. CASE q = r
      BY <1>1, <1>8, <1>9, <2>1, <3>1 DEF InCustody
    <3>2. CASE q # r
      BY <1>6, <1>8, <2>1, <3>2 DEF Custody, InCustody
    <3>3. QED BY <3>1, <3>2
  <2>4. QED BY <1>0, <1>7, <2>2, <2>3 DEF Custody
<1>10. CASE /\ Body[r] \in Interfaces
            /\ addr' = [addr EXCEPT ![r] = "live"]
            /\ dqs' = [dqs EXCEPT ![Body[r]] = Append(dqs[Body[r]], r)]
  <2> DEFINE k == Body[r]
  <2>1. k \in Interfaces /\ dqs[k] \in Seq(Requests) /\ NoRepeats(dqs[k]) /\ r \notin Range(dqs[k])
    BY <1>1, <1>3, <1>10 DEF Custody, OneSlot, Queued
  <2>2. /\ NoRepeats(dqs'[k]) /\ Range(dqs'[k]) = Range(dqs[k]) \cup {r}
        /\ \A i \in Interfaces \ {k} : dqs'[i] = dqs[i]
    <3>1. dqs'[k] = Append(dqs[k], r)
      BY <1>3, <1>10
    <3>2. NoRepeats(Append(dqs[k], r)) /\ Range(Append(dqs[k], r)) = Range(dqs[k]) \cup {r}
      BY <1>1, <2>1, AppendRange
    <3>3. QED BY <1>3, <1>10, <3>1, <3>2
  <2>3. \A q : Queued(q)' <=> Queued(q) \/ q = r
    BY <2>1, <2>2 DEF Queued
  <2>4. OneSlot'
    <3>1. \A i \in Interfaces : NoRepeats(dqs'[i]) /\ \A q \in Range(dqs'[i]) : Body[q] = i
      BY <2>2 DEF Custody, OneSlot
    <3>2. QED BY <1>2, <3>1 DEF Custody, OneSlot
  <2>5. addr'[r] = "live"
    BY <1>1, <1>3, <1>10
  <2>6. ASSUME NEW q \in Requests PROVE InCustody(q)'
    <3>1. CASE q = r
      BY <1>1, <1>8, <2>3, <2>5, <3>1 DEF InCustody
    <3>2. CASE q # r
      BY <1>6, <1>8, <2>3, <3>2 DEF Custody, InCustody
    <3>3. QED BY <3>1, <3>2
  <2>7. QED BY <1>0, <1>7, <2>4, <2>6 DEF Custody
<1>11. QED BY <1>1, <1>3, <1>5, <1>9, <1>10

LEMMA WorkerGetCustody ==
  ASSUME TypeInv, Custody, NEW w \in Workers, WorkerGet(w)
  PROVE  Custody'
<1> DEFINE k == Serves[w]
           r == Head(dqs[k])
<1>1. /\ k \in Interfaces /\ dqs[k] \in Seq(Requests) /\ dqs[k] # <<>>
      /\ NoRepeats(dqs[k])
      /\ dqs \in [Interfaces -> Seq(Requests)]
      /\ message \in [Workers -> Requests \cup {NoRequest}]
  BY ConstantsAssumption DEF WorkerGet, TypeInv, TypeOK, Custody, OneSlot
<1>2. /\ NoRepeats(Tail(dqs[k])) /\ Range(Tail(dqs[k])) = Range(dqs[k]) \ {r}
      /\ r \in Range(dqs[k]) /\ r \in Requests
  BY <1>1, TailRange, TailElements
<1>3. /\ message' = [message EXCEPT ![w] = r]
      /\ dqs' = [dqs EXCEPT ![k] = Tail(dqs[k])]
      /\ message[w] = NoRequest
      /\ UNCHANGED <<sent, front, msgList, msg, spc, addr>>
  BY DEF WorkerGet, network, sender
<1> HIDE DEF k, r
<1>4. /\ NoRepeats(dqs'[k]) /\ Range(dqs'[k]) = Range(dqs[k]) \ {r}
      /\ \A i \in Interfaces \ {k} : dqs'[i] = dqs[i]
  BY <1>1, <1>2, <1>3
<1>5. \A i \in Interfaces \ {k} : r \notin Range(dqs[i])
  BY <1>1, <1>2 DEF Custody, OneSlot
<1>6. \A q : Queued(q)' <=> Queued(q) /\ q # r
  BY <1>1, <1>4, <1>5 DEF Queued
<1>7. /\ message'[w] = r
      /\ \A v \in Workers \ {w} : message'[v] = message[v]
  BY <1>1, <1>3
<1>8. \A q \in Requests : Held(q)' <=> Held(q) \/ q = r
  BY <1>3, <1>7, ConstantsAssumption DEF Held
<1>9. \A q : (Listed(q)' <=> Listed(q)) /\ (Sending(q)' <=> Sending(q))
  BY <1>3 DEF Listed, Sending
<1>10. Queued(r)
  BY <1>1, <1>2 DEF Queued
<1>11. Fresh'
  BY <1>3 DEF Custody, Fresh
<1>12. OneSlot'
  <2>1. \A i \in Interfaces : NoRepeats(dqs'[i]) /\ \A q \in Range(dqs'[i]) : Body[q] = i
    BY <1>4 DEF Custody, OneSlot
  <2>2. ~ Held(r)
    BY <1>2, <1>10 DEF Custody, InCustody
  <2>3. \A u, v \in Workers :
          message'[u] = message'[v] /\ message'[u] # NoRequest => u = v
    BY <1>7, <2>2 DEF Custody, OneSlot, Held
  <2>4. QED BY <1>3, <2>1, <2>3 DEF Custody, OneSlot
<1>13. \A q \in Requests : InCustody(q)'
  <2>1. addr' = addr
    BY <1>3
  <2>2. QED BY <1>6, <1>8, <1>9, <1>10, <2>1 DEF Custody, InCustody
<1>14. QED BY <1>3, <1>11, <1>12, <1>13 DEF Custody, IdleSender

LEMMA WorkerCallCustody ==
  ASSUME TypeInv, Custody, NEW w \in Workers, WorkerCall(w)
  PROVE  Custody'
<1> DEFINE r == message[w]
           a == [req |-> r, result |-> HandlerResult(w, r)]
           n == Len(msgList) + 1
<1>1. r \in Requests /\ a \in Answers /\ a.req = r
  BY ConstantsAssumption
  DEF WorkerCall, TypeInv, TypeOK, Answers, HandlerResult, Results
<1>2. /\ msgList \in Seq(Answers)
      /\ message \in [Workers -> Requests \cup {NoRequest}]
  BY DEF TypeInv, TypeOK
<1>3. /\ msgList' = Append(msgList, a)
      /\ message' = [message EXCEPT ![w] = NoRequest]
      /\ UNCHANGED <<sent, front, dqs, msg, spc, addr>>
  BY DEF WorkerCall, network
<1>4. Held(r)
  BY DEF Held
<1>5. \A v \in Workers \ {w} : message[v] # r
  BY <1>1, ConstantsAssumption DEF Custody, OneSlot
<1> HIDE DEF r, a
<1>6. /\ DOMAIN msgList' = DOMAIN msgList \cup {n} /\ n \notin DOMAIN msgList
      /\ msgList'[n].req = r
      /\ \A i \in DOMAIN msgList : msgList'[i] = msgList[i]
  BY <1>1, <1>2, <1>3, AppendElements
<1> HIDE DEF n
<1>7. message'[w] = NoRequest /\ \A v \in Workers \ {w} : message'[v] = message[v]
  BY <1>2, <1>3
<1>8. \A q : Listed(q)' <=> Listed(q) \/ q = r
  BY <1>6 DEF Listed
<1>9. \A q \in Requests : Held(q)' <=> Held(q) /\ q # r
  BY <1>5, <1>7, ConstantsAssumption DEF Held, r
<1>10. \A q : (Queued(q)' <=> Queued(q)) /\ (Sending(q)' <=> Sending(q))
  BY <1>3 DEF Queued, Sending
<1>11. Fresh'
  BY <1>3 DEF Custody, Fresh
<1>12. OneSlot'
  <2>1. \A u, v \in Workers :
          message'[u] = message'[v] /\ message'[u] # NoRequest => u = v
    BY <1>7 DEF Custody, OneSlot
  <2>2. \A j \in DOMAIN msgList : msgList[j].req # r
    BY <1>1, <1>4 DEF Custody, InCustody, Listed
  <2>3. \A i, j \in DOMAIN msgList : msgList[i].req = msgList[j].req => i = j
    BY DEF Custody, OneSlot
  <2>4. \A i, j \in DOMAIN msgList' : msgList'[i].req = msgList'[j].req => i = j
    BY <1>6, <2>2, <2>3
  <2>5. QED BY <1>3, <2>1, <2>4 DEF Custody, OneSlot
<1>13. \A q \in Requests : InCustody(q)'
  <2>1. addr' = addr
    BY <1>3
  <2>2. QED BY <1>4, <1>8, <1>9, <1>10, <2>1 DEF Custody, InCustody
<1>14. QED BY <1>3, <1>11, <1>12, <1>13 DEF Custody, IdleSender

LEMMA SenderGetCustody ==
  ASSUME TypeInv, Custody, SenderGet
  PROVE  Custody'
<1> DEFINE r == Head(msgList).req
<1>1. /\ msgList \in Seq(Answers) /\ msgList # <<>>
      /\ 1 \in DOMAIN msgList /\ Head(msgList) = msgList[1]
  BY TailElements DEF SenderGet, TypeInv, TypeOK
<1>2. \A i \in DOMAIN Tail(msgList) :
        i + 1 \in DOMAIN msgList /\ i + 1 # 1 /\ Tail(msgList)[i] = msgList[i + 1]
  BY <1>1, TailElements
<1>3. \A i \in DOMAIN msgList : i # 1 => i - 1 \in DOMAIN Tail(msgList)
                                       /\ Tail(msgList)[i - 1] = msgList[i]
  BY <1>1, <1>2, HeadTailProperties, LenProperties
<1>4. \A i, j \in DOMAIN msgList : msgList[i].req = msgList[j].req => i = j
  BY DEF Custody, OneSlot
<1>5. /\ msgList' = Tail(msgList) /\ msg'.req = r
      /\ UNCHANGED <<sent, front, dqs, message, addr>>
      /\ spc' = "send"
  BY DEF SenderGet, network
<1>6. \A q \in Requests : ~ Sending(q)
  BY ConstantsAssumption DEF SenderGet, Custody, IdleSender, NoAnswer, Sending
<1>7. r = msgList[1].req /\ r \in Requests
  <2>1. msgList[1] \in Answers
    BY <1>1, ElementOfSeq
  <2>2. QED BY <1>1, <2>1 DEF Answers
<1> HIDE DEF r
<1>8. \A q : Listed(q)' <=> Listed(q) /\ q # r
  <2>1. \A i \in DOMAIN msgList' : \E j \in DOMAIN msgList : j # 1 /\ msgList'[i] = msgList[j]
    BY <1>2, <1>5
  <2>2. \A j \in DOMAIN msgList : j # 1 => \E i \in DOMAIN msgList' : msgList'[i] = msgList[j]
    BY <1>3, <1>5
  <2>3. QED BY <1>1, <1>4, <1>7, <2>1, <2>2 DEF Listed
<1>9. \A q : /\ Sending(q)' <=> q = r
             /\ Queued(q)' <=> Queued(q)
             /\ Held(q)' <=> Held(q)
  BY <1>5 DEF Sending, Queued, Held
<1>10. Listed(r)
  BY <1>1, <1>7 DEF Listed
<1>11. Fresh' /\ IdleSender'
  BY <1>5 DEF Custody, Fresh, IdleSender
<1>12. OneSlot'
  <2>1. \A i, j \in DOMAIN Tail(msgList) :
          Tail(msgList)[i].req = Tail(msgList)[j].req => i = j
    <3>1. Tail(msgList) \in Seq(Answers)
      BY <1>1, TailElements
    <3>2. \A i, j \in DOMAIN Tail(msgList) : i \in Int /\ j \in Int
      BY <3>1, LenProperties
    <3>3. \A i, j \in DOMAIN Tail(msgList) :
            Tail(msgList)[i].req = Tail(msgList)[j].req => i + 1 = j + 1
      BY <1>2, <1>4
    <3>4. QED BY <3>2, <3>3
  <2>2. QED BY <1>5, <2>1 DEF Custody, OneSlot
<1>13. \A q \in Requests : InCustody(q)'
  <2>1. addr' = addr
    BY <1>5
  <2>2. QED BY <1>6, <1>8, <1>9, <1>10, <2>1 DEF Custody, InCustody
<1>14. QED BY <1>11, <1>12, <1>13 DEF Custody

LEMMA SenderDestroyCustody ==
  ASSUME TypeInv, Custody, SenderDestroy
  PROVE  Custody'
<1> DEFINE r == msg.req
<1>1. r \in Requests /\ addr \in [Requests -> {"none", "live", "freed"}]
  BY DEF SenderDestroy, TypeInv, InHand, TypeOK, Answers
<1>2. /\ addr' = [addr EXCEPT ![r] = "freed"] /\ msg' = NoAnswer
      /\ UNCHANGED <<sent, front, dqs, message, msgList>>
  BY DEF SenderDestroy, network
<1>3. \A q \in Requests : /\ ~ Sending(q)'
                          /\ Sending(q) <=> q = r
  BY <1>2, ConstantsAssumption DEF Sending, NoAnswer
<1> HIDE DEF r
<1>4. \A q : /\ Queued(q)' <=> Queued(q)
             /\ Held(q)' <=> Held(q)
             /\ Listed(q)' <=> Listed(q)
  BY <1>2 DEF Queued, Held, Listed
<1>5. addr'[r] = "freed" /\ \A q \in Requests \ {r} : addr'[q] = addr[q]
  BY <1>1, <1>2
<1>6. addr[r] = "live"
  BY <1>1, <1>3 DEF Custody, InCustody
<1>7. Fresh'
  <2>1. \A i \in DOMAIN front : front[i] # r /\ front[i] \in Requests
    BY <1>6, ElementOfSeq DEF Custody, Fresh, TypeInv, TypeOK
  <2>2. \A i \in DOMAIN front' : front'[i] \in Range(sent') /\ addr'[front'[i]] = "none"
    BY <1>2, <1>5, <2>1 DEF Custody, Fresh
  <2>3. \A q \in Requests : addr'[q] # "none" => q \in Range(sent')
    BY <1>1, <1>2, <1>5, <1>6 DEF Custody, Fresh
  <2>4. QED BY <1>2, <2>2, <2>3 DEF Custody, Fresh
<1>8. OneSlot' /\ IdleSender'
  BY <1>2 DEF Custody, OneSlot, IdleSender
<1>9. ASSUME NEW q \in Requests PROVE InCustody(q)'
  <2>1. CASE q = r
    BY <1>3, <1>4, <1>5, <2>1 DEF Custody, InCustody
  <2>2. CASE q # r
    BY <1>3, <1>4, <1>5, <2>2 DEF Custody, InCustody
  <2>3. QED BY <2>1, <2>2
<1>10. QED BY <1>7, <1>8, <1>9 DEF Custody

(* When the process ends every place is empty and every frame is gone; what  *)
(* is left on the wire was never received.                                   *)
LEMMA DieCustody ==
  ASSUME TypeInv, Custody, Die
  PROVE  Custody'
<1>1. /\ dqs' = [i \in Interfaces |-> <<>>]
      /\ message' = [w \in Workers |-> NoRequest]
      /\ msgList' = <<>> /\ msg' = NoAnswer
      /\ addr' = [r \in Requests |-> "none"]
      /\ sent' = sent
  BY DEF Die
<1>2. \A r \in Requests : InCustody(r)'
  <2>1. \A r \in Requests : ~ Queued(r)' /\ ~ Held(r)' /\ ~ Listed(r)' /\ ~ Sending(r)'
    BY <1>1, ConstantsAssumption DEF Queued, Held, Listed, Sending, Range, NoAnswer
  <2>2. \A r \in Requests : addr'[r] = "none"
    BY <1>1
  <2>3. QED BY <2>1, <2>2 DEF InCustody
<1>3. OneSlot' /\ IdleSender'
  BY <1>1 DEF OneSlot, IdleSender, NoRepeats, Range
<1>4. front \in Seq(Requests)
  BY DEF TypeInv, TypeOK
<1>5. PICK k \in 0 .. Len(front) : front' = SubSeq(front, k + 1, Len(front))
  BY DEF Die
<1> DEFINE f == SubSeq(front, k + 1, Len(front))
<1>6. DOMAIN f = 1 .. Len(front) - k
      /\ \A i \in 1 .. Len(front) - k : k + i \in DOMAIN front /\ f[i] = front[k + i]
  BY <1>4, SuffixElements
<1>7. k \in Nat /\ Len(front) \in Nat
  BY <1>4, LenProperties
<1> HIDE DEF f
<1>8. NoRepeats(f)
  <2>1. ASSUME NEW i \in DOMAIN f, NEW j \in DOMAIN f, f[i] = f[j] PROVE i = j
    <3>1. k + i = k + j
      BY <1>6, <2>1 DEF Custody, Fresh, NoRepeats
    <3>2. QED BY <1>6, <1>7, <3>1
  <2>2. QED BY <2>1 DEF NoRepeats
<1>9. \A i \in DOMAIN f : f[i] \in Requests /\ f[i] \in Range(sent)
  BY <1>4, <1>6, ElementOfSeq DEF Custody, Fresh
<1>10. f = front'
  BY <1>5 DEF f
<1>11. Fresh'
  BY <1>1, <1>8, <1>9, <1>10 DEF Fresh
<1>12. QED BY <1>2, <1>3, <1>11 DEF Custody

LEMMA CustodyStep == TypeInv /\ Custody /\ [Next]_vars => Custody'
<1> SUFFICES ASSUME TypeInv, Custody, [Next]_vars PROVE Custody'
  OBVIOUS
<1>1. ASSUME UNCHANGED <<sent, front, dqs, message, msgList, msg, spc, addr>>
      PROVE  Custody'
  <2>1. Fresh' /\ IdleSender'
    BY <1>1 DEF Custody, Fresh, IdleSender
  <2>2. QED BY <1>1, <2>1, StaySteps
<1>2. CASE RouterDeliver \/ Poll \/ PollError \/ ForwardResponse \/ Restart
  BY <1>1, <1>2
  DEF RouterDeliver, Poll, PollError, ForwardResponse, Restart, network, sender
<1>3. CASE SenderSend
  <2>1. UNCHANGED <<sent, front, dqs, message, msgList, msg, addr>> /\ spc' = "destroy"
    BY <1>3 DEF SenderSend, network
  <2>2. Fresh' /\ IdleSender'
    BY <2>1 DEF Custody, Fresh, IdleSender
  <2>3. QED BY <2>1, <2>2, StaySteps
<1>4. ASSUME NEW r \in Requests, Send(r) PROVE Custody'
  BY <1>4, SendCustody
<1>5. CASE ReceiveRequest
  BY <1>5, ReceiveCustody
<1>6. ASSUME NEW w \in Workers, WorkerGet(w) PROVE Custody'
  BY <1>6, WorkerGetCustody
<1>7. ASSUME NEW w \in Workers, WorkerCall(w) PROVE Custody'
  BY <1>7, WorkerCallCustody
<1>8. CASE SenderGet
  BY <1>8, SenderGetCustody
<1>9. CASE SenderDestroy
  BY <1>9, SenderDestroyCustody
<1>10. CASE Crash \/ MainShutdown
  BY <1>10, DieCustody DEF Crash, MainShutdown
<1>11. CASE UNCHANGED vars
  BY <1>1, <1>11 DEF vars
<1>12. QED
  BY <1>2, <1>3, <1>4, <1>5, <1>6, <1>7, <1>8, <1>9, <1>10, <1>11 DEF Next

LEMMA CustodyInvariant == Spec => []Custody
  BY TypeInvariant, CustodyInit, CustodyStep, PTL DEF Spec

(* However many workers pass a request's message from queue to queue, no     *)
(* thread uses or frees an address frame after zframe_destroy.               *)
THEOREM FramesUsedWhileLive == Spec => []PointersLive
<1>1. Custody => PointersLive
  BY CustodyMeans
<1>2. QED BY <1>1, CustodyInvariant, PTL

(* An address frame still allocated has a message that will free it, but for *)
(* requests with an empty body: only that path of ZmqWorker::run leaks.      *)
THEOREM FramesNotLost == Spec => []NoLostFrame
<1>1. Custody => NoLostFrame
  BY CustodyMeans
<1>2. QED BY <1>1, CustodyInvariant, PTL

-----------------------------------------------------------------------------
(***************************************************************************)
(* What the clients of the verifier may count on, for every set of         *)
(* requests, clients and workers and every interleaving, crashes included: *)
(* one reply at most, the right one, and replies in order where a single   *)
(* worker serves the interface.                                            *)
(*                                                                         *)
(* The queues, workers and sockets a request passes are one line with      *)
(* eight stages, and a request has a place in it.  The invariant says that *)
(* it has at most one, and that of two requests of a lane (same client,    *)
(* same interface, one worker) the one sent first is ahead.  Every step    *)
(* either takes requests out of the line or moves the head of one stage to *)
(* the end of a later one; Advance and Shrink say once what that does to   *)
(* the line, and the lemma of each action only has to show which it is.    *)
(***************************************************************************)

-----------------------------------------------------------------------------
(* The line: request r is at place i of one of the stages.                   *)

OnFront(r, i) == i \in DOMAIN front /\ front[i] = r
InDq(r, i) == \E k \in Interfaces : i \in DOMAIN dqs[k] /\ dqs[k][i] = r
InList(r, i) == i \in DOMAIN msgList /\ msgList[i].req = r
InHandOfSender(r) == spc = "send" /\ msg.req = r
OnInproc(r, i) == i \in DOMAIN inproc /\ inproc[i][1].req = r
OnBack(r, i) == i \in DOMAIN back /\ back[i][1].kind = "addr" /\ back[i][1].req = r
InMailbox(r, i) == \E c \in Clients : i \in DOMAIN mailbox[c] /\ mailbox[c][i].req = r

\* Stage 3 is a worker's hand, and stage 5 the sender's.
At(r, s, i) ==
  \/ s = 1 /\ OnFront(r, i)
  \/ s = 2 /\ InDq(r, i)
  \/ s = 3 /\ i = 1 /\ Held(r)
  \/ s = 4 /\ InList(r, i)
  \/ s = 5 /\ i = 1 /\ InHandOfSender(r)
  \/ s = 6 /\ OnInproc(r, i)
  \/ s = 7 /\ OnBack(r, i)
  \/ s = 8 /\ InMailbox(r, i)

Spots == Requests \X (1 .. 8) \X (Nat \ {0})
Line == {p \in Spots : At(p[1], p[2], p[3])}

\* Nobody is in the line twice; whoever is before another is ahead of him.
OneSpot(A) == \A x, y \in A : x[1] = y[1] => x = y
Ahead(x, y) == x[2] > y[2] \/ (x[2] = y[2] /\ x[3] < y[3])
InOrder(A, before) == \A x, y \in A : <<x[1], y[1]>> \in before => Ahead(x, y)

\* The lanes in which the order of the requests is kept.
OneWorker(r) == \A v, w \in Workers : Serves[v] = Body[r] /\ Serves[w] = Body[r] => v = w
SameLane(q, r) == Body[q] = Body[r] /\ Owner[q] = Owner[r] /\ OneWorker(r)
Before == {p \in Requests \X Requests : SameLane(p[1], p[2]) /\ Precedes(sent, p[1], p[2])}

\* Stages 2 to 6 belong to requests with a DQueue: an error reply goes from
\* the wire straight back to it, and may overtake requests of other lanes.
Orderly ==
  /\ NoRepeats(sent)
  /\ OneSpot(Line)
  /\ InOrder(Line, Before)
  /\ \A x \in Line : x[1] \in Range(sent) /\ (x[2] \in 2 .. 6 => Body[x[1]] \in Registered)

RightAnswer(r) == [req |-> r, result |-> Verdict[r]]
RightReply(r) == <<AddrFrame(r), BodyFrame(RightAnswer(r))>>

\* A worker has a request of its own pool in hand, and what is on its way to
\* a client says what the request deserves.  A response that lost its address
\* is only promised not to start with one.
Truthful ==
  /\ \A w \in Workers : message[w] # NoRequest => Body[message[w]] = Serves[w]
  /\ \A i \in DOMAIN msgList : msgList[i] = RightAnswer(msgList[i].req)
  /\ spc = "send" => msg = RightAnswer(msg.req)
  /\ \A i \in DOMAIN inproc : inproc[i][1].kind = "addr" => inproc[i] = RightReply(inproc[i][1].req)
  /\ \A i \in DOMAIN back : back[i][1].kind = "addr" => back[i] = RightReply(back[i][1].req)
  /\ \A c \in Clients : \A i \in DOMAIN mailbox[c] : Owner[mailbox[c][i].req] = c

ServiceInv == TypeInv /\ Custody /\ Orderly /\ Truthful

\* With flags always 0 no response loses its address.
RouterMode ==
  /\ partial = <<>>
  /\ \A i \in DOMAIN inproc : inproc[i][1].kind = "addr"
  /\ \A i \in DOMAIN back : back[i][1].kind = "addr"

-----------------------------------------------------------------------------
(* What moving one request ahead, and taking some away, does to a line.      *)

Lines(R) == SUBSET (R \X (1 .. 8) \X (Nat \ {0}))

\* The head m of stage a of line A is at place n of stage b of line B, and
\* those of D have closed up behind it.
Advances(A, B, a, b, n, D, m) ==
  \A x \in B : \/ x = <<m, b, n>>
              \/ IF x[2] = a /\ x[1] \in D THEN <<x[1], a, x[3] + 1>> \in A ELSE x \in A

\* Nobody who is before m is overtaken by it.
Clear(A, before, a, b, n, m) ==
  \A x \in A : <<x[1], m>> \in before => x[2] <= a \/ x[2] > b \/ (x[2] = b /\ x[3] < n)

\* Nobody is before himself, and D closes up the whole lane or nobody of it.
Lanes(before, D) == \A p \in before : p[1] # p[2] /\ (p[1] \in D <=> p[2] \in D)

(* The head of one stage goes to the end of a later one, overtaking nobody.  *)
LEMMA Advance ==
  ASSUME NEW R, NEW A \in Lines(R), NEW B \in Lines(R), NEW before \in SUBSET (R \X R),
         NEW a \in 1 .. 8, NEW b \in 1 .. 8, NEW n \in Nat \ {0}, NEW D \in SUBSET R, NEW m \in D,
         OneSpot(A), InOrder(A, before), a < b, <<m, a, 1>> \in A,
         Advances(A, B, a, b, n, D, m), Clear(A, before, a, b, n, m), Lanes(before, D)
  PROVE  OneSpot(B) /\ InOrder(B, before)
<1> USE DEF Lines, Advances, Clear, Lanes
<1>1. \A x, y \in A : x[1] = y[1] => x = y
  BY DEF OneSpot
<1>2. \A x, y \in A : <<x[1], y[1]>> \in before => Ahead(x, y)
  BY DEF InOrder
<1> DEFINE Moved(x) == x = <<m, b, n>>
           Stays(x) == x[1] # m /\ (x[2] # a \/ x[1] \notin D) /\ x \in A
           Closes(x) == x[1] # m /\ x[2] = a /\ x[1] \in D /\ <<x[1], a, x[3] + 1>> \in A
<1>3. \A x \in B : /\ x = <<x[1], x[2], x[3]>> /\ x[1] \in R /\ x[2] \in 1 .. 8 /\ x[3] \in Nat \ {0}
                   /\ Moved(x) \/ Stays(x) \/ Closes(x)
  <2>1. \A x \in A : x = <<x[1], x[2], x[3]>> /\ (x[1] = m => x[2] = a /\ x[3] = 1)
    BY <1>1
  <2>2. ASSUME NEW x \in B PROVE Moved(x) \/ Stays(x) \/ Closes(x)
    <3>1. CASE x[2] = a /\ x[1] \in D /\ <<x[1], a, x[3] + 1>> \in A
      <4>1. x[1] = m => x[3] + 1 = 1
        BY <2>1, <3>1
      <4>2. QED BY <3>1, <4>1
    <3>2. CASE ~ (x[2] = a /\ x[1] \in D) /\ x \in A
      BY <2>1, <3>2
    <3>3. QED BY <3>1, <3>2
  <2>3. QED BY <2>2
<1>4. OneSpot(B)
  <2>1. ASSUME NEW x \in B, NEW y \in B, x[1] = y[1] PROVE x[2] = y[2] /\ x[3] = y[3]
    <3>1. CASE Moved(x)
      BY <1>3, <2>1, <3>1
    <3>2. CASE Stays(x)
      <4>0. ASSUME Closes(y) PROVE FALSE
        <5>1. x = <<y[1], a, y[3] + 1>>
          BY <1>1, <2>1, <3>2, <4>0
        <5>2. QED BY <3>2, <4>0, <5>1
      <4>1. Stays(y)
        BY <1>3, <2>1, <3>2, <4>0
      <4>2. QED BY <1>1, <2>1, <3>2, <4>1
    <3>3. CASE Closes(x)
      <4>1. Closes(y)
        BY <1>1, <1>3, <2>1, <3>3
      <4>2. <<x[1], a, x[3] + 1>> = <<y[1], a, y[3] + 1>>
        BY <1>1, <2>1, <3>3, <4>1
      <4>3. QED BY <1>3, <3>3, <4>1, <4>2
    <3>4. QED BY <1>3, <3>1, <3>2, <3>3
  <2>2. QED BY <1>3, <2>1 DEF OneSpot
<1>5. InOrder(B, before)
  <2>1. ASSUME NEW x \in B, NEW y \in B, <<x[1], y[1]>> \in before PROVE Ahead(x, y)
    <3>0. x[1] # y[1] /\ (x[1] \in D <=> y[1] \in D)
      BY <2>1
    <3>1. CASE Moved(x)
      <4>1. CASE Stays(y)
        <5>1. Ahead(<<m, a, 1>>, y)
          BY <1>2, <2>1, <3>1, <4>1
        <5>2. QED BY <1>3, <3>1, <5>1 DEF Ahead
      <4>2. CASE Closes(y)
        BY <3>1, <4>2 DEF Ahead
      <4>3. QED BY <1>3, <3>0, <3>1, <4>1, <4>2
    <3>2. CASE Moved(y)
      <4>1. CASE Stays(x)
        <5>1. Ahead(x, <<m, a, 1>>)
          BY <1>2, <2>1, <3>2, <4>1
        <5>2. QED BY <1>3, <2>1, <3>2, <4>1, <5>1 DEF Ahead
      <4>2. CASE Closes(x)
        <5>1. Ahead(<<x[1], a, x[3] + 1>>, <<m, a, 1>>)
          BY <1>2, <2>1, <3>2, <4>2
        <5>2. QED BY <1>3, <5>1 DEF Ahead
      <4>3. QED BY <1>3, <3>0, <3>2, <4>1, <4>2
    <3>3. CASE Stays(x) /\ Stays(y)
      BY <1>2, <2>1, <3>3
    <3>4. CASE Closes(x) /\ Closes(y)
      <4>1. Ahead(<<x[1], a, x[3] + 1>>, <<y[1], a, y[3] + 1>>)
        BY <1>2, <2>1, <3>4
      <4>2. QED BY <1>3, <3>4, <4>1 DEF Ahead
    <3>5. CASE Stays(x) /\ Closes(y)
      <4>1. Ahead(x, <<y[1], a, y[3] + 1>>)
        BY <1>2, <2>1, <3>5
      <4>2. QED BY <1>3, <3>0, <3>5, <4>1 DEF Ahead
    <3>6. CASE Closes(x) /\ Stays(y)
      <4>1. Ahead(<<x[1], a, x[3] + 1>>, y)
        BY <1>2, <2>1, <3>6
      <4>2. QED BY <1>3, <3>0, <3>6, <4>1 DEF Ahead
    <3>7. QED BY <1>3, <3>1, <3>2, <3>3, <3>4, <3>5, <3>6
  <2>2. QED BY <2>1 DEF InOrder
<1>6. QED BY <1>4, <1>5

(* Some requests leave the line, and those at stage a move up by k.          *)
LEMMA Shrink ==
  ASSUME NEW R, NEW A \in Lines(R), NEW B \in Lines(R),
         NEW before, NEW a \in 1 .. 8, NEW k \in Nat,
         OneSpot(A), InOrder(A, before),
         \A x \in B : IF x[2] = a THEN <<x[1], a, x[3] + k>> \in A ELSE x \in A
  PROVE  OneSpot(B) /\ InOrder(B, before)
<1> USE DEF Lines
<1>1. \A x, y \in A : x[1] = y[1] => x = y
  BY DEF OneSpot
<1>2. \A x, y \in A : <<x[1], y[1]>> \in before => Ahead(x, y)
  BY DEF InOrder
<1>3. \A x \in B : x = <<x[1], x[2], x[3]>> /\ x[2] \in 1 .. 8 /\ x[3] \in Nat \ {0}
  OBVIOUS
<1> DEFINE Old(x) == IF x[2] = a THEN <<x[1], a, x[3] + k>> ELSE x
<1>4. \A x \in B : Old(x) \in A /\ Old(x)[1] = x[1] /\ Old(x)[2] = x[2]
                   /\ Old(x)[3] = IF x[2] = a THEN x[3] + k ELSE x[3]
  OBVIOUS
<1> HIDE DEF Old
<1>5. ASSUME NEW x \in B, NEW y \in B, x[1] = y[1] PROVE x = y
  <2>1. Old(x) = Old(y)
    BY <1>1, <1>4, <1>5
  <2>2. x[2] = y[2] /\ x[3] = y[3]
    BY <1>3, <1>4, <2>1
  <2>3. QED BY <1>3, <1>5, <2>2
<1>6. ASSUME NEW x \in B, NEW y \in B, <<x[1], y[1]>> \in before PROVE Ahead(x, y)
  <2>1. Ahead(Old(x), Old(y))
    BY <1>2, <1>4, <1>6
  <2>2. QED BY <1>3, <1>4, <2>1 DEF Ahead
<1>7. QED BY <1>5, <1>6 DEF OneSpot, InOrder

-----------------------------------------------------------------------------
(* Two requests of a lane are different, and the lane is one of both.        *)
LEMMA BeforeFacts ==
  ASSUME TypeInv, Orderly, NEW p \in Before
  PROVE  /\ p[1] # p[2] /\ Body[p[1]] = Body[p[2]] /\ Owner[p[1]] = Owner[p[2]]
         /\ OneWorker(p[2])
<1>1. sent \in Seq(Requests) /\ DOMAIN sent = 1 .. Len(sent) /\ Len(sent) \in Nat
  BY LenProperties DEF TypeInv, TypeOK
<1>2. \A i, j \in DOMAIN sent : i < j => sent[i] # sent[j]
  BY <1>1 DEF Orderly, NoRepeats
<1>3. QED BY <1>2 DEF Before, SameLane, Precedes

(* Only Send changes who is before whom.                                     *)
LEMMA BeforeSame == sent' = sent => Before' = Before
  BY DEF Before, Precedes, SameLane

(* A place in the line is a request's place at a stage, now ...              *)
LEMMA LineAt ==
  /\ \A r, s, i : <<r, s, i>> \in Line <=> r \in Requests /\ s \in 1 .. 8 /\ i \in Nat \ {0} /\ At(r, s, i)
  /\ \A x \in Line : x = <<x[1], x[2], x[3]>> /\ x[1] \in Requests /\ x[2] \in 1 .. 8
                     /\ x[3] \in Nat \ {0} /\ At(x[1], x[2], x[3])
  BY DEF Line, Spots

(* ... and after a step.                                                     *)
LEMMA LineAtNext ==
  \A x \in Line' : x = <<x[1], x[2], x[3]>> /\ x[1] \in Requests /\ x[2] \in 1 .. 8
                     /\ x[3] \in Nat \ {0} /\ At(x[1], x[2], x[3])'
  BY DEF Line, Spots

\* In this step the head m of stage a gets place n of stage b, those of D
\* close up behind it, and nobody else appears anywhere.
Climbs(a, b, n, D, m) ==
  \A r \in Requests : \A s \in 1 .. 8 : \A i \in Nat \ {0} :
    At(r, s, i)' => \/ r = m /\ s = b /\ i = n
                    \/ IF s = a /\ r \in D THEN At(r, a, i + 1) ELSE At(r, s, i)

\* Nobody who is before m is overtaken by that.
Unhindered(a, b, n, m) ==
  \A q \in Requests : \A s \in 1 .. 8 : \A i \in Nat \ {0} :
    <<q, m>> \in Before /\ At(q, s, i) => s <= a \/ s > b \/ (s = b /\ i < n)

\* In this step some requests leave, the first k of stage a among them.
Leaves(a, k) ==
  \A r \in Requests : \A s \in 1 .. 8 : \A i \in Nat \ {0} :
    At(r, s, i)' => IF s = a THEN At(r, a, i + k) ELSE At(r, s, i)

(* A step that moves the head of stage a to the end of stage b.              *)
LEMMA MoveUp ==
  ASSUME TypeInv, Orderly, sent' = sent,
         NEW a \in 1 .. 8, NEW b \in 1 .. 8, NEW n \in Nat \ {0},
         NEW D \in SUBSET Requests, NEW m \in D,
         a < b, At(m, a, 1), b \in 2 .. 6 => Body[m] \in Registered,
         \A p \in Before : p[1] \in D <=> p[2] \in D,
         Climbs(a, b, n, D, m), Unhindered(a, b, n, m)
  PROVE  Orderly'
<1>1. Line \in Lines(Requests) /\ Line' \in Lines(Requests) /\ Before \in SUBSET (Requests \X Requests)
  BY DEF Line, Spots, Before, Lines
<1>2. <<m, a, 1>> \in Line
  BY LineAt
<1>3. Lanes(Before, D)
  BY BeforeFacts DEF Lanes
<1>4. Advances(Line, Line', a, b, n, D, m)
  BY LineAt, LineAtNext DEF Advances, Climbs
<1>5. Clear(Line, Before, a, b, n, m)
  BY LineAt DEF Clear, Unhindered
<1>6. OneSpot(Line) /\ InOrder(Line, Before)
  BY DEF Orderly
<1>7. OneSpot(Line') /\ InOrder(Line', Before)
  BY <1>1, <1>2, <1>3, <1>4, <1>5, <1>6, Advance
<1>8. \A x \in Line' : x[1] \in Range(sent) /\ (x[2] \in 2 .. 6 => Body[x[1]] \in Registered)
  <2>1. ASSUME NEW x \in Line' PROVE x[1] \in Range(sent) /\ (x[2] \in 2 .. 6 => Body[x[1]] \in Registered)
    <3>1. CASE x = <<m, b, n>>
      BY <1>2, <3>1 DEF Orderly
    <3>2. CASE x[2] = a /\ <<x[1], a, x[3] + 1>> \in Line
      BY <3>2 DEF Orderly
    <3>3. CASE x \in Line
      BY <3>3 DEF Orderly
    <3>4. QED BY <1>4, <3>1, <3>2, <3>3 DEF Advances
  <2>2. QED BY <2>1
<1>9. OneSpot(Line)' /\ InOrder(Line, Before)'
  BY <1>7, BeforeSame DEF OneSpot, InOrder, Ahead
<1>10. QED BY <1>8, <1>9 DEF Orderly

(* The same where everybody at stage a closes up.                            *)
LEMMA QueueMovesUp ==
  ASSUME TypeInv, Orderly, sent' = sent,
         NEW a \in 1 .. 8, NEW b \in 1 .. 8, NEW n \in Nat \ {0}, NEW m \in Requests,
         a < b, At(m, a, 1), b \in 2 .. 6 => Body[m] \in Registered,
         Climbs(a, b, n, Requests, m), Unhindered(a, b, n, m)
  PROVE  Orderly'
<1>1. \A p \in Before : p[1] \in Requests <=> p[2] \in Requests
  BY DEF Before
<1>2. QED BY <1>1, MoveUp

(* A step that takes requests away, the first k of stage a among them.       *)
LEMMA MoveOut ==
  ASSUME TypeInv, Orderly, sent' = sent,
         NEW a \in 1 .. 8, NEW k \in Nat,
         Leaves(a, k)
  PROVE  Orderly'
<1>1. Line \in Lines(Requests) /\ Line' \in Lines(Requests)
  BY DEF Line, Spots, Lines
<1>2. \A x \in Line' : IF x[2] = a THEN <<x[1], a, x[3] + k>> \in Line ELSE x \in Line
  BY LineAt, LineAtNext DEF Leaves
<1>3. OneSpot(Line) /\ InOrder(Line, Before)
  BY DEF Orderly
<1>4. OneSpot(Line') /\ InOrder(Line', Before)
  BY <1>1, <1>2, <1>3, Shrink
<1>5. \A x \in Line' : x[1] \in Range(sent) /\ (x[2] \in 2 .. 6 => Body[x[1]] \in Registered)
  <2>1. ASSUME NEW x \in Line' PROVE x[1] \in Range(sent) /\ (x[2] \in 2 .. 6 => Body[x[1]] \in Registered)
    <3>1. CASE x[2] = a /\ <<x[1], a, x[3] + k>> \in Line
      BY <3>1 DEF Orderly
    <3>2. CASE x \in Line
      BY <3>2 DEF Orderly
    <3>3. QED BY <1>2, <3>1, <3>2
  <2>2. QED BY <2>1
<1>6. OneSpot(Line)' /\ InOrder(Line, Before)'
  BY <1>4, BeforeSame DEF OneSpot, InOrder, Ahead
<1>7. QED BY <1>5, <1>6 DEF Orderly

-----------------------------------------------------------------------------
(* TypeOK for the queues, the sockets and the workers' hands.                *)
LEMMA QueueTypes ==
  ASSUME TypeInv
  PROVE  /\ sent \in Seq(Requests) /\ front \in Seq(Requests)
         /\ back \in Seq(Seq(Frames)) /\ inproc \in Seq(Seq(Frames)) /\ partial \in Seq(Frames)
         /\ msgList \in Seq(Answers)
         /\ dqs \in [Interfaces -> Seq(Requests)] /\ mailbox \in [Clients -> Seq(Answers)]
         /\ message \in [Workers -> Requests \cup {NoRequest}]
  BY DEF TypeInv, TypeOK

(* Steps that leave the line alone, or close the inproc socket.              *)
LEMMA QuietOrder ==
  ASSUME TypeInv, Orderly,
         UNCHANGED <<sent, front, dqs, message, msgList, back, mailbox>>,
         inproc' = inproc \/ inproc' = <<>>, ~ (spc' = "send") \/ UNCHANGED <<spc, msg>>
  PROVE  Orderly'
<1>1. ASSUME NEW r \in Requests, NEW s \in 1 .. 8, NEW i \in Nat \ {0}, At(r, s, i)' PROVE At(r, s, i)
  <2>1. /\ OnFront(r, i)' => OnFront(r, i)
        /\ InDq(r, i)' => InDq(r, i)
        /\ Held(r)' => Held(r)
        /\ InList(r, i)' => InList(r, i)
        /\ InHandOfSender(r)' => InHandOfSender(r)
    BY DEF OnFront, InDq, Held, InList, InHandOfSender
  <2>2. /\ OnInproc(r, i)' => OnInproc(r, i)
        /\ OnBack(r, i)' => OnBack(r, i)
        /\ InMailbox(r, i)' => InMailbox(r, i)
    BY DEF OnInproc, OnBack, InMailbox
  <2>3. QED BY <1>1, <2>1, <2>2 DEF At
<1>2. Leaves(1, 0)
  <2>1. \A i \in Nat \ {0} : i + 0 = i
    OBVIOUS
  <2>2. QED BY <1>1, <2>1 DEF Leaves
<1>3. QED BY <1>2, MoveOut

(* The router moves a reply from the wire into the mailbox of its client.    *)
LEMMA DeliverOrder ==
  ASSUME ServiceInv, RouterDeliver
  PROVE  Orderly'
<1> USE DEF ServiceInv
<1> DEFINE m == back[1]
           r == m[1].req
           c == Owner[r]
           n == Len(mailbox[c]) + 1
<1>1. /\ back \in Seq(Seq(Frames)) /\ back # <<>> /\ Head(back) = m /\ back' = Tail(back)
      /\ 1 \in DOMAIN back
      /\ \A i \in DOMAIN back' : i + 1 \in DOMAIN back /\ back'[i] = back[i + 1]
  BY QueueTypes, TailElements DEF RouterDeliver
<1>2. /\ sent' = sent /\ front' = front /\ dqs' = dqs /\ message' = message
      /\ msgList' = msgList /\ msg' = msg /\ spc' = spc /\ inproc' = inproc
  BY DEF RouterDeliver, sender
<1>3. ASSUME NEW q \in Requests, NEW i \in Nat \ {0}
      PROVE  /\ OnFront(q, i)' => OnFront(q, i)
             /\ InDq(q, i)' => InDq(q, i)
             /\ Held(q)' => Held(q)
             /\ InList(q, i)' => InList(q, i)
             /\ InHandOfSender(q)' => InHandOfSender(q)
             /\ OnInproc(q, i)' => OnInproc(q, i)
             /\ OnBack(q, i)' => OnBack(q, i + 1)
  BY <1>1, <1>2 DEF OnFront, InDq, Held, InList, InHandOfSender, OnInproc, OnBack
<1>4. CASE m[1].kind # "addr"
  <2>1. mailbox' = mailbox
    BY <1>1, <1>4 DEF RouterDeliver
  <2>2. ASSUME NEW q \in Requests, NEW s \in 1 .. 8, NEW i \in Nat \ {0}, At(q, s, i)'
        PROVE  IF s = 7 THEN At(q, 7, i + 1) ELSE At(q, s, i)
    <3>1. InMailbox(q, i)' => InMailbox(q, i)
      BY <2>1 DEF InMailbox
    <3>2. QED BY <1>3, <2>2, <3>1 DEF At
  <2>3. Leaves(7, 1)
    BY <2>2 DEF Leaves
  <2>4. QED BY <1>2, <2>3, MoveOut
<1>5. CASE m[1].kind = "addr"
  <2>1. m = RightReply(r) /\ m[2].req = r
    <3>1. m = RightReply(r)
      BY <1>1, <1>5 DEF Truthful
    <3>2. QED BY <3>1 DEF RightReply, BodyFrame, RightAnswer
  <2>2. r \in Requests /\ c \in Clients
    <3>1. m \in Seq(Frames)
      BY <1>1, ElementOfSeq
    <3>2. m[1] \in Frames
      BY <2>1, <3>1, ElementOfSeq DEF RightReply
    <3>3. r \in Requests
      BY <3>2, <1>5 DEF Frames
    <3>4. QED BY <3>3, ConstantsAssumption
  <2> DEFINE a == [req |-> m[2].req, result |-> m[2].result]
  <2>3. mailbox' = [mailbox EXCEPT ![c] = Append(mailbox[c], a)]
    BY <1>1, <1>5 DEF RouterDeliver
  <2>4. a.req = r
    BY <2>1
  <2>5. mailbox \in [Clients -> Seq(Answers)] /\ mailbox[c] \in Seq(Answers)
    BY <2>2, QueueTypes
  <2>6. a \in Answers
    <3>1. m \in Seq(Frames) /\ Len(m) = 2 /\ m[2].kind = "body"
      BY <1>1, <1>5, ElementOfSeq DEF TypeInv, MessageShape, Routable
    <3>2. m[2] \in Frames
      BY <3>1, ElementOfSeq
    <3>3. QED BY <3>1, <3>2 DEF Frames, Answers
  <2> HIDE DEF a, c, r, m
  <2>7. /\ mailbox'[c] = Append(mailbox[c], a) /\ \A d \in Clients \ {c} : mailbox'[d] = mailbox[d]
        /\ n \in Nat \ {0} /\ DOMAIN mailbox[c] = 1 .. Len(mailbox[c]) /\ Len(mailbox[c]) \in Nat
    BY <2>2, <2>3, <2>5, LenProperties
  <2>8. \A i \in DOMAIN mailbox'[c] :
          i = n \/ (i \in DOMAIN mailbox[c] /\ mailbox'[c][i] = mailbox[c][i])
    BY <2>5, <2>6, <2>7, AppendElements
  <2>9. mailbox'[c][n] = a
    BY <2>5, <2>6, <2>7, AppendElements
  <2>10. At(r, 7, 1)
    BY <1>1, <1>5 DEF At, OnBack, r
  <2>11. ASSUME NEW q \in Requests, NEW s \in 1 .. 8, NEW i \in Nat \ {0}, At(q, s, i)'
         PROVE  \/ q = r /\ s = 8 /\ i = n
                \/ IF s = 7 /\ q \in Requests THEN At(q, 7, i + 1) ELSE At(q, s, i)
    <3>1. InMailbox(q, i)' => InMailbox(q, i) \/ (q = r /\ i = n)
      BY <2>2, <2>4, <2>7, <2>8, <2>9 DEF InMailbox
    <3>2. QED BY <1>3, <2>11, <3>1 DEF At
  <2>12. ASSUME NEW q \in Requests, NEW s \in 1 .. 8, NEW i \in Nat \ {0},
                <<q, r>> \in Before, At(q, s, i)
         PROVE  s <= 7 \/ s > 8 \/ (s = 8 /\ i < n)
    <3>1. Owner[q] = c
      BY <2>12, BeforeFacts DEF c
    <3>2. InMailbox(q, i) => i \in DOMAIN mailbox[c]
      BY <3>1 DEF InMailbox, Truthful
    <3>3. s = 8 => InMailbox(q, i)
      BY <2>12 DEF At
    <3>4. QED BY <2>7, <3>2, <3>3
  <2> HIDE DEF n
  <2>13. Climbs(7, 8, n, Requests, r)
    BY <2>11 DEF Climbs
  <2>14. Unhindered(7, 8, n, r)
    BY <2>12 DEF Unhindered
  <2>15. QED BY <1>2, <2>2, <2>7, <2>10, <2>13, <2>14, QueueMovesUp
<1>6. QED BY <1>4, <1>5

(* Who was at a stage that the step leaves alone.                            *)
LEMMA SameStages ==
  ASSUME NEW q, NEW i
  PROVE  /\ front' = front => (OnFront(q, i)' => OnFront(q, i))
         /\ dqs' = dqs => (InDq(q, i)' => InDq(q, i))
         /\ message' = message => (Held(q)' => Held(q))
         /\ msgList' = msgList => (InList(q, i)' => InList(q, i))
         /\ spc' = spc /\ msg' = msg => (InHandOfSender(q)' => InHandOfSender(q))
         /\ inproc' = inproc => (OnInproc(q, i)' => OnInproc(q, i))
         /\ back' = back => (OnBack(q, i)' => OnBack(q, i))
         /\ mailbox' = mailbox => (InMailbox(q, i)' => InMailbox(q, i))
  BY DEF OnFront, InDq, Held, InList, InHandOfSender, OnInproc, OnBack, InMailbox

(* The ZmqWorker drops a request, answers it with an error at once, which    *)
(* passes the queues by, or puts it at the end of its DQueue.                *)
LEMMA ReceiveOrder ==
  ASSUME ServiceInv, ReceiveRequest
  PROVE  Orderly'
<1> USE DEF ServiceInv
<1> DEFINE r == Head(front)
<1>1. /\ front \in Seq(Requests) /\ front # <<>> /\ front' = Tail(front)
      /\ 1 \in DOMAIN front /\ r = front[1] /\ r \in Requests
  BY QueueTypes, TailElements DEF ReceiveRequest, TypeInv, InHand, ReadsNeverBlock
<1>2. At(r, 1, 1)
  BY <1>1 DEF At, OnFront
<1>3. \A q, i : OnFront(q, i)' => OnFront(q, i + 1)
  BY <1>1, TailElements DEF OnFront
<1>4. UNCHANGED <<sent, mailbox, message, msgList, msg, spc, inproc>>
  BY DEF ReceiveRequest, sender
<1>5. \/ dqs' = dqs /\ back' = back
      \/ Body[r] \in BodyKinds \ Registered /\ \E code \in Results : ReplyError(r, code)
      \/ Body[r] \in Registered /\ DispatchDq(r)
  BY ConstantsAssumption DEF ReceiveRequest, BodyKinds, Results, Registered, Interfaces
<1> HIDE DEF r
<1>6. ASSUME dqs' = dqs, \A q, i : OnBack(q, i)' => OnBack(q, i) PROVE Orderly'
  <2>1. ASSUME NEW q \in Requests, NEW s \in 1 .. 8, NEW i \in Nat \ {0}, At(q, s, i)'
        PROVE  IF s = 1 THEN At(q, 1, i + 1) ELSE At(q, s, i)
    BY <1>3, <1>4, <1>6, <2>1, SameStages DEF At
  <2>2. Leaves(1, 1)
    BY <2>1 DEF Leaves
  <2>3. QED BY <1>4, <2>2, MoveOut
<1>7. CASE dqs' = dqs /\ back' = back
  BY <1>6, <1>7, SameStages
<1>8. ASSUME Body[r] \in BodyKinds \ Registered, NEW code \in Results, ReplyError(r, code)
      PROVE  Orderly'
  <2> DEFINE a == [req |-> r, result |-> code]
             m == partial \o <<AddrFrame(r), BodyFrame(a)>>
             n == Len(back) + 1
  <2>1. back' = Append(back, m) /\ dqs' = dqs
    BY <1>8 DEF ReplyError
  <2>2. /\ m \in Seq(Frames)
        /\ partial = <<>> => m[1].kind = "addr" /\ m[1].req = r
        /\ partial # <<>> => m[1].kind = "body"
    <3>1. AddrFrame(r) \in Frames /\ BodyFrame(a) \in Frames
      BY <1>1 DEF AddrFrame, BodyFrame, Frames
    <3>2. /\ m \in Seq(Frames)
          /\ partial = <<>> => m = <<AddrFrame(r), BodyFrame(a)>>
          /\ partial # <<>> => 1 \in DOMAIN partial /\ m[1] = partial[1]
      BY <3>1, QueueTypes, ConcatPair
    <3>3. partial = <<>> => m[1] = AddrFrame(r)
      BY <3>2
    <3>4. QED BY <3>2, <3>3 DEF TypeInv, MessageShape, AddrFrame
  <2> HIDE DEF m
  <2>3. /\ back \in Seq(Seq(Frames))
        /\ DOMAIN back = 1 .. Len(back) /\ Len(back) \in Nat /\ n \in Nat \ {0}
    BY QueueTypes, LenProperties
  <2>4. /\ back'[n] = m
        /\ \A i \in DOMAIN back' : i = n \/ (i \in DOMAIN back /\ back'[i] = back[i])
    BY <2>1, <2>2, <2>3, AppendElements
  <2> HIDE DEF n
  <2>5. CASE partial # <<>>
    <3>1. \A q, i : OnBack(q, i)' => OnBack(q, i)
      BY <2>2, <2>4, <2>5 DEF OnBack
    <3>2. QED BY <1>6, <2>1, <3>1
  <2>6. CASE partial = <<>>
    <3>1. \A q, i : OnBack(q, i)' => OnBack(q, i) \/ (q = r /\ i = n)
      BY <2>2, <2>4, <2>6 DEF OnBack
    <3>2. ASSUME NEW q \in Requests, NEW s \in 1 .. 8, NEW i \in Nat \ {0}, At(q, s, i)'
          PROVE  \/ q = r /\ s = 7 /\ i = n
                 \/ IF s = 1 /\ q \in Requests THEN At(q, 1, i + 1) ELSE At(q, s, i)
      BY <1>3, <1>4, <2>1, <3>1, <3>2, SameStages DEF At
    <3>3. Climbs(1, 7, n, Requests, r)
      BY <3>2 DEF Climbs
    <3>4. ASSUME NEW q \in Requests, NEW s \in 1 .. 8, NEW i \in Nat \ {0},
                 <<q, r>> \in Before, At(q, s, i)
          PROVE  s <= 1 \/ s > 7 \/ (s = 7 /\ i < n)
      <4>1. Body[q] = Body[r]
        BY <3>4, BeforeFacts
      <4>2. ~ (s \in 2 .. 6)
        <5>1. <<q, s, i>> \in Line
          BY <3>4, LineAt
        <5>2. QED BY <1>8, <4>1, <5>1 DEF Orderly
      <4>3. s = 7 => OnBack(q, i)
        BY <3>4 DEF At
      <4>4. OnBack(q, i) => i < n
        BY <2>3 DEF OnBack, n
      <4>5. QED BY <4>2, <4>3, <4>4
    <3>5. Unhindered(1, 7, n, r)
      BY <3>4 DEF Unhindered
    <3>6. QED BY <1>1, <1>2, <1>4, <2>3, <3>3, <3>5, QueueMovesUp
  <2>7. QED BY <2>5, <2>6
<1>9. ASSUME Body[r] \in Registered, DispatchDq(r) PROVE Orderly'
  <2> DEFINE k == Body[r]
             n == Len(dqs[k]) + 1
  <2>1. k \in Interfaces
    BY <1>9, ConstantsAssumption DEF Registered
  <2>2. dqs' = [dqs EXCEPT ![k] = Append(dqs[k], r)] /\ back' = back
    BY <1>9 DEF DispatchDq
  <2>3. /\ dqs \in [Interfaces -> Seq(Requests)] /\ dqs[k] \in Seq(Requests)
        /\ DOMAIN dqs[k] = 1 .. Len(dqs[k]) /\ Len(dqs[k]) \in Nat /\ n \in Nat \ {0}
    BY <2>1, QueueTypes, LenProperties
  <2>4. /\ dqs'[k] = Append(dqs[k], r)
        /\ \A j \in Interfaces \ {k} : dqs'[j] = dqs[j]
    BY <2>1, <2>2, <2>3
  <2>5. \A i \in DOMAIN dqs'[k] :
          (i = n /\ dqs'[k][i] = r) \/ (i \in DOMAIN dqs[k] /\ dqs'[k][i] = dqs[k][i])
    BY <1>1, <2>3, <2>4, AppendElements
  <2> HIDE DEF n, k
  <2>6. \A q, i : InDq(q, i)' => InDq(q, i) \/ (q = r /\ i = n)
    BY <2>1, <2>4, <2>5 DEF InDq
  <2>7. ASSUME NEW q \in Requests, NEW s \in 1 .. 8, NEW i \in Nat \ {0}, At(q, s, i)'
        PROVE  \/ q = r /\ s = 2 /\ i = n
               \/ IF s = 1 /\ q \in Requests THEN At(q, 1, i + 1) ELSE At(q, s, i)
    BY <1>3, <1>4, <2>2, <2>6, <2>7, SameStages DEF At
  <2>8. Climbs(1, 2, n, Requests, r)
    BY <2>7 DEF Climbs
  <2>9. ASSUME NEW q \in Requests, NEW s \in 1 .. 8, NEW i \in Nat \ {0},
               <<q, r>> \in Before, At(q, s, i)
        PROVE  s <= 1 \/ s > 2 \/ (s = 2 /\ i < n)
    <3>1. Body[q] = k
      BY <2>9, BeforeFacts DEF k
    <3>2. InDq(q, i) => i \in DOMAIN dqs[k]
      BY <3>1 DEF InDq, Custody, OneSlot, Range
    <3>3. s = 2 => InDq(q, i)
      BY <2>9 DEF At
    <3>4. QED BY <2>3, <3>2, <3>3 DEF n
  <2>10. Unhindered(1, 2, n, r)
    BY <2>9 DEF Unhindered
  <2>11. QED BY <1>1, <1>2, <1>4, <1>9, <2>3, <2>8, <2>10, QueueMovesUp
<1>10. QED BY <1>5, <1>7, <1>8, <1>9

(* A worker takes the head of its DQueue; a lane's only worker has nothing   *)
(* in hand then, so it holds nobody of the lane.                             *)
LEMMA WorkerGetOrder ==
  ASSUME ServiceInv, NEW w \in Workers, WorkerGet(w)
  PROVE  Orderly'
<1> USE DEF ServiceInv
<1> DEFINE k == Serves[w]
           r == Head(dqs[k])
           D == {q \in Requests : Body[q] = k}
<1>1. /\ k \in Interfaces /\ k \in Registered
      /\ dqs \in [Interfaces -> Seq(Requests)] /\ dqs[k] \in Seq(Requests)
      /\ message \in [Workers -> Requests \cup {NoRequest}]
  BY ConstantsAssumption, QueueTypes DEF Registered
<1>2. /\ dqs[k] # <<>> /\ message[w] = NoRequest
      /\ message' = [message EXCEPT ![w] = r]
      /\ dqs' = [dqs EXCEPT ![k] = Tail(dqs[k])]
      /\ UNCHANGED <<sent, front, back, mailbox, inproc, msgList, msg, spc>>
  BY DEF WorkerGet, network, sender
<1>3. /\ 1 \in DOMAIN dqs[k] /\ r = dqs[k][1] /\ r \in Requests
      /\ \A i \in DOMAIN Tail(dqs[k]) : i + 1 \in DOMAIN dqs[k] /\ Tail(dqs[k])[i] = dqs[k][i + 1]
  BY <1>1, <1>2, TailElements
<1>4. \A j \in Interfaces : \A i \in DOMAIN dqs[j] : Body[dqs[j][i]] = j
  BY DEF Custody, OneSlot, Range
<1>5. dqs'[k] = Tail(dqs[k]) /\ \A j \in Interfaces \ {k} : dqs'[j] = dqs[j]
  BY <1>1, <1>2
<1> HIDE DEF k, r
<1>6. r \in D
  BY <1>1, <1>3, <1>4
<1>7. At(r, 2, 1)
  BY <1>1, <1>3 DEF At, InDq
<1>8. ASSUME NEW q \in Requests, NEW s \in 1 .. 8, NEW i \in Nat \ {0}, At(q, s, i)'
      PROVE  \/ q = r /\ s = 3 /\ i = 1
             \/ IF s = 2 /\ q \in D THEN At(q, 2, i + 1) ELSE At(q, s, i)
  <2>1. InDq(q, i)' => IF q \in D THEN InDq(q, i + 1) ELSE InDq(q, i)
    <3>1. ASSUME NEW j \in Interfaces, i \in DOMAIN dqs'[j], dqs'[j][i] = q
          PROVE  IF q \in D THEN InDq(q, i + 1) ELSE InDq(q, i)
      <4>1. CASE j = k
        <5>1. i + 1 \in DOMAIN dqs[k] /\ dqs[k][i + 1] = q
          BY <1>3, <1>5, <3>1, <4>1
        <5>2. QED BY <1>1, <1>4, <5>1 DEF InDq
      <4>2. CASE j # k
        <5>1. i \in DOMAIN dqs[j] /\ dqs[j][i] = q
          BY <1>5, <3>1, <4>2
        <5>2. QED BY <1>4, <4>2, <5>1 DEF InDq
      <4>3. QED BY <4>1, <4>2
    <3>2. QED BY <3>1 DEF InDq
  <2>2. Held(q)' => Held(q) \/ q = r
    BY <1>1, <1>2 DEF Held
  <2>3. QED BY <1>2, <1>8, <2>1, <2>2, SameStages DEF At
<1>9. Climbs(2, 3, 1, D, r)
  <2> HIDE DEF D
  <2>1. QED BY <1>8 DEF Climbs
<1>10. ASSUME NEW q \in Requests, NEW s \in 1 .. 8, NEW i \in Nat \ {0},
              <<q, r>> \in Before, At(q, s, i)
       PROVE  s <= 2 \/ s > 3 \/ (s = 3 /\ i < 1)
  <2>1. Body[q] = Body[r] /\ OneWorker(r)
    BY <1>10, BeforeFacts
  <2>2. ~ Held(q)
    <3>1. ASSUME NEW v \in Workers, message[v] = q PROVE FALSE
      <4>1. q # NoRequest
        BY ConstantsAssumption
      <4>2. Serves[v] = Body[r]
        BY <2>1, <3>1, <4>1 DEF Truthful
      <4>3. v = w
        BY <1>6, <2>1, <4>2 DEF OneWorker, k
      <4>4. QED BY <1>2, <3>1, <4>1, <4>3
    <3>2. QED BY <3>1 DEF Held
  <2>3. s # 3
    BY <1>10, <2>2 DEF At
  <2>4. QED BY <2>3
<1>11. Unhindered(2, 3, 1, r)
  BY <1>10 DEF Unhindered
<1>12. \A p \in Before : p[1] \in D <=> p[2] \in D
  BY BeforeFacts DEF Before
<1>13. Body[r] \in Registered
  BY <1>1, <1>6
<1> HIDE DEF D
<1>14. D \in SUBSET Requests
  BY DEF D
<1>15. sent' = sent
  BY <1>2
<1>16. QED BY <1>6, <1>7, <1>9, <1>11, <1>12, <1>13, <1>14, <1>15, MoveUp

(* The worker's answer goes to the end of the sender's list.                 *)
LEMMA WorkerCallOrder ==
  ASSUME ServiceInv, NEW w \in Workers, WorkerCall(w)
  PROVE  Orderly'
<1> USE DEF ServiceInv
<1> DEFINE r == message[w]
           a == [req |-> r, result |-> HandlerResult(w, r)]
           n == Len(msgList) + 1
           D == {q \in Requests : q = r \/ (OneWorker(q) /\ Body[q] = Body[r])}
<1>1. r \in Requests /\ r # NoRequest /\ a \in Answers /\ a.req = r
  BY ConstantsAssumption
  DEF WorkerCall, TypeInv, TypeOK, Answers, HandlerResult, Results
<1>2. Body[r] = Serves[w] /\ Body[r] \in Registered
  BY <1>1 DEF Truthful, Registered
<1>3. /\ msgList \in Seq(Answers) /\ message \in [Workers -> Requests \cup {NoRequest}]
      /\ DOMAIN msgList = 1 .. Len(msgList) /\ Len(msgList) \in Nat /\ n \in Nat \ {0}
  BY QueueTypes, LenProperties
<1>4. /\ msgList' = Append(msgList, a)
      /\ message' = [message EXCEPT ![w] = NoRequest]
      /\ UNCHANGED <<sent, front, back, mailbox, inproc, dqs, msg, spc>>
  BY DEF WorkerCall, network
<1> HIDE DEF a
<1>5. \A i \in DOMAIN msgList' :
        (i = n /\ msgList'[i] = a) \/ (i \in DOMAIN msgList /\ msgList'[i] = msgList[i])
  BY <1>1, <1>3, <1>4, AppendElements
<1>6. At(r, 3, 1)
  BY DEF At, Held
<1> HIDE DEF r, n
<1>7. ASSUME NEW q \in Requests, Held(q)' PROVE Held(q) /\ q \notin D
  <2>1. PICK v \in Workers : message'[v] = q
    BY <1>7 DEF Held
  <2>2. v # w /\ message[v] = q /\ q # NoRequest
    BY <1>3, <1>4, <2>1, ConstantsAssumption
  <2>3. q # r
    BY <1>1, <2>2 DEF Custody, OneSlot, r
  <2>4. Serves[v] = Body[q]
    BY <2>2 DEF Truthful
  <2>5. ~ (OneWorker(q) /\ Body[q] = Body[r])
    BY <1>2, <2>2, <2>4 DEF OneWorker
  <2>6. QED BY <2>2, <2>3, <2>5 DEF Held
<1>8. ASSUME NEW q \in Requests, NEW s \in 1 .. 8, NEW i \in Nat \ {0}, At(q, s, i)'
      PROVE  \/ q = r /\ s = 4 /\ i = n
             \/ IF s = 3 /\ q \in D THEN At(q, 3, i + 1) ELSE At(q, s, i)
  <2> HIDE DEF D
  <2>1. InList(q, i)' => InList(q, i) \/ (q = r /\ i = n)
    BY <1>1, <1>5 DEF InList
  <2>2. QED BY <1>4, <1>7, <1>8, <2>1, SameStages DEF At
<1>9. Climbs(3, 4, n, D, r)
  <2> HIDE DEF D
  <2>1. QED BY <1>8 DEF Climbs
<1>10. ASSUME NEW q \in Requests, NEW s \in 1 .. 8, NEW i \in Nat \ {0},
              <<q, r>> \in Before, At(q, s, i)
       PROVE  s <= 3 \/ s > 4 \/ (s = 4 /\ i < n)
  <2>1. s = 4 => i \in DOMAIN msgList
    BY <1>10 DEF At, InList
  <2>2. QED BY <1>3, <2>1 DEF n
<1>11. Unhindered(3, 4, n, r)
  BY <1>10 DEF Unhindered
<1>12. ASSUME NEW p \in Before PROVE p[1] \in D <=> p[2] \in D
  <2>1. /\ p[1] \in Requests /\ p[2] \in Requests
        /\ p[1] # p[2] /\ Body[p[1]] = Body[p[2]] /\ OneWorker(p[2])
    BY BeforeFacts DEF Before
  <2>2. OneWorker(p[1])
    BY <2>1 DEF OneWorker
  <2>3. QED BY <2>1, <2>2
<1>13. r \in D /\ D \in SUBSET Requests
  BY <1>1
<1>14. \A p \in Before : p[1] \in D <=> p[2] \in D
  BY <1>12
<1>15. sent' = sent /\ n \in Nat \ {0} /\ Body[r] \in Registered
  BY <1>2, <1>3, <1>4
<1> HIDE DEF D
<1>16. QED BY <1>6, <1>9, <1>11, <1>13, <1>14, <1>15, MoveUp

(* The sender takes the head of its list.                                    *)
LEMMA SenderGetOrder ==
  ASSUME ServiceInv, SenderGet
  PROVE  Orderly'
<1> USE DEF ServiceInv
<1> DEFINE r == Head(msgList).req
<1>1. /\ msgList \in Seq(Answers) /\ 1 \in DOMAIN msgList /\ Head(msgList) = msgList[1]
      /\ Head(msgList) \in Answers /\ r \in Requests
      /\ \A i \in DOMAIN Tail(msgList) :
           i + 1 \in DOMAIN msgList /\ Tail(msgList)[i] = msgList[i + 1]
  <2>1. msgList \in Seq(Answers) /\ msgList # <<>>
    BY QueueTypes DEF SenderGet
  <2>2. /\ 1 \in DOMAIN msgList /\ Head(msgList) = msgList[1] /\ Head(msgList) \in Answers
        /\ \A i \in DOMAIN Tail(msgList) :
             i + 1 \in DOMAIN msgList /\ Tail(msgList)[i] = msgList[i + 1]
    BY <2>1, TailElements
  <2>3. r \in Requests
    BY <2>2 DEF Answers
  <2>4. QED BY <2>1, <2>2, <2>3
<1>2. /\ msgList' = Tail(msgList) /\ msg'.req = r /\ spc = "get"
      /\ UNCHANGED <<sent, front, back, mailbox, inproc, dqs, message>>
  BY DEF SenderGet, network
<1>3. At(r, 4, 1)
  BY <1>1 DEF At, InList
<1> HIDE DEF r
<1>4. ASSUME NEW q \in Requests, NEW s \in 1 .. 8, NEW i \in Nat \ {0}, At(q, s, i)'
      PROVE  \/ q = r /\ s = 5 /\ i = 1
             \/ IF s = 4 /\ q \in Requests THEN At(q, 4, i + 1) ELSE At(q, s, i)
  <2>1. InList(q, i)' => InList(q, i + 1)
    BY <1>1, <1>2 DEF InList
  <2>2. InHandOfSender(q)' => q = r
    BY <1>2 DEF InHandOfSender
  <2>3. QED BY <1>2, <1>4, <2>1, <2>2, SameStages DEF At
<1>5. Climbs(4, 5, 1, Requests, r)
  BY <1>4 DEF Climbs
<1>6. Unhindered(4, 5, 1, r)
  BY <1>2 DEF Unhindered, At, InHandOfSender
<1>7. Body[r] \in Registered
  <2>1. <<r, 4, 1>> \in Line
    BY <1>1, <1>3, LineAt
  <2>2. QED BY <2>1 DEF Orderly
<1>8. QED BY <1>1, <1>2, <1>3, <1>5, <1>6, <1>7, QueueMovesUp

(* The sender puts its answer at the end of the inproc socket.               *)
LEMMA SenderSendOrder ==
  ASSUME ServiceInv, SenderSend
  PROVE  Orderly'
<1> USE DEF ServiceInv
<1> DEFINE r == msg.req
           m == IF flags = 0 THEN <<AddrFrame(msg.req), BodyFrame(msg)>> ELSE <<BodyFrame(msg)>>
           n == Len(inproc) + 1
<1>1. msg \in Answers /\ r \in Requests
  BY DEF SenderSend, TypeInv, InHand, Answers
<1>2. m \in Seq(Frames) /\ m[1].req = r
  <2>1. AddrFrame(msg.req) \in Frames /\ BodyFrame(msg) \in Frames
    BY <1>1 DEF AddrFrame, BodyFrame, Frames, Answers
  <2>2. QED BY <2>1 DEF AddrFrame, BodyFrame
<1> HIDE DEF m
<1>3. /\ inproc' = Append(inproc, m) /\ spc = "send" /\ spc' = "destroy"
      /\ UNCHANGED <<sent, front, back, mailbox, dqs, message, msgList>>
  BY DEF SenderSend, network, m
<1>4. /\ inproc \in Seq(Seq(Frames))
      /\ DOMAIN inproc = 1 .. Len(inproc) /\ Len(inproc) \in Nat /\ n \in Nat \ {0}
  BY QueueTypes, LenProperties
<1>5. \A i \in DOMAIN inproc' :
        (i = n /\ inproc'[i] = m) \/ (i \in DOMAIN inproc /\ inproc'[i] = inproc[i])
  BY <1>2, <1>3, <1>4, AppendElements
<1>6. At(r, 5, 1)
  BY <1>3 DEF At, InHandOfSender
<1> HIDE DEF r, n
<1>7. ASSUME NEW q \in Requests, NEW s \in 1 .. 8, NEW i \in Nat \ {0}, At(q, s, i)'
      PROVE  \/ q = r /\ s = 6 /\ i = n
             \/ IF s = 5 /\ q \in Requests THEN At(q, 5, i + 1) ELSE At(q, s, i)
  <2>1. OnInproc(q, i)' => OnInproc(q, i) \/ (q = r /\ i = n)
    BY <1>2, <1>5 DEF OnInproc
  <2>2. ~ InHandOfSender(q)'
    BY <1>3 DEF InHandOfSender
  <2>3. QED BY <1>3, <1>7, <2>1, <2>2, SameStages DEF At
<1>8. Climbs(5, 6, n, Requests, r)
  BY <1>7 DEF Climbs
<1>9. ASSUME NEW q \in Requests, NEW s \in 1 .. 8, NEW i \in Nat \ {0},
             <<q, r>> \in Before, At(q, s, i)
      PROVE  s <= 5 \/ s > 6 \/ (s = 6 /\ i < n)
  <2>1. s = 6 => i \in DOMAIN inproc
    BY <1>9 DEF At, OnInproc
  <2>2. QED BY <1>4, <2>1 DEF n
<1>10. Unhindered(5, 6, n, r)
  BY <1>9 DEF Unhindered
<1>11. Body[r] \in Registered
  <2>1. <<r, 5, 1>> \in Line
    BY <1>1, <1>6, LineAt DEF r
  <2>2. QED BY <2>1 DEF Orderly
<1>12. QED BY <1>1, <1>3, <1>4, <1>6, <1>8, <1>10, <1>11, QueueMovesUp DEF r

(* The ZmqWorker forwards the head of inproc; behind frames that still wait  *)
(* for their end it leaves the line, since no address comes first then.      *)
LEMMA ForwardOrder ==
  ASSUME ServiceInv, ForwardResponse
  PROVE  Orderly'
<1> USE DEF ServiceInv
<1> DEFINE m == Head(inproc)
           r == m[1].req
           x == partial \o m
           n == Len(back) + 1
<1>1. /\ inproc \in Seq(Seq(Frames)) /\ 1 \in DOMAIN inproc /\ m = inproc[1] /\ m \in Seq(Frames)
      /\ \A i \in DOMAIN Tail(inproc) : i + 1 \in DOMAIN inproc /\ Tail(inproc)[i] = inproc[i + 1]
  BY QueueTypes, TailElements DEF ForwardResponse, TypeInv, InHand, ReadsNeverBlock
<1>2. /\ inproc' = Tail(inproc)
      /\ UNCHANGED <<sent, front, mailbox, dqs, message, msgList, msg, spc>>
      /\ \/ Len(m) = 2 /\ back' = Append(back, x)
         \/ Len(m) = 1 /\ back' = back
  BY DEF ForwardResponse, sender
<1> HIDE DEF m
<1>3. \A q, i : OnInproc(q, i)' => OnInproc(q, i + 1)
  BY <1>1, <1>2 DEF OnInproc
<1>4. At(r, 6, 1)
  BY <1>1 DEF At, OnInproc
<1>5. ASSUME \A q, i : OnBack(q, i)' => OnBack(q, i) PROVE Orderly'
  <2>1. ASSUME NEW q \in Requests, NEW s \in 1 .. 8, NEW i \in Nat \ {0}, At(q, s, i)'
        PROVE  IF s = 6 THEN At(q, 6, i + 1) ELSE At(q, s, i)
    BY <1>2, <1>3, <1>5, <2>1, SameStages DEF At
  <2>2. Leaves(6, 1)
    BY <2>1 DEF Leaves
  <2>3. QED BY <1>2, <2>2, MoveOut
<1>6. CASE Len(m) = 1
  <2>1. back' = back
    BY <1>2, <1>6
  <2>2. QED BY <1>5, <2>1, SameStages
<1>7. CASE Len(m) = 2
  <2>1. PICK a \in Answers : m = <<AddrFrame(a.req), BodyFrame(a)>>
    BY <1>1, <1>7 DEF TypeInv, MessageShape, Handed
  <2>2. AddrFrame(a.req) \in Frames /\ BodyFrame(a) \in Frames /\ r \in Requests
    BY <2>1 DEF AddrFrame, BodyFrame, Frames, Answers
  <2>3. /\ x \in Seq(Frames)
        /\ partial = <<>> => x = m
        /\ partial # <<>> => 1 \in DOMAIN partial /\ x[1] = partial[1]
    BY <2>1, <2>2, QueueTypes, ConcatPair
  <2>4. partial # <<>> => x[1].kind = "body"
    BY <2>3 DEF TypeInv, MessageShape
  <2> HIDE DEF x
  <2>5. /\ back \in Seq(Seq(Frames))
        /\ DOMAIN back = 1 .. Len(back) /\ Len(back) \in Nat /\ n \in Nat \ {0}
    BY QueueTypes, LenProperties
  <2>6. \A i \in DOMAIN back' :
          (i = n /\ back'[i] = x) \/ (i \in DOMAIN back /\ back'[i] = back[i])
    BY <1>2, <1>7, <2>3, <2>5, AppendElements
  <2>7. CASE partial # <<>>
    <3>1. \A q, i : OnBack(q, i)' => OnBack(q, i)
      BY <2>4, <2>6, <2>7 DEF OnBack
    <3>2. QED BY <1>5, <3>1
  <2>8. CASE partial = <<>>
    <3> HIDE DEF n, r
    <3>1. \A q, i : OnBack(q, i)' => OnBack(q, i) \/ (q = r /\ i = n)
      BY <2>3, <2>6, <2>8 DEF OnBack, r
    <3>2. ASSUME NEW q \in Requests, NEW s \in 1 .. 8, NEW i \in Nat \ {0}, At(q, s, i)'
          PROVE  \/ q = r /\ s = 7 /\ i = n
                 \/ IF s = 6 /\ q \in Requests THEN At(q, 6, i + 1) ELSE At(q, s, i)
      BY <1>2, <1>3, <3>1, <3>2, SameStages DEF At
    <3>3. Climbs(6, 7, n, Requests, r)
      BY <3>2 DEF Climbs
    <3>4. ASSUME NEW q \in Requests, NEW s \in 1 .. 8, NEW i \in Nat \ {0},
                 <<q, r>> \in Before, At(q, s, i)
          PROVE  s <= 6 \/ s > 7 \/ (s = 7 /\ i < n)
      <4>1. s = 7 => i \in DOMAIN back
        BY <3>4 DEF At, OnBack
      <4>2. QED BY <2>5, <4>1 DEF n
    <3>5. Unhindered(6, 7, n, r)
      BY <3>4 DEF Unhindered
    <3>6. QED BY <1>2, <1>4, <2>2, <2>5, <3>3, <3>5, QueueMovesUp
  <2>9. QED BY <2>7, <2>8
<1>8. QED BY <1>2, <1>6, <1>7

(* A crash leaves a suffix of the requests and a prefix of the replies.      *)
LEMMA DieOrder ==
  ASSUME ServiceInv, Die
  PROVE  Orderly'
<1> USE DEF ServiceInv
<1>1. /\ dqs' = [i \in Interfaces |-> <<>>] /\ message' = [w \in Workers |-> NoRequest]
      /\ msgList' = <<>> /\ spc' = "get" /\ inproc' = <<>>
      /\ UNCHANGED <<sent, mailbox>>
  BY DEF Die
<1>2. PICK k \in 0 .. Len(front) : front' = SubSeq(front, k + 1, Len(front))
  BY DEF Die
<1>3. PICK j \in 0 .. Len(back) : back' = SubSeq(back, 1, j)
  BY DEF Die
<1>4. /\ DOMAIN front' = 1 .. Len(front) - k
      /\ \A i \in 1 .. Len(front) - k : k + i \in DOMAIN front /\ front'[i] = front[k + i]
  BY <1>2, QueueTypes, SuffixElements
<1>5. \A i \in DOMAIN back' : i \in DOMAIN back /\ back'[i] = back[i]
  <2>1. back \in Seq(Seq(Frames))
    BY QueueTypes
  <2>2. \A i \in DOMAIN SubSeq(back, 1, j) : i \in DOMAIN back /\ SubSeq(back, 1, j)[i] = back[i]
    BY <2>1, PrefixElements
  <2>3. QED BY <1>3, <2>2, Zenon
<1>6. k \in Nat
  BY QueueTypes, LenProperties
<1>7. ASSUME NEW q \in Requests, NEW s \in 1 .. 8, NEW i \in Nat \ {0}, At(q, s, i)'
      PROVE  IF s = 1 THEN At(q, 1, i + k) ELSE At(q, s, i)
  <2>1. OnFront(q, i)' => OnFront(q, i + k)
    <3>1. i + k = k + i
      BY <1>6
    <3>2. QED BY <1>4, <3>1 DEF OnFront
  <2>2. OnBack(q, i)' => OnBack(q, i)
    BY <1>5 DEF OnBack
  <2>3. ~ InDq(q, i)' /\ ~ Held(q)' /\ ~ InList(q, i)' /\ ~ InHandOfSender(q)' /\ ~ OnInproc(q, i)'
    BY <1>1, ConstantsAssumption DEF InDq, Held, InList, InHandOfSender, OnInproc
  <2>4. QED BY <1>1, <1>7, <2>1, <2>2, <2>3, SameStages DEF At
<1>8. Leaves(1, k)
  BY <1>7 DEF Leaves
<1>9. QED BY <1>1, <1>6, <1>8, MoveOut

(* A new request is last of its lane, and at the end of the wire.            *)
LEMMA SendOrder ==
  ASSUME ServiceInv, NEW r \in Requests, Send(r)
  PROVE  Orderly'
<1> USE DEF ServiceInv
<1> DEFINE n == Len(front) + 1
           k == Len(sent) + 1
<1>1. /\ r \notin Range(sent) /\ sent' = Append(sent, r) /\ front' = Append(front, r)
      /\ UNCHANGED <<back, mailbox, inproc, dqs, message, msgList, msg, spc>>
  BY DEF Send, sender
<1>2. /\ sent \in Seq(Requests) /\ DOMAIN sent = 1 .. Len(sent) /\ Len(sent) \in Nat
      /\ front \in Seq(Requests) /\ DOMAIN front = 1 .. Len(front) /\ Len(front) \in Nat
      /\ n \in Nat \ {0}
  BY QueueTypes, LenProperties
<1>3. /\ DOMAIN sent' = DOMAIN sent \cup {k} /\ sent'[k] = r
      /\ \A i \in DOMAIN sent : sent'[i] = sent[i]
  BY <1>1, <1>2, AppendElements
<1>4. \A i \in DOMAIN front' :
        (i = n /\ front'[i] = r) \/ (i \in DOMAIN front /\ front'[i] = front[i])
  BY <1>1, <1>2, AppendElements
<1>5. NoRepeats(sent') /\ Range(sent') = Range(sent) \cup {r}
  BY <1>1, <1>2, AppendRange DEF Orderly
<1>6. \A x \in Line : x[1] # r
  BY <1>1 DEF Orderly
<1> HIDE DEF n
<1>7. ASSUME NEW x \in Line' PROVE x \in Line \/ x = <<r, 1, n>>
  <2>1. /\ x = <<x[1], x[2], x[3]>> /\ x[1] \in Requests /\ x[2] \in 1 .. 8 /\ x[3] \in Nat \ {0}
        /\ At(x[1], x[2], x[3])'
    BY LineAtNext
  <2>2. OnFront(x[1], x[3])' => OnFront(x[1], x[3]) \/ (x[1] = r /\ x[3] = n)
    BY <1>4 DEF OnFront
  <2>3. At(x[1], x[2], x[3]) \/ (x[1] = r /\ x[2] = 1 /\ x[3] = n)
    BY <1>1, <2>1, <2>2, SameStages DEF At
  <2>4. QED BY <2>1, <2>3, LineAt
<1>8. OneSpot(Line')
  BY <1>6, <1>7 DEF Orderly, OneSpot
<1>9. ASSUME NEW p \in Before' PROVE p[1] # r /\ (p[2] = r \/ p \in Before)
  <2>1. p \in Requests \X Requests /\ SameLane(p[1], p[2])
    BY DEF Before, SameLane, OneWorker
  <2>2. PICK i \in DOMAIN sent', j \in DOMAIN sent' : i < j /\ sent'[i] = p[1] /\ sent'[j] = p[2]
    BY DEF Before, Precedes
  <2>3. i \in DOMAIN sent
    BY <1>2, <1>3, <2>2
  <2>4. p[1] # r
    BY <1>1, <1>3, <2>2, <2>3 DEF Range
  <2>5. CASE j \in DOMAIN sent
    BY <1>3, <2>1, <2>2, <2>3, <2>4, <2>5 DEF Before, Precedes
  <2>6. CASE j = k
    BY <1>3, <2>2, <2>4, <2>6
  <2>7. QED BY <1>3, <2>2, <2>5, <2>6
<1>10. ASSUME NEW x \in Line', NEW y \in Line', <<x[1], y[1]>> \in Before' PROVE Ahead(x, y)
  <2>1. x[1] # r /\ x \in Line
    BY <1>7, <1>9, <1>10
  <2>2. CASE y[1] = r
    <3>1. y = <<r, 1, n>>
      BY <1>6, <1>7, <2>2
    <3>2. x[2] \in 1 .. 8 /\ x[3] \in Nat /\ At(x[1], x[2], x[3])
      BY <2>1, LineAt
    <3>3. x[2] = 1 => x[3] \in DOMAIN front
      BY <3>2 DEF At, OnFront
    <3>4. QED BY <1>2, <3>1, <3>2, <3>3 DEF Ahead, n
  <2>3. CASE y[1] # r
    <3>1. y \in Line /\ <<x[1], y[1]>> \in Before
      BY <1>7, <1>9, <1>10, <2>3
    <3>2. QED BY <2>1, <3>1 DEF Orderly, InOrder
  <2>4. QED BY <2>2, <2>3
<1>11. ASSUME NEW x \in Line' PROVE x[1] \in Range(sent') /\ (x[2] \in 2 .. 6 => Body[x[1]] \in Registered)
  BY <1>5, <1>7 DEF Orderly
<1>12. OneSpot(Line)' /\ InOrder(Line, Before)'
  BY <1>8, <1>10 DEF OneSpot, InOrder, Ahead
<1>13. QED BY <1>5, <1>11, <1>12 DEF Orderly, NoRepeats, Range

(* Every step keeps the line in order.                                       *)
LEMMA OrderStep == ServiceInv /\ [Next]_vars => Orderly'
<1> SUFFICES ASSUME ServiceInv, [Next]_vars PROVE Orderly'
  OBVIOUS
<1>1. TypeInv /\ Orderly
  BY DEF ServiceInv
<1>2. CASE Poll \/ PollError \/ Restart \/ UNCHANGED vars
  BY <1>1, <1>2, QuietOrder DEF Poll, PollError, Restart, vars, network, sender
<1>3. CASE SenderDestroy
  BY <1>1, <1>3, QuietOrder DEF SenderDestroy, network
<1>4. CASE RouterDeliver
  BY <1>4, DeliverOrder
<1>5. CASE ForwardResponse
  BY <1>5, ForwardOrder
<1>6. CASE ReceiveRequest
  BY <1>6, ReceiveOrder
<1>7. CASE SenderGet
  BY <1>7, SenderGetOrder
<1>8. CASE SenderSend
  BY <1>8, SenderSendOrder
<1>9. CASE Crash \/ MainShutdown
  BY <1>9, DieOrder DEF Crash, MainShutdown
<1>10. ASSUME NEW r \in Requests, Send(r) PROVE Orderly'
  BY <1>10, SendOrder
<1>11. ASSUME NEW w \in Workers, WorkerGet(w) PROVE Orderly'
  BY <1>11, WorkerGetOrder
<1>12. ASSUME NEW w \in Workers, WorkerCall(w) PROVE Orderly'
  BY <1>12, WorkerCallOrder
<1>13. QED
  BY <1>2, <1>3, <1>4, <1>5, <1>6, <1>7, <1>8, <1>9, <1>10, <1>11, <1>12 DEF Next

-----------------------------------------------------------------------------
(* The verdict of the three kinds of requests that get a reply.              *)
LEMMA VerdictOf ==
  ASSUME NEW r \in Requests
  PROVE  /\ Body[r] \in {"syntax", "range"} => Verdict[r] = "PARAMS_ERROR"
         /\ Body[r] \in Interfaces \ Registered => Verdict[r] = "FINDER_NO_SERVICE"
         /\ Body[r] \in Registered => Verdict[r] = Body[r]
  BY ConstantsAssumption DEF Verdict, Registered, Interfaces

(* What reaches a mailbox belongs to its owner.                              *)
LEMMA DeliverTruth ==
  ASSUME ServiceInv, RouterDeliver
  PROVE  Truthful'
<1> USE DEF ServiceInv
<1> DEFINE m == back[1]
           r == m[1].req
           a == [req |-> m[2].req, result |-> m[2].result]
           c == Owner[r]
<1>1. /\ back \in Seq(Seq(Frames)) /\ 1 \in DOMAIN back /\ Head(back) = m /\ m \in Seq(Frames)
      /\ \A i \in DOMAIN back' : i + 1 \in DOMAIN back /\ back'[i] = back[i + 1]
  BY QueueTypes, TailElements DEF RouterDeliver
<1>2. /\ UNCHANGED <<message, msgList, msg, spc, inproc>>
      /\ \/ m[1].kind = "addr" /\ mailbox' = [mailbox EXCEPT ![c] = Append(mailbox[c], a)]
         \/ mailbox' = mailbox
  BY <1>1 DEF RouterDeliver, sender
<1>3. \A i \in DOMAIN back' : back'[i][1].kind = "addr" => back'[i] = RightReply(back'[i][1].req)
  BY <1>1 DEF Truthful
<1>4. \A d \in Clients : \A i \in DOMAIN mailbox'[d] : Owner[mailbox'[d][i].req] = d
  <2>1. CASE m[1].kind = "addr" /\ mailbox' = [mailbox EXCEPT ![c] = Append(mailbox[c], a)]
    <3>1. Len(m) = 2 /\ m[2].kind = "body" /\ m = RightReply(r)
      BY <1>1, <2>1 DEF TypeInv, MessageShape, Routable, Truthful
    <3>2. m[1] \in Frames /\ m[2] \in Frames
      BY <1>1, <3>1, ElementOfSeq
    <3>3. a \in Answers /\ r \in Requests /\ c \in Clients
      BY <2>1, <3>1, <3>2, ConstantsAssumption DEF Frames, Answers
    <3>4. m[2].req = r
      BY <3>1 DEF RightReply, BodyFrame, RightAnswer
    <3> HIDE DEF a, c, m
    <3>5. mailbox \in [Clients -> Seq(Answers)] /\ mailbox[c] \in Seq(Answers)
      BY <3>3, QueueTypes
    <3>6. mailbox'[c] = Append(mailbox[c], a) /\ \A d \in Clients \ {c} : mailbox'[d] = mailbox[d]
      BY <2>1, <3>3, <3>5
    <3>7. \A i \in DOMAIN mailbox'[c] :
            mailbox'[c][i] = a \/ (i \in DOMAIN mailbox[c] /\ mailbox'[c][i] = mailbox[c][i])
      BY <3>3, <3>5, <3>6, AppendElements
    <3>8. Owner[a.req] = c
      BY <3>4 DEF a, c
    <3>9. QED BY <3>3, <3>6, <3>7, <3>8 DEF Truthful
  <2>2. QED BY <1>2, <2>1 DEF Truthful
<1>5. QED BY <1>2, <1>3, <1>4 DEF Truthful

(* A message completed by the ZmqWorker that starts with an address is right.*)
LEMMA ForwardTruth ==
  ASSUME ServiceInv, ForwardResponse
  PROVE  Truthful'
<1> USE DEF ServiceInv
<1> DEFINE m == Head(inproc)
           x == partial \o m
<1>1. /\ 1 \in DOMAIN inproc /\ m = inproc[1] /\ m \in Seq(Frames)
      /\ \A i \in DOMAIN Tail(inproc) : i + 1 \in DOMAIN inproc /\ Tail(inproc)[i] = inproc[i + 1]
  BY QueueTypes, TailElements DEF ForwardResponse, TypeInv, InHand, ReadsNeverBlock
<1>2. /\ inproc' = Tail(inproc)
      /\ UNCHANGED <<mailbox, message, msgList, msg, spc>>
      /\ \/ Len(m) = 2 /\ back' = Append(back, x)
         \/ Len(m) = 1 /\ back' = back
  BY DEF ForwardResponse, sender
<1> HIDE DEF m
<1>3. \A i \in DOMAIN inproc' : inproc'[i][1].kind = "addr" => inproc'[i] = RightReply(inproc'[i][1].req)
  BY <1>1, <1>2 DEF Truthful
<1>4. \A i \in DOMAIN back' : back'[i][1].kind = "addr" => back'[i] = RightReply(back'[i][1].req)
  <2>1. CASE Len(m) = 2 /\ back' = Append(back, x)
    <3>0. Handed(m) /\ Len(m) = 2
      BY <1>1, <2>1 DEF TypeInv, MessageShape
    <3>1. PICK a \in Answers : m = <<AddrFrame(a.req), BodyFrame(a)>>
      BY <3>0 DEF Handed
    <3>2. AddrFrame(a.req) \in Frames /\ BodyFrame(a) \in Frames
      BY DEF AddrFrame, BodyFrame, Frames, Answers
    <3>3. /\ x \in Seq(Frames)
          /\ partial = <<>> => x = m
          /\ partial # <<>> => 1 \in DOMAIN partial /\ x[1] = partial[1]
      BY <3>1, <3>2, QueueTypes, ConcatPair
    <3>4. partial # <<>> => x[1].kind = "body"
      BY <3>3 DEF TypeInv, MessageShape
    <3>5. x[1].kind = "addr" => x = RightReply(x[1].req)
      BY <1>1, <3>3, <3>4 DEF Truthful
    <3> HIDE DEF x
    <3>6. \A i \in DOMAIN back' : back'[i] = x \/ (i \in DOMAIN back /\ back'[i] = back[i])
      BY <2>1, <3>3, QueueTypes, AppendElements
    <3>7. QED BY <3>5, <3>6 DEF Truthful
  <2>2. CASE back' = back
    BY <2>2 DEF Truthful
  <2>3. QED BY <1>2, <2>1, <2>2
<1>5. QED BY <1>2, <1>3, <1>4 DEF Truthful

(* An error reply of the ZmqWorker carries the verdict.                      *)
LEMMA ReceiveTruth ==
  ASSUME ServiceInv, ReceiveRequest
  PROVE  Truthful'
<1> USE DEF ServiceInv
<1> DEFINE r == Head(front)
<1>1. r \in Requests /\ UNCHANGED <<mailbox, message, msgList, msg, spc, inproc>>
  BY QueueTypes, TailElements DEF ReceiveRequest, TypeInv, InHand, ReadsNeverBlock, sender
<1>2. back' = back \/ \E code \in Results : code = Verdict[r] /\ ReplyError(r, code)
  BY <1>1, VerdictOf DEF ReceiveRequest, DispatchDq, Results
<1> HIDE DEF r
<1>3. \A i \in DOMAIN back' : back'[i][1].kind = "addr" => back'[i] = RightReply(back'[i][1].req)
  <2>1. ASSUME ReplyError(r, Verdict[r]), Verdict[r] \in Results
        PROVE  \A i \in DOMAIN back' : back'[i][1].kind = "addr" => back'[i] = RightReply(back'[i][1].req)
    <3> DEFINE a == RightAnswer(r)
               m == partial \o <<AddrFrame(r), BodyFrame(a)>>
    <3>1. back' = Append(back, m)
      BY <2>1 DEF ReplyError, RightAnswer
    <3>2. AddrFrame(r) \in Frames /\ BodyFrame(a) \in Frames
      BY <1>1, <2>1 DEF AddrFrame, BodyFrame, Frames, RightAnswer
    <3>3. /\ m \in Seq(Frames)
          /\ partial = <<>> => m = RightReply(r) /\ m[1].req = r
          /\ partial # <<>> => 1 \in DOMAIN partial /\ m[1] = partial[1]
      <4>1. /\ m \in Seq(Frames)
            /\ partial = <<>> => m = RightReply(r)
            /\ partial # <<>> => 1 \in DOMAIN partial /\ m[1] = partial[1]
        BY <3>2, QueueTypes, ConcatPair DEF RightReply
      <4>2. RightReply(r)[1].req = r
        BY DEF RightReply, AddrFrame
      <4>3. QED BY <4>1, <4>2
    <3>4. partial # <<>> => m[1].kind = "body"
      BY <3>3 DEF TypeInv, MessageShape
    <3> HIDE DEF m
    <3>5. \A i \in DOMAIN back' : back'[i] = m \/ (i \in DOMAIN back /\ back'[i] = back[i])
      BY <3>1, <3>3, QueueTypes, AppendElements
    <3>6. QED BY <3>3, <3>4, <3>5 DEF Truthful
  <2>2. CASE back' = back
    BY <2>2 DEF Truthful
  <2>3. QED BY <1>2, <2>1, <2>2
<1>4. QED BY <1>1, <1>3 DEF Truthful

(* A worker only gets requests of its pool, and answers them rightly.        *)
LEMMA WorkerTruth ==
  ASSUME ServiceInv, NEW w \in Workers, WorkerGet(w) \/ WorkerCall(w)
  PROVE  Truthful'
<1> USE DEF ServiceInv
<1>0. message \in [Workers -> Requests \cup {NoRequest}] /\ msgList \in Seq(Answers)
  BY QueueTypes
<1>1. CASE WorkerGet(w)
  <2> DEFINE k == Serves[w]
  <2>1. /\ k \in Interfaces /\ dqs[k] \in Seq(Requests) /\ dqs[k] # <<>>
        /\ message' = [message EXCEPT ![w] = Head(dqs[k])]
        /\ UNCHANGED <<mailbox, msgList, msg, spc, inproc, back>>
    BY <1>1, ConstantsAssumption, QueueTypes DEF WorkerGet, network, sender
  <2>2. Body[Head(dqs[k])] = k
    BY <2>1, TailElements DEF Custody, OneSlot, Range
  <2>3. \A v \in Workers : message'[v] # NoRequest => Body[message'[v]] = Serves[v]
    BY <1>0, <2>1, <2>2 DEF Truthful
  <2>4. QED BY <2>1, <2>3 DEF Truthful
<1>2. CASE WorkerCall(w)
  <2> DEFINE r == message[w]
             a == [req |-> r, result |-> HandlerResult(w, r)]
  <2>1. /\ r \in Requests /\ r # NoRequest /\ a \in Answers /\ a.req = r
        /\ msgList' = Append(msgList, a) /\ message' = [message EXCEPT ![w] = NoRequest]
        /\ UNCHANGED <<mailbox, msg, spc, inproc, back>>
    BY <1>0, <1>2, ConstantsAssumption DEF WorkerCall, network, Answers, HandlerResult, Results
  <2>2. a = RightAnswer(r)
    <3>1. Body[r] = Serves[w]
      BY <2>1 DEF Truthful
    <3>2. Verdict[r] = Body[r]
      BY <2>1, <3>1, VerdictOf DEF Registered
    <3>3. QED BY <3>1, <3>2 DEF RightAnswer, HandlerResult
  <2> HIDE DEF a
  <2>3. \A i \in DOMAIN msgList' : msgList'[i] = a \/ (i \in DOMAIN msgList /\ msgList'[i] = msgList[i])
    BY <1>0, <2>1, AppendElements
  <2>4. \A i \in DOMAIN msgList' : msgList'[i] = RightAnswer(msgList'[i].req)
    BY <2>1, <2>2, <2>3 DEF Truthful
  <2>5. \A v \in Workers : message'[v] # NoRequest => Body[message'[v]] = Serves[v]
    BY <1>0, <2>1 DEF Truthful
  <2>6. QED BY <2>1, <2>4, <2>5 DEF Truthful
<1>3. QED BY <1>1, <1>2

(* The sender passes on what it got, with its address or without any.        *)
LEMMA SenderTruth ==
  ASSUME ServiceInv, SenderGet \/ SenderSend
  PROVE  Truthful'
<1> USE DEF ServiceInv
<1>1. CASE SenderGet
  <2>1. /\ msgList \in Seq(Answers) /\ msgList # <<>>
        /\ msgList' = Tail(msgList) /\ msg' = Head(msgList)
        /\ UNCHANGED <<mailbox, message, inproc, back>>
    BY <1>1, QueueTypes DEF SenderGet, network
  <2>2. /\ 1 \in DOMAIN msgList /\ msg' = msgList[1]
        /\ \A i \in DOMAIN msgList' : i + 1 \in DOMAIN msgList /\ msgList'[i] = msgList[i + 1]
    BY <2>1, TailElements
  <2>3. msg' = RightAnswer(msg'.req) /\ \A i \in DOMAIN msgList' : msgList'[i] = RightAnswer(msgList'[i].req)
    BY <2>2 DEF Truthful
  <2>4. QED BY <2>1, <2>3 DEF Truthful
<1>2. CASE SenderSend
  <2> DEFINE m == IF flags = 0 THEN <<AddrFrame(msg.req), BodyFrame(msg)>> ELSE <<BodyFrame(msg)>>
  <2>1. /\ inproc' = Append(inproc, m) /\ spc' = "destroy" /\ spc = "send"
        /\ UNCHANGED <<mailbox, message, msgList, msg, back>>
    BY <1>2 DEF SenderSend, network
  <2>2. msg \in Answers /\ msg = RightAnswer(msg.req)
    BY <2>1 DEF TypeInv, InHand, Truthful
  <2>3. m \in Seq(Frames) /\ (m[1].kind = "addr" => m = RightReply(m[1].req))
    <3>1. AddrFrame(msg.req) \in Frames /\ BodyFrame(msg) \in Frames
      BY <2>2 DEF AddrFrame, BodyFrame, Frames, Answers
    <3>2. CASE flags = 0
      BY <2>2, <3>1, <3>2 DEF RightReply, AddrFrame
    <3>3. CASE flags # 0
      BY <3>1, <3>3 DEF BodyFrame
    <3>4. QED BY <3>2, <3>3
  <2> HIDE DEF m
  <2>4. \A i \in DOMAIN inproc' : inproc'[i] = m \/ (i \in DOMAIN inproc /\ inproc'[i] = inproc[i])
    BY <2>1, <2>3, QueueTypes, AppendElements
  <2>5. \A i \in DOMAIN inproc' : inproc'[i][1].kind = "addr" => inproc'[i] = RightReply(inproc'[i][1].req)
    BY <2>3, <2>4 DEF Truthful
  <2>6. QED BY <2>1, <2>5 DEF Truthful
<1>3. QED BY <1>1, <1>2

(* After a crash there are only replies that were on the wire before.        *)
LEMMA DieTruth ==
  ASSUME ServiceInv, Die
  PROVE  Truthful'
<1> USE DEF ServiceInv
<1>1. /\ message' = [w \in Workers |-> NoRequest] /\ msgList' = <<>> /\ spc' = "get" /\ inproc' = <<>>
      /\ mailbox' = mailbox
  BY DEF Die
<1>2. PICK j \in 0 .. Len(back) : back' = SubSeq(back, 1, j)
  BY DEF Die
<1>3. \A i \in DOMAIN back' : i \in DOMAIN back /\ back'[i] = back[i]
  <2>1. back \in Seq(Seq(Frames))
    BY QueueTypes
  <2>2. \A i \in DOMAIN SubSeq(back, 1, j) : i \in DOMAIN back /\ SubSeq(back, 1, j)[i] = back[i]
    BY <2>1, PrefixElements
  <2>3. QED BY <1>2, <2>2, Zenon
<1>4. QED BY <1>1, <1>3 DEF Truthful

(* Every step keeps the answers right.                                       *)
LEMMA TruthStep == ServiceInv /\ [Next]_vars => Truthful'
<1> SUFFICES ASSUME ServiceInv, [Next]_vars PROVE Truthful'
  OBVIOUS
<1>0. Truthful
  BY DEF ServiceInv
<1>1. CASE Poll \/ PollError \/ Restart \/ SenderDestroy \/ UNCHANGED vars
  <2>1. UNCHANGED <<message, msgList, back, mailbox>> /\ (inproc' = inproc \/ inproc' = <<>>)
        /\ (spc' = "send" => spc = "send" /\ msg' = msg)
    BY <1>1 DEF Poll, PollError, Restart, SenderDestroy, vars, network, sender
  <2>2. QED BY <1>0, <2>1 DEF Truthful
<1>2. ASSUME NEW r \in Requests, Send(r) PROVE Truthful'
  BY <1>0, <1>2 DEF Send, sender, Truthful
<1>3. CASE RouterDeliver
  BY <1>3, DeliverTruth
<1>4. CASE ForwardResponse
  BY <1>4, ForwardTruth
<1>5. CASE ReceiveRequest
  BY <1>5, ReceiveTruth
<1>6. ASSUME NEW w \in Workers, WorkerGet(w) \/ WorkerCall(w) PROVE Truthful'
  BY <1>6, WorkerTruth
<1>7. CASE SenderGet \/ SenderSend
  BY <1>7, SenderTruth
<1>8. CASE Crash \/ MainShutdown
  BY <1>8, DieTruth DEF Crash, MainShutdown
<1>9. QED BY <1>1, <1>2, <1>3, <1>4, <1>5, <1>6, <1>7, <1>8 DEF Next

-----------------------------------------------------------------------------
(* The line stays in order and its answers right.                            *)
LEMMA ServiceInvariant == Spec => []ServiceInv
<1>1. Init => ServiceInv
  <2> SUFFICES ASSUME Init PROVE ServiceInv
    OBVIOUS
  <2>1. TypeInv /\ Custody
    BY TypeInvInit, CustodyInit
  <2>2. Line = {}
    BY ConstantsAssumption, LineAt
    DEF Init, At, OnFront, InDq, Held, InList, InHandOfSender, OnInproc, OnBack, InMailbox
  <2>3. Orderly
    BY <2>2 DEF Init, Orderly, NoRepeats, OneSpot, InOrder
  <2>4. Truthful
    BY DEF Init, Truthful
  <2>5. QED BY <2>1, <2>3, <2>4 DEF ServiceInv
<1>2. ServiceInv /\ [Next]_vars => ServiceInv'
  <2>1. ServiceInv /\ [Next]_vars => TypeInv' /\ Custody'
    BY TypeInvStep, CustodyStep DEF ServiceInv
  <2>2. QED BY <2>1, OrderStep, TruthStep DEF ServiceInv
<1>3. QED BY <1>1, <1>2, PTL DEF Spec

(* Seen from the clients, the router, the queues, the threads and the        *)
(* crashes of the verifier are RequestReply: whatever happens in between, a  *)
(* request is answered at most once, to its sender, with its own verdict.    *)
THEOREM ServiceImplementsRequestReply == Spec => ImplementsRequestReply
<1>1. Init => RR!Init
  BY DEF Init, RR!Init, Range
<1>2. ServiceInv /\ [Next]_vars => [RR!Next]_(RR!vars)
  <2> SUFFICES ASSUME ServiceInv, [Next]_vars PROVE [RR!Next]_(RR!vars)
    OBVIOUS
  <2> USE DEF ServiceInv
  <2>1. ASSUME NEW r \in Requests, Send(r) PROVE RR!Ask(r)
    <3>1. sent' = Append(sent, r) /\ r \notin Range(sent) /\ mailbox' = mailbox
      BY <2>1 DEF Send
    <3>2. Range(sent') = Range(sent) \cup {r}
      BY <3>1, QueueTypes, AppendRange DEF Orderly
    <3>3. QED BY <3>1, <3>2 DEF RR!Ask
  <2>2. CASE RouterDeliver
    <3> DEFINE m == back[1]
               r == m[1].req
               a == [req |-> m[2].req, result |-> m[2].result]
    <3>1. /\ back \in Seq(Seq(Frames)) /\ 1 \in DOMAIN back /\ Head(back) = m /\ m \in Seq(Frames)
          /\ sent' = sent
      BY <2>2, QueueTypes, TailElements DEF RouterDeliver
    <3>2. CASE m[1].kind = "addr"
      <4>1. Len(m) = 2 /\ m = RightReply(r)
        BY <3>1, <3>2 DEF TypeInv, MessageShape, Routable, Truthful
      <4>2. r \in Requests
        <5>1. m[1] \in Frames
          BY <3>1, <4>1, ElementOfSeq
        <5>2. QED BY <3>2, <5>1 DEF Frames
      <4>3. <<r, 7, 1>> \in Line
        <5>1. At(r, 7, 1)
          BY <3>1, <3>2 DEF At, OnBack
        <5>2. QED BY <4>2, <5>1, LineAt
      <4>4. a = [req |-> r, result |-> Verdict[r]]
        BY <4>1 DEF RightReply, BodyFrame, RightAnswer
      <4>5. mailbox' = [mailbox EXCEPT ![Owner[r]] = Append(mailbox[Owner[r]], a)]
        BY <2>2, <3>1, <3>2 DEF RouterDeliver
      <4> HIDE DEF a, r
      <4>6. ~ RR!Received(r)
        <5>1. ASSUME NEW c \in Clients, NEW i \in DOMAIN mailbox[c], mailbox[c][i].req = r PROVE FALSE
          <6>1. i \in Nat \ {0}
            BY QueueTypes, LenProperties
          <6>2. <<r, 8, i>> \in Line
            BY <4>2, <5>1, <6>1, LineAt DEF At, InMailbox
          <6>3. QED BY <4>3, <6>2 DEF Orderly, OneSpot
        <5>2. QED BY <5>1 DEF RR!Received
      <4>7. r \in Range(sent)
        BY <4>3 DEF Orderly
      <4>8. RR!Answer(r)
        BY <3>1, <4>4, <4>5, <4>6, <4>7 DEF RR!Answer
      <4>9. QED BY <4>2, <4>8 DEF RR!Next
    <3>3. CASE m[1].kind # "addr"
      <4>1. mailbox' = mailbox
        BY <2>2, <3>1, <3>3 DEF RouterDeliver
      <4>2. QED BY <3>1, <4>1 DEF RR!vars
    <3>4. QED BY <3>2, <3>3
  <2>3. CASE UNCHANGED <<sent, mailbox>>
    BY <2>3 DEF RR!vars
  <2>4. CASE Poll \/ PollError \/ ForwardResponse \/ ReceiveRequest \/ SenderGet \/ SenderSend
             \/ SenderDestroy \/ Crash \/ MainShutdown \/ Restart \/ UNCHANGED vars
    BY <2>3, <2>4 DEF Poll, PollError, ForwardResponse, ReceiveRequest, SenderGet, SenderSend,
                      SenderDestroy, Crash, MainShutdown, Die, Restart, vars, network
  <2>5. ASSUME NEW w \in Workers, WorkerGet(w) \/ WorkerCall(w) PROVE UNCHANGED <<sent, mailbox>>
    BY <2>5 DEF WorkerGet, WorkerCall, network
  <2>6. QED BY <2>1, <2>2, <2>3, <2>4, <2>5 DEF Next, RR!Next
<1>3. QED BY <1>1, <1>2, ServiceInvariant, PTL DEF Spec, ImplementsRequestReply, RR!Spec

(* With one worker behind an interface, two requests of a client for it are  *)
(* answered in the order they were sent: no queue, thread or socket on the   *)
(* way lets the second pass the first.                                       *)
THEOREM RepliesKeepOrder == Spec => []OneWorkerKeepsOrder
<1>1. ServiceInv => OneWorkerKeepsOrder
  <2> SUFFICES ASSUME ServiceInv, NEW q \in Requests, NEW r \in Requests,
                      Body[q] = Body[r], Owner[q] = Owner[r], OneWorker(r),
                      Precedes(RepliesOf(Owner[r]), q, r)
               PROVE  Precedes(sent, q, r)
    BY DEF OneWorkerKeepsOrder, OneWorker
  <2> USE DEF ServiceInv
  <2> DEFINE c == Owner[r]
  <2>1. c \in Clients /\ mailbox[c] \in Seq(Answers) /\ sent \in Seq(Requests)
    BY ConstantsAssumption, QueueTypes
  <2>2. PICK i \in DOMAIN mailbox[c], j \in DOMAIN mailbox[c] :
          i < j /\ mailbox[c][i].req = q /\ mailbox[c][j].req = r
    BY DEF Precedes, RepliesOf
  <2>3. i \in Nat \ {0} /\ j \in Nat \ {0}
    BY <2>1, <2>2, LenProperties
  <2>4. <<q, 8, i>> \in Line /\ <<r, 8, j>> \in Line
    BY <2>1, <2>2, <2>3, LineAt DEF At, InMailbox
  <2>5. q # r
    BY <2>2, <2>3, <2>4 DEF Orderly, OneSpot
  <2>6. PICK x \in DOMAIN sent, y \in DOMAIN sent : sent[x] = q /\ sent[y] = r
    BY <2>4 DEF Orderly, Range
  <2>7. x \in Nat /\ y \in Nat /\ x # y
    BY <2>1, <2>5, <2>6, LenProperties
  <2>8. ~ (y < x)
    <3>1. SUFFICES ASSUME y < x PROVE FALSE
      OBVIOUS
    <3>2. OneWorker(q)
      BY DEF OneWorker
    <3>3. <<r, q>> \in Before
      BY <2>6, <3>1, <3>2 DEF Before, SameLane, Precedes
    <3>4. Ahead(<<r, 8, j>>, <<q, 8, i>>)
      BY <2>4, <3>3 DEF Orderly, InOrder
    <3>5. QED BY <2>2, <2>3, <3>4 DEF Ahead
  <2>9. QED BY <2>6, <2>7, <2>8 DEF Precedes
<1>2. QED BY <1>1, ServiceInvariant, PTL

(* No step of the process loses an address while flags is 0.               *)
LEMMA RouterModeStep ==
  ASSUME ServiceInv, RouterMode, flags = 0, [Next]_vars
  PROVE  RouterMode'
<1> USE DEF ServiceInv
<1>1. CASE UNCHANGED <<partial, inproc, back>>
  BY <1>1 DEF RouterMode
<1>2. CASE RouterDeliver
  BY <1>2, QueueTypes, TailElements DEF RouterDeliver, loop, RouterMode
<1>3. CASE PollError
  BY <1>3 DEF PollError, network, RouterMode
<1>4. CASE ForwardResponse
  <2> DEFINE m == Head(inproc)
  <2>1. /\ 1 \in DOMAIN inproc /\ m = inproc[1]
        /\ \A i \in DOMAIN Tail(inproc) : i + 1 \in DOMAIN inproc /\ Tail(inproc)[i] = inproc[i + 1]
    BY <1>4, QueueTypes, TailElements DEF ForwardResponse, TypeInv, InHand, ReadsNeverBlock
  <2>2. /\ inproc' = Tail(inproc)
        /\ \/ Len(m) = 2 /\ back' = Append(back, partial \o m) /\ partial' = <<>>
           \/ Len(m) = 1 /\ back' = back /\ partial' = partial \o m
    BY <1>4 DEF ForwardResponse
  <2> HIDE DEF m
  <2>3. Handed(m) /\ m[1].kind = "addr"
    BY <2>1 DEF TypeInv, MessageShape, RouterMode
  <2>4. PICK a \in Answers : m = <<AddrFrame(a.req), BodyFrame(a)>>
    BY <2>3 DEF Handed, BodyFrame
  <2>5. /\ m \in Seq(Frames) /\ Len(m) = 2
        /\ partial \o m = m
    <3>1. AddrFrame(a.req) \in Frames /\ BodyFrame(a) \in Frames
      BY DEF AddrFrame, BodyFrame, Frames, Answers
    <3>2. QED BY <2>4, <3>1, QueueTypes, ConcatPair DEF RouterMode
  <2>6. back' = Append(back, m) /\ partial' = <<>>
    BY <2>2, <2>5
  <2>7. \A i \in DOMAIN back' : back'[i] = m \/ (i \in DOMAIN back /\ back'[i] = back[i])
    BY <2>5, <2>6, QueueTypes, AppendElements
  <2>8. QED BY <2>1, <2>2, <2>3, <2>6, <2>7 DEF RouterMode
<1>5. CASE ReceiveRequest
  <2>1. PICK r \in Requests : r = Head(front)
    BY <1>5, QueueTypes, TailElements DEF ReceiveRequest, TypeInv, InHand, ReadsNeverBlock
  <2>2. ASSUME NEW code \in Results, ReplyError(r, code), inproc' = inproc PROVE RouterMode'
    <3> DEFINE a == [req |-> r, result |-> code]
               m == <<AddrFrame(r), BodyFrame(a)>>
    <3>1. AddrFrame(r) \in Frames /\ BodyFrame(a) \in Frames
      BY DEF AddrFrame, BodyFrame, Frames
    <3>2. /\ m \in Seq(Frames) /\ partial \o m = m
      BY <3>1, QueueTypes, ConcatPair DEF RouterMode
    <3>3. m[1].kind = "addr"
      BY DEF AddrFrame
    <3>4. back' = Append(back, partial \o m) /\ partial' = <<>>
      BY <2>2 DEF ReplyError
    <3> HIDE DEF m
    <3>5. \A i \in DOMAIN back' : back'[i] = m \/ (i \in DOMAIN back /\ back'[i] = back[i])
      BY <3>2, <3>4, QueueTypes, AppendElements
    <3>6. QED BY <2>2, <3>3, <3>4, <3>5 DEF RouterMode
  <2>3. inproc' = inproc
    BY <1>5 DEF ReceiveRequest
  <2>4. \/ UNCHANGED <<back, partial>>
        \/ \E code \in Results : ReplyError(r, code)
    BY <1>5, <2>1 DEF ReceiveRequest, DispatchDq, Results
  <2>5. QED BY <1>1, <2>2, <2>3, <2>4
<1>6. CASE SenderSend
  <2> DEFINE m == <<AddrFrame(msg.req), BodyFrame(msg)>>
  <2>1. msg \in Answers
    BY <1>6 DEF SenderSend, TypeInv, InHand
  <2>2. inproc' = Append(inproc, m) /\ UNCHANGED <<partial, back>>
    BY <1>6, <2>1 DEF SenderSend, loop, network
  <2>3. m \in Seq(Frames) /\ m[1].kind = "addr"
    <3>1. AddrFrame(msg.req) \in Frames /\ BodyFrame(msg) \in Frames
      BY <2>1 DEF AddrFrame, BodyFrame, Frames, Answers
    <3>2. QED BY <3>1 DEF AddrFrame
  <2> HIDE DEF m
  <2>4. \A i \in DOMAIN inproc' : inproc'[i] = m \/ (i \in DOMAIN inproc /\ inproc'[i] = inproc[i])
    BY <2>2, <2>3, QueueTypes, AppendElements
  <2>5. QED BY <2>2, <2>3, <2>4 DEF RouterMode
<1>7. ASSUME Die PROVE RouterMode'
  <2>1. partial' = <<>> /\ inproc' = <<>>
    BY <1>7 DEF Die
  <2>2. PICK j \in 0 .. Len(back) : back' = SubSeq(back, 1, j)
    BY <1>7 DEF Die
  <2>3. back \in Seq(Seq(Frames))
    BY QueueTypes
  <2>4. \A i \in DOMAIN SubSeq(back, 1, j) : i \in DOMAIN back /\ SubSeq(back, 1, j)[i] = back[i]
    BY <2>3, PrefixElements
  <2>5. \A i \in DOMAIN back' : i \in DOMAIN back /\ back'[i] = back[i]
    BY <2>2, <2>4, Zenon
  <2>6. QED BY <2>1, <2>5 DEF RouterMode
<1>8. CASE Crash \/ MainShutdown
  BY <1>7, <1>8 DEF Crash, MainShutdown
<1>9. CASE Poll \/ SenderGet \/ SenderDestroy \/ Restart \/ UNCHANGED vars
  BY <1>1, <1>9 DEF Poll, SenderGet, SenderDestroy, Restart, vars, network, loop
<1>10. ASSUME NEW r \in Requests, Send(r) PROVE RouterMode'
  BY <1>1, <1>10 DEF Send, loop
<1>11. ASSUME NEW w \in Workers, WorkerGet(w) \/ WorkerCall(w) PROVE RouterMode'
  BY <1>1, <1>11 DEF WorkerGet, WorkerCall, network, loop
<1>12. QED
  BY <1>2, <1>3, <1>4, <1>5, <1>6, <1>8, <1>9, <1>10, <1>11 DEF Next

(* When ZmqMessage::flags always is 0, every message the ZmqWorker sends to  *)
(* the router is an address and the body that answers that request.          *)
THEOREM RouterModePairs ==
  ASSUME FlagValues = {0}
  PROVE  Spec => []RepliesPaired
<1>1. Init => RouterMode
  BY DEF Init, RouterMode
<1>2. ServiceInv /\ RouterMode /\ [Next]_vars => RouterMode'
  BY RouterModeStep DEF ServiceInv, TypeInv, TypeOK
<1>3. ServiceInv /\ RouterMode => RepliesPaired
  <2> SUFFICES ASSUME ServiceInv, RouterMode, NEW i \in DOMAIN back
               PROVE  /\ Len(back[i]) = 2
                      /\ back[i][1].kind = "addr" /\ back[i][2].kind = "body"
                      /\ back[i][1].req = back[i][2].req
    BY DEF RepliesPaired, RouterMode
  <2>1. back[i] = RightReply(back[i][1].req) /\ Routable(back[i]) /\ back[i][1].kind = "addr"
    BY DEF RouterMode, ServiceInv, Truthful, TypeInv, MessageShape
  <2>2. QED BY <2>1 DEF Routable, RightReply, BodyFrame, RightAnswer
<1>4. QED BY <1>1, <1>2, <1>3, ServiceInvariant, PTL DEF Spec

-----------------------------------------------------------------------------
(***************************************************************************)
(* Nothing is forgotten.  RestingMeansAnswered is the end of the story; the *)
(* invariant behind it follows a request through it: without faults and    *)
(* with flags 0 every request with a body that was ever sent is in one of  *)
(* the eight places of the line, from the wire to its client's mailbox.    *)
(***************************************************************************)

OnTheWire(r) == \E i \in DOMAIN front : OnFront(r, i)
Outbound(r) == \E i \in DOMAIN inproc : OnInproc(r, i)
Returning(r) == \E i \in DOMAIN back : OnBack(r, i)
OnItsWay(r) == \/ OnTheWire(r) \/ Queued(r) \/ Held(r) \/ Listed(r) \/ InHandOfSender(r)
               \/ Outbound(r) \/ Returning(r) \/ Answered(r)

Undisturbed == flags = 0 /\ faults = 0

Conserved ==
  /\ faults = 0 => up /\ wpc # "closed"
  /\ Undisturbed =>
       RouterMode /\ \A r \in Range(sent) : Body[r] = "empty" \/ OnItsWay(r)

(* push_back keeps what a queue holds and adds the new element ...           *)
LEMMA AppendKeeps ==
  ASSUME NEW S, NEW s \in Seq(S), NEW e \in S, NEW t, t = Append(s, e)
  PROVE  /\ \A i \in DOMAIN s : i \in DOMAIN t /\ t[i] = s[i]
         /\ \E i \in DOMAIN t : t[i] = e
<1> DEFINE n == Len(s) + 1
<1>1. /\ DOMAIN t = DOMAIN s \cup {n} /\ t[n] = e
      /\ \A i \in DOMAIN s : t[i] = s[i]
  BY AppendElements
<1> HIDE DEF n
<1>2. QED BY <1>1

(* ... and pop_front loses none but the first.                               *)
LEMMA TailKeeps ==
  ASSUME NEW S, NEW s \in Seq(S), s # <<>>
  PROVE  \A i \in DOMAIN s : s[i] = Head(s) \/ \E j \in DOMAIN Tail(s) : Tail(s)[j] = s[i]
<1> DEFINE t == Tail(s)
<1>1. Head(s) = s[1] /\ t \in Seq(S)
  BY TailElements
<1>2. /\ Len(t) = Len(s) - 1 /\ DOMAIN s = 1 .. Len(s) /\ Len(s) \in Nat
      /\ \A i \in 1 .. Len(t) : t[i] = s[i + 1]
  BY HeadTailProperties, LenProperties
<1>3. DOMAIN t = 1 .. Len(t)
  BY <1>1, LenProperties
<1> HIDE DEF t
<1>4. \A i \in DOMAIN s : i # 1 => i - 1 \in DOMAIN t /\ t[i - 1] = s[i]
  BY <1>2, <1>3
<1>5. QED BY <1>1, <1>4 DEF t

(* A request leaves the router's queue into its client's mailbox.            *)
LEMMA DeliverKeeps ==
  ASSUME ServiceInv, RouterDeliver, NEW q \in Requests, OnItsWay(q)
  PROVE  OnItsWay(q)'
<1> USE DEF ServiceInv
<1> DEFINE m == Head(back)
           r == m[1].req
           a == [req |-> m[2].req, result |-> m[2].result]
           c == Owner[r]
<1>1. /\ back \in Seq(Seq(Frames)) /\ back # <<>> /\ 1 \in DOMAIN back /\ m = back[1]
      /\ m \in Seq(Frames) /\ back' = Tail(back)
      /\ \A i \in DOMAIN back : back[i] = m \/ \E j \in DOMAIN back' : back'[j] = back[i]
  BY QueueTypes, TailElements, TailKeeps DEF RouterDeliver
<1>2. /\ UNCHANGED <<front, dqs, message, msgList, msg, spc, inproc>>
      /\ IF m[1].kind = "addr" THEN mailbox' = [mailbox EXCEPT ![c] = Append(mailbox[c], a)]
                               ELSE mailbox' = mailbox
  BY DEF RouterDeliver, sender
<1> HIDE DEF m
<1>3. ASSUME m[1].kind = "addr"
      PROVE  /\ c \in Clients /\ a \in Answers /\ a.req = r
             /\ mailbox \in [Clients -> Seq(Answers)] /\ mailbox[c] \in Seq(Answers)
  <2>1. Len(m) = 2 /\ m[2].kind = "body" /\ m = RightReply(r)
    BY <1>1, <1>3 DEF TypeInv, MessageShape, Routable, Truthful
  <2>2. m[1] \in Frames /\ m[2] \in Frames
    BY <1>1, <2>1, ElementOfSeq
  <2>3. a \in Answers /\ r \in Requests /\ c \in Clients
    BY <1>3, <2>1, <2>2, ConstantsAssumption DEF Frames, Answers
  <2>4. m[2].req = r
    BY <2>1 DEF RightReply, BodyFrame, RightAnswer
  <2>5. QED BY <2>3, <2>4, QueueTypes
<1> HIDE DEF a
<1>4. Answered(q) => Answered(q)'
  <2>1. ASSUME m[1].kind = "addr", NEW d \in Clients, NEW i \in DOMAIN mailbox[d]
        PROVE  i \in DOMAIN mailbox'[d] /\ mailbox'[d][i] = mailbox[d][i]
    <3>1. mailbox'[d] = IF d = c THEN Append(mailbox[c], a) ELSE mailbox[d]
      BY <1>2, <1>3, <2>1
    <3>2. QED BY <1>3, <2>1, <3>1, AppendKeeps
  <2>2. QED BY <1>2, <2>1 DEF Answered, RR!Received
<1>5. Returning(q) => Returning(q)' \/ Answered(q)'
  <2>1. ASSUME m[1].kind = "addr", r = q PROVE Answered(q)'
    <3>1. mailbox'[c] = Append(mailbox[c], a)
      BY <1>2, <1>3, <2>1
    <3>2. \E i \in DOMAIN mailbox'[c] : mailbox'[c][i] = a
      BY <1>3, <2>1, <3>1, AppendKeeps
    <3>3. QED BY <1>3, <2>1, <3>2 DEF Answered, RR!Received
  <2>2. QED BY <1>1, <2>1 DEF Returning, OnBack
<1>6. QED BY <1>2, <1>4, <1>5
  DEF OnItsWay, OnTheWire, OnFront, Queued, Held, Listed, InHandOfSender, Outbound, OnInproc

(* A response leaves the inproc socket for the router, with its address.     *)
LEMMA ForwardKeeps ==
  ASSUME ServiceInv, RouterMode, ForwardResponse, NEW q \in Requests, OnItsWay(q)
  PROVE  OnItsWay(q)'
<1> USE DEF ServiceInv
<1> DEFINE m == Head(inproc)
<1>1. /\ inproc \in Seq(Seq(Frames)) /\ inproc # <<>> /\ 1 \in DOMAIN inproc /\ m = inproc[1]
      /\ \A i \in DOMAIN inproc :
           inproc[i] = m \/ \E j \in DOMAIN Tail(inproc) : Tail(inproc)[j] = inproc[i]
  BY QueueTypes, TailElements, TailKeeps DEF ForwardResponse, TypeInv, InHand, ReadsNeverBlock
<1>2. /\ inproc' = Tail(inproc)
      /\ UNCHANGED <<front, mailbox, dqs, message, msgList, msg, spc>>
      /\ \/ Len(m) = 2 /\ back' = Append(back, partial \o m)
         \/ Len(m) = 1 /\ back' = back
  BY DEF ForwardResponse, sender
<1> HIDE DEF m
<1>3. Handed(m) /\ m[1].kind = "addr"
  BY <1>1 DEF TypeInv, MessageShape, RouterMode
<1>4. PICK a \in Answers : m = <<AddrFrame(a.req), BodyFrame(a)>>
  BY <1>3 DEF Handed, BodyFrame
<1>5. m \in Seq(Frames) /\ Len(m) = 2 /\ partial \o m = m
  <2>1. AddrFrame(a.req) \in Frames /\ BodyFrame(a) \in Frames
    BY DEF AddrFrame, BodyFrame, Frames, Answers
  <2>2. QED BY <1>4, <2>1, QueueTypes, ConcatPair DEF RouterMode
<1>6. /\ \A i \in DOMAIN back : i \in DOMAIN back' /\ back'[i] = back[i]
      /\ \E i \in DOMAIN back' : back'[i] = m
  <2>1. back' = Append(back, m) /\ back \in Seq(Seq(Frames))
    BY <1>2, <1>5, QueueTypes
  <2>2. QED BY <1>5, <2>1, AppendKeeps
<1>7. Returning(q) => Returning(q)'
  BY <1>6 DEF Returning, OnBack
<1>8. Outbound(q) => Outbound(q)' \/ Returning(q)'
  <2>1. m[1].req = q => Returning(q)'
    BY <1>3, <1>6 DEF Returning, OnBack
  <2>2. QED BY <1>1, <1>2, <2>1 DEF Outbound, OnInproc
<1>9. QED BY <1>2, <1>7, <1>8
  DEF OnItsWay, OnTheWire, OnFront, Queued, Held, Listed, InHandOfSender, Answered, RR!Received

(* A request with a body leaves the wire into a queue, or is answered.       *)
LEMMA ReceiveKeeps ==
  ASSUME ServiceInv, RouterMode, ReceiveRequest,
         NEW q \in Requests, Body[q] # "empty", OnItsWay(q)
  PROVE  OnItsWay(q)'
<1> USE DEF ServiceInv
<1> DEFINE r == Head(front)
<1>1. /\ r \in Requests /\ UNCHANGED <<mailbox, message, msgList, msg, spc, inproc>>
      /\ front' = Tail(front)
      /\ \A i \in DOMAIN front : front[i] = r \/ \E j \in DOMAIN front' : front'[j] = front[i]
  BY QueueTypes, TailElements, TailKeeps
  DEF ReceiveRequest, TypeInv, InHand, ReadsNeverBlock, sender
<1>2. /\ r = q => (Body[r] \in Registered /\ DispatchDq(r)) \/ \E code \in Results : ReplyError(r, code)
      /\ \/ UNCHANGED <<back, dqs>>
         \/ Body[r] \in Registered /\ DispatchDq(r)
         \/ \E code \in Results : ReplyError(r, code)
  BY DEF ReceiveRequest, Results
<1> HIDE DEF r
<1>3. ASSUME Body[r] \in Registered, DispatchDq(r)
      PROVE  /\ UNCHANGED back
             /\ \A k \in Interfaces : \A i \in DOMAIN dqs[k] : i \in DOMAIN dqs'[k] /\ dqs'[k][i] = dqs[k][i]
             /\ r = q => Queued(q)'
  <2> DEFINE k == Body[r]
  <2>1. k \in Interfaces /\ dqs \in [Interfaces -> Seq(Requests)] /\ dqs[k] \in Seq(Requests)
    BY <1>3, QueueTypes, ConstantsAssumption DEF Registered
  <2>2. /\ dqs'[k] = Append(dqs[k], r) /\ \A j \in Interfaces \ {k} : dqs'[j] = dqs[j]
        /\ back' = back
    BY <1>3, <2>1 DEF DispatchDq
  <2> HIDE DEF k
  <2>3. /\ \A i \in DOMAIN dqs[k] : i \in DOMAIN dqs'[k] /\ dqs'[k][i] = dqs[k][i]
        /\ \E i \in DOMAIN dqs'[k] : dqs'[k][i] = r
    <3>1. r \in Requests /\ dqs[k] \in Seq(Requests) /\ dqs'[k] = Append(dqs[k], r)
      BY <1>1, <2>1, <2>2
    <3>2. QED BY <3>1, AppendKeeps
  <2>4. r = q => Queued(q)'
    BY <2>1, <2>3 DEF Queued, Range
  <2>5. QED BY <2>2, <2>3, <2>4
<1>4. ASSUME NEW code \in Results, ReplyError(r, code)
      PROVE  /\ UNCHANGED dqs
             /\ \A i \in DOMAIN back : i \in DOMAIN back' /\ back'[i] = back[i]
             /\ r = q => Returning(q)'
  <2> DEFINE a == [req |-> r, result |-> code]
             m == <<AddrFrame(r), BodyFrame(a)>>
  <2>1. AddrFrame(r) \in Frames /\ BodyFrame(a) \in Frames
    BY <1>1 DEF AddrFrame, BodyFrame, Frames
  <2>2. m \in Seq(Frames) /\ partial \o m = m
    BY <2>1, QueueTypes, ConcatPair DEF RouterMode
  <2>3. m[1].kind = "addr" /\ m[1].req = r
    BY DEF AddrFrame
  <2>4. back' = Append(back, partial \o m) /\ dqs' = dqs
    BY <1>4 DEF ReplyError
  <2> HIDE DEF m
  <2>5. /\ \A i \in DOMAIN back : i \in DOMAIN back' /\ back'[i] = back[i]
        /\ \E i \in DOMAIN back' : back'[i] = m
    <3>1. m \in Seq(Frames) /\ back' = Append(back, m) /\ back \in Seq(Seq(Frames))
      BY <2>2, <2>4, QueueTypes
    <3>2. QED BY <3>1, AppendKeeps, SMTT(60)
  <2>6. QED BY <2>3, <2>4, <2>5 DEF Returning, OnBack
<1>5. Queued(q) => Queued(q)'
  BY <1>2, <1>3, <1>4 DEF Queued, Range
<1>6. Returning(q) => Returning(q)'
  BY <1>2, <1>3, <1>4 DEF Returning, OnBack
<1>7. OnTheWire(q) => OnTheWire(q)' \/ Queued(q)' \/ Returning(q)'
  BY <1>1, <1>2, <1>3, <1>4 DEF OnTheWire, OnFront
<1>8. QED BY <1>1, <1>5, <1>6, <1>7
  DEF OnItsWay, Held, Listed, InHandOfSender, Outbound, OnInproc, Answered, RR!Received

(* A worker takes a request out of its queue into its hand, which is empty.  *)
LEMMA WorkerTakes ==
  ASSUME ServiceInv, NEW w \in Workers, WorkerGet(w), NEW q \in Requests, OnItsWay(q)
  PROVE  OnItsWay(q)'
<1> USE DEF ServiceInv
<1> DEFINE k == Serves[w]
           r == Head(dqs[k])
<1>1. k \in Interfaces /\ dqs \in [Interfaces -> Seq(Requests)] /\ dqs[k] \in Seq(Requests)
      /\ message \in [Workers -> Requests \cup {NoRequest}]
  BY QueueTypes, ConstantsAssumption
<1>2. /\ message[w] = NoRequest /\ dqs[k] # <<>>
      /\ message'[w] = r /\ \A v \in Workers \ {w} : message'[v] = message[v]
      /\ dqs'[k] = Tail(dqs[k]) /\ \A j \in Interfaces \ {k} : dqs'[j] = dqs[j]
      /\ UNCHANGED <<front, back, mailbox, inproc, msgList, msg, spc>>
  BY <1>1 DEF WorkerGet, network, sender
<1>3. \A i \in DOMAIN dqs[k] : dqs[k][i] = r \/ \E j \in DOMAIN dqs'[k] : dqs'[k][j] = dqs[k][i]
  BY <1>1, <1>2, TailKeeps
<1> HIDE DEF k, r
<1>4. Held(q) => Held(q)'
  BY <1>2, ConstantsAssumption DEF Held
<1>5. Queued(q) => Queued(q)' \/ Held(q)'
  <2>1. ASSUME NEW j \in Interfaces, NEW i \in DOMAIN dqs[j], dqs[j][i] = q
        PROVE  Held(q)' \/ \E n \in DOMAIN dqs'[j] : dqs'[j][n] = q
    <3>1. CASE j = k
      BY <1>2, <1>3, <2>1, <3>1 DEF Held
    <3>2. CASE j # k
      BY <1>2, <2>1, <3>2
    <3>3. QED BY <3>1, <3>2
  <2>2. QED BY <2>1 DEF Queued, Range
<1>6. QED BY <1>2, <1>4, <1>5
  DEF OnItsWay, OnTheWire, OnFront, Listed, InHandOfSender, Outbound, OnInproc,
      Returning, OnBack, Answered, RR!Received

(* ... and from its hand the answer goes to the sender's list.               *)
LEMMA WorkerCallKeeps ==
  ASSUME ServiceInv, NEW w \in Workers, WorkerCall(w), NEW q \in Requests, OnItsWay(q)
  PROVE  OnItsWay(q)'
<1> USE DEF ServiceInv
<1> DEFINE a == [req |-> message[w], result |-> HandlerResult(w, message[w])]
<1>1. message \in [Workers -> Requests \cup {NoRequest}] /\ msgList \in Seq(Answers)
  BY QueueTypes
<1>2. /\ message[w] # NoRequest /\ \A v \in Workers \ {w} : message'[v] = message[v]
      /\ msgList' = Append(msgList, a)
      /\ UNCHANGED <<front, back, mailbox, inproc, dqs, msg, spc>>
  BY <1>1 DEF WorkerCall, network
<1>3. a \in Answers /\ a.req = message[w]
  <2>1. message[w] \in Requests /\ HandlerResult(w, message[w]) \in Results
    BY <1>1, <1>2, ConstantsAssumption DEF HandlerResult, Results, Interfaces
  <2>2. QED BY <2>1 DEF Answers
<1> HIDE DEF a
<1>4. /\ \A i \in DOMAIN msgList : i \in DOMAIN msgList' /\ msgList'[i] = msgList[i]
      /\ \E i \in DOMAIN msgList' : msgList'[i] = a
  BY <1>1, <1>2, <1>3, AppendKeeps
<1>5. Listed(q) => Listed(q)'
  BY <1>4 DEF Listed
<1>6. Held(q) => Held(q)' \/ Listed(q)'
  BY <1>2, <1>3, <1>4 DEF Held, Listed
<1>7. QED BY <1>2, <1>5, <1>6
  DEF OnItsWay, OnTheWire, OnFront, Queued, InHandOfSender, Outbound, OnInproc,
      Returning, OnBack, Answered, RR!Received

(* The sender takes an answer off its list and hands it on, one at a time.   *)
LEMMA SenderKeeps ==
  ASSUME ServiceInv, flags = 0, SenderGet \/ SenderSend \/ SenderDestroy,
         NEW q \in Requests, OnItsWay(q)
  PROVE  OnItsWay(q)'
<1> USE DEF ServiceInv
<1>1. CASE SenderGet
  <2>1. /\ msgList \in Seq(Answers) /\ msgList # <<>>
        /\ msg' = Head(msgList) /\ msgList' = Tail(msgList) /\ spc = "get" /\ spc' = "send"
        /\ UNCHANGED <<front, back, mailbox, inproc, dqs, message>>
    BY <1>1, QueueTypes DEF SenderGet, network
  <2>2. \A i \in DOMAIN msgList : msgList[i] = msg' \/ \E j \in DOMAIN msgList' : msgList'[j] = msgList[i]
    BY <2>1, TailKeeps
  <2>3. Listed(q) => Listed(q)' \/ InHandOfSender(q)'
    BY <2>1, <2>2 DEF Listed, InHandOfSender
  <2>4. QED BY <2>1, <2>3
    DEF OnItsWay, OnTheWire, OnFront, Queued, Held, InHandOfSender, Outbound, OnInproc,
        Returning, OnBack, Answered, RR!Received
<1>2. CASE SenderSend
  <2> DEFINE m == <<AddrFrame(msg.req), BodyFrame(msg)>>
  <2>1. /\ msg \in Answers /\ inproc' = Append(inproc, m)
        /\ UNCHANGED <<front, back, mailbox, dqs, message, msgList>>
    BY <1>2 DEF SenderSend, network, TypeInv, InHand
  <2>2. m \in Seq(Frames) /\ m[1].req = msg.req
    <3>1. AddrFrame(msg.req) \in Frames /\ BodyFrame(msg) \in Frames
      BY <2>1 DEF AddrFrame, BodyFrame, Frames, Answers
    <3>2. QED BY <3>1 DEF AddrFrame
  <2> HIDE DEF m
  <2>3. /\ \A i \in DOMAIN inproc : i \in DOMAIN inproc' /\ inproc'[i] = inproc[i]
        /\ \E i \in DOMAIN inproc' : inproc'[i] = m
    <3>1. inproc \in Seq(Seq(Frames))
      BY QueueTypes
    <3>2. QED BY <2>1, <2>2, <3>1, AppendKeeps
  <2>4. Outbound(q) \/ InHandOfSender(q) => Outbound(q)'
    BY <2>2, <2>3 DEF Outbound, OnInproc, InHandOfSender
  <2>5. QED BY <2>1, <2>4
    DEF OnItsWay, OnTheWire, OnFront, Queued, Held, Listed, Returning, OnBack, Answered, RR!Received
<1>3. CASE SenderDestroy
  BY <1>3 DEF SenderDestroy, network,
     OnItsWay, OnTheWire, OnFront, Queued, Held, Listed, InHandOfSender, Outbound, OnInproc,
     Returning, OnBack, Answered, RR!Received
<1>4. QED BY <1>1, <1>2, <1>3

(* A request that is sent is on the wire, the others stay where they are.    *)
LEMMA SendKeeps ==
  ASSUME ServiceInv, NEW r \in Requests, Send(r)
  PROVE  /\ Range(sent)' = Range(sent) \cup {r}
         /\ OnItsWay(r)'
         /\ \A q \in Requests : OnItsWay(q) => OnItsWay(q)'
<1> USE DEF ServiceInv
<1>1. /\ sent \in Seq(Requests) /\ front \in Seq(Requests) /\ r \notin Range(sent)
      /\ sent' = Append(sent, r) /\ front' = Append(front, r)
      /\ UNCHANGED <<back, mailbox, inproc, dqs, message, msgList, msg, spc>>
  BY QueueTypes DEF Send, sender
<1>2. Range(sent)' = Range(sent) \cup {r}
  BY <1>1, AppendRange DEF Orderly
<1>3. /\ \A i \in DOMAIN front : i \in DOMAIN front' /\ front'[i] = front[i]
      /\ \E i \in DOMAIN front' : front'[i] = r
  BY <1>1, AppendKeeps
<1>4. OnTheWire(r)' /\ \A q : OnTheWire(q) => OnTheWire(q)'
  BY <1>3 DEF OnTheWire, OnFront
<1>5. QED BY <1>1, <1>2, <1>4
  DEF OnItsWay, Queued, Held, Listed, InHandOfSender, Outbound, OnInproc,
      Returning, OnBack, Answered, RR!Received

(* No step without a fault loses a request.                                  *)
LEMMA ConservedStep == ServiceInv /\ Conserved /\ [Next]_vars => Conserved'
<1> SUFFICES ASSUME ServiceInv, Conserved, [Next]_vars, faults' = 0
             PROVE  /\ up' /\ wpc' # "closed"
                    /\ flags' = 0 =>
                         /\ RouterMode'
                         /\ \A r \in Range(sent)' : Body[r] = "empty" \/ OnItsWay(r)'
  BY DEF Conserved, Undisturbed
<1>1. TypeInv /\ faults \in Nat /\ \A r \in Range(sent) : r \in Requests
  <2>1. faults \in Nat /\ sent \in Seq(Requests)
    BY ConstantsAssumption DEF ServiceInv, TypeInv, TypeOK
  <2>2. QED BY <2>1, ElementOfSeq DEF ServiceInv, Range
<1>2. ~ PollError /\ ~ Crash
  BY <1>1 DEF PollError, Crash
<1>3. faults = 0
  BY <1>1, <1>2
  DEF Next, vars, network, loop, sender, Send, RouterDeliver, Poll, ForwardResponse, ReceiveRequest,
      WorkerGet, WorkerCall, SenderGet, SenderSend, SenderDestroy, MainShutdown, Restart
<1>4. up /\ wpc # "closed" /\ ~ MainShutdown /\ ~ Restart
  BY <1>3 DEF Conserved, MainShutdown, Restart
<1>5. up' /\ wpc' # "closed" /\ flags' = flags
  BY <1>2, <1>4
  DEF Next, vars, network, loop, sender, Send, RouterDeliver, Poll, ForwardResponse, ReceiveRequest,
      WorkerGet, WorkerCall, SenderGet, SenderSend, SenderDestroy
<1>6. ASSUME flags' = 0
      PROVE  RouterMode' /\ \A r \in Range(sent)' : Body[r] = "empty" \/ OnItsWay(r)'
  <2>1. flags = 0 /\ RouterMode /\ \A r \in Range(sent) : Body[r] = "empty" \/ OnItsWay(r)
    BY <1>3, <1>5, <1>6 DEF Conserved, Undisturbed
  <2>2. RouterMode'
    BY <2>1, RouterModeStep
  <2>3. ASSUME UNCHANGED vars \/ Poll, NEW r \in Requests, OnItsWay(r)
        PROVE  OnItsWay(r)'
    <3>1. UNCHANGED <<front, back, mailbox, inproc, dqs, message, msgList, msg, spc>>
      BY <2>3 DEF Poll, vars, network, sender
    <3>2. QED BY <2>3, <3>1
      DEF OnItsWay, OnTheWire, OnFront, Queued, Held, Listed, InHandOfSender,
          Outbound, OnInproc, Returning, OnBack, Answered, RR!Received
  <2>4. ASSUME NEW r \in Range(sent), Body[r] # "empty", ~ \E c \in Requests : Send(c)
        PROVE  OnItsWay(r)'
    <3>1. r \in Requests /\ OnItsWay(r)
      BY <1>1, <2>1, <2>4
    <3>2. QED
      BY <1>2, <1>4, <2>1, <2>3, <2>4, <3>1, DeliverKeeps, ForwardKeeps, ReceiveKeeps,
         WorkerTakes, WorkerCallKeeps, SenderKeeps DEF Next
  <2>5. ASSUME ~ \E r \in Requests : Send(r) PROVE UNCHANGED sent
    BY <1>2, <1>4, <2>5
    DEF Next, vars, network, RouterDeliver, Poll, ForwardResponse, ReceiveRequest,
        WorkerGet, WorkerCall, SenderGet, SenderSend, SenderDestroy
  <2>6. ASSUME NEW r \in Requests, Send(r)
        PROVE  \A q \in Range(sent)' : Body[q] = "empty" \/ OnItsWay(q)'
    BY <1>1, <2>1, <2>6, SendKeeps
  <2>7. QED BY <2>2, <2>4, <2>5, <2>6
<1>7. QED BY <1>5, <1>6

(* Without faults and with flags 0, a process with nothing left to do has    *)
(* answered every request with a body it was ever sent: nothing is dropped   *)
(* between the sockets, the queues and the threads.                          *)
THEOREM NothingIsForgotten == Spec => []RestingMeansAnswered
<1>1. Init => Conserved
  BY DEF Init, Conserved, Undisturbed, RouterMode, Range
<1>2. ServiceInv /\ Conserved => RestingMeansAnswered
  <2> SUFFICES ASSUME ServiceInv, Conserved, flags = 0, faults = 0, Resting,
                      NEW r \in Range(sent), Body[r] # "empty"
               PROVE  Answered(r)
    BY DEF RestingMeansAnswered
  <2>1. OnItsWay(r) /\ r \in Requests
    <3>1. sent \in Seq(Requests)
      BY DEF ServiceInv, TypeInv, TypeOK
    <3>2. r \in Requests
      BY <3>1, ElementOfSeq DEF Range
    <3>3. QED BY <3>2 DEF Conserved, Undisturbed
  <2>2. front = <<>> /\ inproc = <<>> /\ back = <<>> /\ msgList = <<>> /\ spc = "get"
    BY DEF Resting, Readable
  <2>3. ~ OnTheWire(r) /\ ~ Outbound(r) /\ ~ Returning(r) /\ ~ Listed(r) /\ ~ InHandOfSender(r)
    BY <2>2 DEF OnTheWire, OnFront, Outbound, OnInproc, Returning, OnBack, Listed, InHandOfSender
  <2>4. ~ Held(r)
    BY <2>1, ConstantsAssumption DEF Held, Resting
  <2>5. ~ Queued(r)
    <3>1. SUFFICES ASSUME NEW k \in Interfaces, r \in Range(dqs[k]) PROVE FALSE
      BY DEF Queued
    <3>2. Body[r] = k
      BY <3>1 DEF ServiceInv, Custody, OneSlot
    <3>3. PICK i \in DOMAIN dqs[k] : dqs[k][i] = r
      BY <3>1 DEF Range
    <3>4. i \in Nat \ {0}
      BY <3>3, QueueTypes, LenProperties DEF ServiceInv
    <3>5. <<r, 2, i>> \in Line
      BY <2>1, <3>3, <3>4, LineAt DEF At, InDq
    <3>6. k \in Registered
      BY <3>2, <3>5 DEF ServiceInv, Orderly
    <3>7. PICK w \in Workers : Serves[w] = k
      BY <3>6 DEF Registered
    <3>8. dqs[k] = <<>>
      BY <3>7 DEF Resting
    <3>9. QED BY <3>3, <3>8
  <2>6. QED BY <2>1, <2>3, <2>4, <2>5 DEF OnItsWay
<1>3. QED BY <1>1, <1>2, ConservedStep, ServiceInvariant, PTL DEF Spec
=============================================================================
