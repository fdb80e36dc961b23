------------------------- MODULE FeaturePipelineProofs -------------------------
(***************************************************************************)
(* For every pool, list of photos and queue size: the feature pipeline     *)
(* writes no photo twice, its polling shutdown loses fewer photos than     *)
(* there are caffe threads, and without a writer it does not return.       *)
(*                                                                         *)
(* The first is an account of where each message is (Apart): not sent, in  *)
(* one of the queues, with one thread, or gone.  The second follows the    *)
(* SHUTDOWN message (Closing): main sends it into an empty procQueue and   *)
(* sends nothing after it, so the thread that takes it, and every thread   *)
(* that pushes after it, keeps what it has in hand for good.  The third    *)
(* reads size() of a ring that nobody takes from (Stuck).                  *)
(***************************************************************************)
EXTENDS FeaturePipeline, SequenceTheorems, FiniteSetTheorems, TLAPS

--------------------------------------------------------------------------------
(* push_back: the new element is the last one, the others stay.            *)
LEMMA AppendElements ==
  ASSUME NEW S, NEW s \in Seq(S), NEW e \in S
  PROVE  /\ Append(s, e) \in Seq(S)
         /\ Append(s, e) # <<>>
         /\ DOMAIN Append(s, e) = DOMAIN s \cup {Len(s) + 1}
         /\ Len(s) + 1 \notin DOMAIN s
         /\ Append(s, e)[Len(s) + 1] = e
         /\ \A i \in DOMAIN s : Append(s, e)[i] = s[i]
         /\ \A i \in DOMAIN Append(s, e) :
              Append(s, e)[i] = e \/ (i \in DOMAIN s /\ Append(s, e)[i] = s[i])
<1>1. DOMAIN s = 1 .. Len(s) /\ Len(s) \in Nat
  BY LenProperties
<1>2. DOMAIN Append(s, e) = 1 .. Len(s) + 1
  BY AppendProperties, LenProperties
<1>3. QED BY <1>1, <1>2, AppendProperties

(* pop_front: the element after the first moves to its place.              *)
LEMMA TailElements ==
  ASSUME NEW S, NEW s \in Seq(S), s # <<>>
  PROVE  /\ Tail(s) \in Seq(S)
         /\ 1 \in DOMAIN s /\ Head(s) = s[1] /\ Head(s) \in S
         /\ \A i \in DOMAIN Tail(s) : i + 1 \in DOMAIN s /\ i + 1 # 1 /\ Tail(s)[i] = s[i + 1]
<1>1. DOMAIN s = 1 .. Len(s) /\ Len(s) \in Nat \ {0}
  BY LenProperties, EmptySeq
<1>2. /\ Tail(s) \in Seq(S) /\ Len(Tail(s)) = Len(s) - 1
      /\ \A i \in 1 .. Len(Tail(s)) : Tail(s)[i] = s[i + 1]
  BY HeadTailProperties
<1>3. DOMAIN Tail(s) = 1 .. Len(s) - 1
  BY <1>2, LenProperties
<1>4. QED BY <1>1, <1>2, <1>3, HeadTailProperties

(* A queue as a set of messages: what a push adds and a pop takes away.      *)
LEMMA AppendRange ==
  ASSUME NEW S, NEW s \in Seq(S), NEW e \in S
  PROVE  /\ Append(s, e) \in Seq(S)
         /\ Range(Append(s, e)) = Range(s) \cup {e}
         /\ IsInjective(s) /\ e \notin Range(s) => IsInjective(Append(s, e))
  <1>1. /\ DOMAIN Append(s, e) = DOMAIN s \cup {Len(s) + 1}
        /\ Append(s, e)[Len(s) + 1] = e
        /\ \A i \in DOMAIN s : Append(s, e)[i] = s[i]
    BY AppendElements
  <1>. DEFINE t == Append(s, e)
              last == Len(s) + 1
  <1>. HIDE DEF t, last
  <1>2. /\ DOMAIN t = DOMAIN s \cup {last} /\ t[last] = e
        /\ \A i \in DOMAIN s : t[i] = s[i]
    BY <1>1 DEF t, last
  <1>3. Range(t) = Range(s) \cup {e}
    BY <1>2 DEF Range
  <1>4. IsInjective(s) /\ e \notin Range(s) => IsInjective(t)
    BY <1>2 DEF Range, IsInjective
  <1>. QED
    BY <1>3, <1>4, AppendElements DEF t

LEMMA TailRange ==
  ASSUME NEW S, NEW s \in Seq(S), s # <<>>
  PROVE  /\ Tail(s) \in Seq(S) /\ Head(s) \in S /\ Head(s) \in Range(s)
         /\ Range(Tail(s)) \subseteq Range(s)
         /\ IsInjective(s) => Head(s) \notin Range(Tail(s)) /\ IsInjective(Tail(s))
  <1>. DEFINE t == Tail(s)
  <1>1. /\ 1 \in DOMAIN s /\ Head(s) = s[1]
        /\ \A i \in DOMAIN t : i + 1 \in DOMAIN s /\ i + 1 # 1 /\ t[i] = s[i + 1]
    BY TailElements
  <1>2. \A i, j \in DOMAIN t : i + 1 = j + 1 => i = j
    <2>1. DOMAIN t \subseteq Nat
      BY TailElements, LenProperties
    <2>. QED
      BY <2>1
  <1>. HIDE DEF t
  <1>3. Range(t) \subseteq Range(s) /\ Head(s) \in Range(s)
    BY <1>1 DEF Range
  <1>4. IsInjective(s) => Head(s) \notin Range(t)
    BY <1>1 DEF Range, IsInjective
  <1>5. IsInjective(s) => IsInjective(t)
    BY <1>1, <1>2 DEF IsInjective
  <1>. QED
    BY <1>3, <1>4, <1>5, TailElements DEF t

--------------------------------------------------------------------------------
Messages == Photos \cup {SHUTDOWN}
Early == {"built", "submit", "poll", "pollWrite", "send"}
Late == {"joinPool", "joinWriter", "done"}

TypeOK ==
  /\ main \in Early \cup Late
  /\ unread \subseteq Photos
  /\ procQueue \in Seq(Messages) /\ writeQueue \in Seq(Messages)
  /\ caffe \in [Caffe -> {"loop", "tryGet", "detect", "push", "ended", "absent"}]
  /\ hand \in [Caffe -> Messages \cup {NoMsg}]
  /\ \A c \in Caffe : caffe[c] \in {"detect", "push"} => hand[c] \in Messages
  /\ writer \in {"start", "loop", "ended", "absent"}
  /\ written \in Seq(Photos)
  /\ undetected \subseteq Photos

LEMMA TypeInit == Init => TypeOK
  BY DEF Init, CreatePool, CreateWriter, TypeOK, Early, Late, Messages

LEMMA TypeStep == TypeOK /\ [Next]_vars => TypeOK'
  <1>. SUFFICES ASSUME TypeOK, [Next]_vars PROVE TypeOK'
    OBVIOUS
  <1>. USE DEF pool, mains, output
  <1>1. CASE SetWriterOffset \/ ListEnds \/ PollProcQueue \/ ReadFirstIndex \/ ReadSecondIndex
             \/ JoinPool \/ JoinWriter
    BY <1>1 DEF TypeOK, Early, Late, SetWriterOffset, ListEnds, PollProcQueue, ReadFirstIndex,
                ReadSecondIndex, JoinPool, JoinWriter
  <1>2. CASE SendShutdown
    <2>1. procQueue' \in Seq(Messages)
      BY <1>2, AppendRange DEF TypeOK, SendShutdown, Messages
    <2>. QED
      BY <1>2, <2>1 DEF TypeOK, Early, Late, SendShutdown
  <1>3. ASSUME NEW p \in Photos, GetFeature(p) PROVE TypeOK'
    <2>1. procQueue' \in Seq(Messages)
      BY <1>3, AppendRange DEF TypeOK, GetFeature, Messages
    <2>. QED
      BY <1>3, <2>1 DEF TypeOK, GetFeature
  <1>4. ASSUME NEW p \in Photos, Unreadable(p) PROVE TypeOK'
    BY <1>4 DEF TypeOK, Unreadable
  <1>5. ASSUME NEW c \in Caffe, TestDone(c) \/ TryGetFails(c) \/ TakeShutdown(c) PROVE TypeOK'
    BY <1>5 DEF TypeOK, TestDone, TryGetFails, TakeShutdown, Goto
  <1>6. ASSUME NEW c \in Caffe, TryGet(c) PROVE TypeOK'
    <2>1. procQueue' \in Seq(Messages) /\ Head(procQueue) \in Messages
      BY <1>6, TailRange DEF TypeOK, TryGet
    <2>. QED
      BY <1>6, <2>1 DEF TypeOK, TryGet, Goto
  <1>7. ASSUME NEW c \in Caffe, Detect(c) PROVE TypeOK'
    BY <1>7 DEF TypeOK, Detect, Goto, Messages
  <1>8. ASSUME NEW c \in Caffe, PushResult(c) PROVE TypeOK'
    <2>1. writeQueue' \in Seq(Messages)
      BY <1>8, AppendRange DEF TypeOK, PushResult
    <2>. QED
      BY <1>8, <2>1 DEF TypeOK, PushResult, Goto
  <1>9. CASE WriterStarts
    BY <1>9 DEF TypeOK, WriterStarts, DoWork
  <1>10. CASE WritePhoto
    <2>1. writeQueue' \in Seq(Messages) /\ Head(writeQueue) \in Photos
      BY <1>10, TailRange DEF TypeOK, WritePhoto, Dequeue, Messages
    <2>2. written' \in Seq(Photos)
      BY <1>10, <2>1, AppendRange DEF TypeOK, WritePhoto
    <2>. QED
      BY <1>10, <2>1, <2>2 DEF TypeOK, WritePhoto
  <1>11. CASE WriterStops
    <2>1. writeQueue' \in Seq(Messages)
      BY <1>11, TailRange DEF TypeOK, WriterStops, Dequeue
    <2>. QED
      BY <1>11, <2>1 DEF TypeOK, WriterStops
  <1>12. CASE UNCHANGED vars
    BY <1>12 DEF TypeOK, vars
  <1>. QED
    BY <1>1, <1>2, <1>3, <1>4, <1>5, <1>6, <1>7, <1>8, <1>9, <1>10, <1>11, <1>12
    DEF Next, MainStep, CaffeStep, WriterStep

LEMMA TypeInvariant == Spec => []TypeOK
  BY TypeInit, TypeStep, PTL DEF Spec

-----------------------------------------------------------------------------
\* Where a message can be.
Unsent == unread \cup (IF main \in Early THEN {SHUTDOWN} ELSE {})
Holding == {c \in Caffe : caffe[c] \in {"detect", "push"}}
InWork == {hand[c] : c \in Holding}
Gone == undetected \cup Range(written) \cup (IF writer = "ended" THEN {SHUTDOWN} ELSE {})

Disjoint(A, B) == \A x : ~ (x \in A /\ x \in B)

\* The sets of messages unsent, submitted, in work, waiting to be written, gone.
InOnePlace(U, S, W, A, G) ==
  /\ Disjoint(U, S) /\ Disjoint(U, W) /\ Disjoint(U, A) /\ Disjoint(U, G)
  /\ Disjoint(S, W) /\ Disjoint(S, A) /\ Disjoint(S, G)
  /\ Disjoint(W, A) /\ Disjoint(W, G) /\ Disjoint(A, G)

NoneTwice ==
  /\ IsInjective(procQueue) /\ IsInjective(writeQueue) /\ IsInjective(written)
  /\ \A c, d \in Holding : hand[c] = hand[d] => c = d

Apart == InOnePlace(Unsent, Range(procQueue), InWork, Range(writeQueue), Gone) /\ NoneTwice

LEMMA ApartInit == Init => Apart
  <1>. SUFFICES ASSUME Init PROVE Apart
    OBVIOUS
  <1>1. Range(procQueue) = {} /\ Range(writeQueue) = {} /\ Range(written) = {}
    BY DEF Init, Range
  <1>2. InWork = {} /\ Holding = {} /\ Gone = {}
    BY <1>1 DEF Init, CreatePool, CreateWriter, InWork, Holding, Gone
  <1>3. NoneTwice
    BY <1>2 DEF Init, NoneTwice, IsInjective
  <1>. QED
    BY <1>1, <1>2, <1>3 DEF Apart, InOnePlace, Disjoint

(* One message goes from one place to the next, or some message is dropped.  *)
LEMMA Passes ==
  ASSUME NEW U, NEW S, NEW W, NEW A, NEW G, NEW x, NEW V,
         InOnePlace(U, S, W, A, G)
  PROVE  /\ V \subseteq U => InOnePlace(V, S, W, A, G)
         /\ x \in U /\ V \subseteq U /\ x \notin V => InOnePlace(V, S \cup {x}, W, A, G)
         /\ x \in S /\ V \subseteq S /\ x \notin V => InOnePlace(U, V, W \cup {x}, A, G)
         /\ x \in W /\ V \subseteq W /\ x \notin V =>
              InOnePlace(U, S, V, A \cup {x}, G) /\ InOnePlace(U, S, V, A, G \cup {x})
         /\ x \in A /\ V \subseteq A /\ x \notin V => InOnePlace(U, S, W, V, G \cup {x})
  BY DEF InOnePlace, Disjoint

LEMMA ApartStep == TypeOK /\ Apart /\ [Next]_vars => Apart'
  <1>. SUFFICES ASSUME TypeOK, Apart, [Next]_vars PROVE Apart'
    OBVIOUS
  <1>. USE DEF pool, mains, output
  <1>0. InOnePlace(Unsent, Range(procQueue), InWork, Range(writeQueue), Gone) /\ NoneTwice
    BY DEF Apart
  <1>a. UNCHANGED pool => InWork' = InWork /\ Holding' = Holding
    BY DEF InWork, Holding
  <1>b. UNCHANGED <<pool, written, writer>> => Gone' = Gone
    BY DEF Gone
  <1>c. UNCHANGED mains => Unsent' = Unsent
    BY DEF Unsent
  <1>1. ASSUME UNCHANGED <<pool, written, writer, procQueue, writeQueue>>,
               Unsent' \subseteq Unsent
        PROVE  Apart'
    <2>1. NoneTwice'
      BY <1>0, <1>1, <1>a DEF NoneTwice
    <2>. QED
      BY <1>0, <1>1, <1>a, <1>b, <2>1, Passes DEF Apart
  <1>2. CASE SetWriterOffset \/ ListEnds \/ PollProcQueue \/ ReadFirstIndex \/ ReadSecondIndex
             \/ JoinPool \/ JoinWriter \/ WriterStarts \/ UNCHANGED vars
    <2>1. UNCHANGED <<pool, written, procQueue, writeQueue>>
      BY <1>2 DEF SetWriterOffset, ListEnds, PollProcQueue, ReadFirstIndex, ReadSecondIndex,
                  JoinPool, JoinWriter, WriterStarts, vars
    <2>2. Gone' = Gone /\ Unsent' \subseteq Unsent
      BY <1>2 DEF SetWriterOffset, ListEnds, PollProcQueue, ReadFirstIndex, ReadSecondIndex,
                  JoinPool, JoinWriter, WriterStarts, DoWork, vars, DoWork, Gone, Unsent, Early
    <2>3. NoneTwice'
      BY <1>0, <1>a, <2>1 DEF NoneTwice
    <2>. QED
      BY <1>0, <1>a, <2>1, <2>2, <2>3, Passes DEF Apart
  <1>3. ASSUME NEW x \in Unsent, NEW V \in SUBSET Unsent, x \notin V, Unsent' = V,
               procQueue' = Append(procQueue, x), x \in Messages,
               UNCHANGED <<pool, output, writeQueue>>
        PROVE  Apart'
    <2>1. x \notin Range(procQueue)
      BY <1>0 DEF InOnePlace, Disjoint
    <2>2. Range(procQueue') = Range(procQueue) \cup {x} /\ IsInjective(procQueue')
      BY <1>0, <1>3, <2>1, AppendRange DEF TypeOK, NoneTwice
    <2>3. NoneTwice'
      BY <1>0, <1>3, <1>a, <2>2 DEF NoneTwice
    <2>4. InOnePlace(V, Range(procQueue) \cup {x}, InWork, Range(writeQueue), Gone)
      BY <1>0, <1>3, Passes
    <2>. QED
      BY <1>3, <1>a, <1>b, <2>2, <2>3, <2>4 DEF Apart
  <1>4. CASE SendShutdown
    <2>1. /\ SHUTDOWN \in Unsent /\ Unsent' = unread /\ unread \subseteq Unsent
          /\ SHUTDOWN \notin unread /\ SHUTDOWN \in Messages
      BY <1>4, MessagesAssumption DEF TypeOK, SendShutdown, Unsent, Early, Messages
    <2>. QED
      BY <1>3, <1>4, <2>1 DEF SendShutdown
  <1>5. ASSUME NEW p \in Photos, GetFeature(p) PROVE Apart'
    <2>1. p \in Unsent /\ Unsent' = Unsent \ {p} /\ p \in Messages
      BY <1>5, MessagesAssumption DEF GetFeature, Unsent, Early, Messages
    <2>. QED
      BY <1>3, <1>5, <2>1 DEF GetFeature
  <1>6. ASSUME NEW p \in Photos, Unreadable(p) PROVE Apart'
    <2>1. Unsent' \subseteq Unsent
      BY <1>6 DEF Unreadable, Unsent
    <2>. QED
      BY <1>1, <1>6, <2>1 DEF Unreadable
  <1>7. ASSUME NEW c \in Caffe, TestDone(c) \/ TryGetFails(c) \/ TakeShutdown(c) PROVE Apart'
    <2>1. Holding' = Holding /\ UNCHANGED <<hand, undetected, mains, output, procQueue, writeQueue>>
      BY <1>7 DEF TypeOK, TestDone, TryGetFails, TakeShutdown, Goto, Holding
    <2>2. InWork' = InWork /\ Gone' = Gone /\ Unsent' = Unsent
      BY <2>1 DEF InWork, Gone, Unsent
    <2>. QED
      BY <1>0, <2>1, <2>2 DEF Apart, NoneTwice
  <1>8. ASSUME NEW c \in Caffe, TryGet(c) PROVE Apart'
    <2>. DEFINE x == Head(procQueue)
    <2>1. /\ c \notin Holding /\ Holding' = Holding \cup {c} /\ hand'[c] = x
          /\ \A d \in Caffe \ {c} : hand'[d] = hand[d]
          /\ UNCHANGED <<written, writer, writeQueue, undetected, mains>>
          /\ procQueue # <<>> /\ procQueue' = Tail(procQueue)
      BY <1>8 DEF TypeOK, TryGet, Goto, Holding
    <2>2. /\ x \in Range(procQueue) /\ x \notin Range(procQueue')
          /\ Range(procQueue') \subseteq Range(procQueue) /\ IsInjective(procQueue')
      BY <1>0, <2>1, TailRange DEF TypeOK, NoneTwice
    <2>3. InWork' = InWork \cup {x} /\ Gone' = Gone /\ Unsent' = Unsent
      BY <2>1 DEF InWork, Gone, Unsent, Holding
    <2>4. x \notin InWork
      BY <1>0, <2>2 DEF InOnePlace, Disjoint
    <2>. HIDE DEF x
    <2>5. NoneTwice'
      BY <1>0, <2>1, <2>2, <2>4 DEF NoneTwice, InWork, Holding
    <2>. QED
      BY <1>0, <2>1, <2>2, <2>3, <2>5, Passes DEF Apart
  <1>9. ASSUME NEW c \in Holding, Holding' = Holding \ {c}, hand' = hand
        PROVE  hand[c] \in InWork /\ InWork' = InWork \ {hand[c]}
    BY <1>0, <1>9 DEF NoneTwice, InWork
  <1>10. ASSUME NEW c \in Caffe, Detect(c) PROVE Apart'
    <2>1. UNCHANGED <<hand, written, writer, writeQueue, procQueue, mains>> /\ c \in Holding
      BY <1>10 DEF Detect, Holding
    <2>2. Unsent' = Unsent
      BY <2>1 DEF Unsent
    <2>3. CASE caffe' = [caffe EXCEPT ![c] = "push"] /\ UNCHANGED undetected
      <3>1. Holding' = Holding
        BY <2>1, <2>3 DEF TypeOK, Holding
      <3>2. InWork' = InWork /\ Gone' = Gone
        BY <2>1, <2>3, <3>1 DEF InWork, Gone
      <3>. QED
        BY <1>0, <2>1, <2>2, <3>1, <3>2 DEF Apart, NoneTwice
    <2>4. CASE caffe' = [caffe EXCEPT ![c] = "loop"] /\ undetected' = undetected \cup {hand[c]}
      <3>1. Holding' = Holding \ {c}
        BY <2>1, <2>4 DEF TypeOK, Holding
      <3>2. hand[c] \in InWork /\ InWork' = InWork \ {hand[c]} /\ Gone' = Gone \cup {hand[c]}
        BY <1>9, <2>1, <2>4, <3>1 DEF Gone
      <3>3. NoneTwice'
        BY <1>0, <2>1, <3>1 DEF NoneTwice
      <3>. QED
        BY <1>0, <2>1, <2>2, <3>2, <3>3, Passes DEF Apart
    <2>. QED
      BY <1>10, <2>3, <2>4 DEF Detect, Goto
  <1>11. ASSUME NEW c \in Caffe, PushResult(c) PROVE Apart'
    <2>1. /\ UNCHANGED <<hand, undetected, written, writer, procQueue, mains>>
          /\ c \in Holding /\ Holding' = Holding \ {c}
          /\ writeQueue' = Append(writeQueue, hand[c]) /\ hand[c] \in Messages
      BY <1>11 DEF TypeOK, PushResult, Goto, Holding
    <2>2. hand[c] \in InWork /\ InWork' = InWork \ {hand[c]}
      BY <1>9, <2>1
    <2>3. hand[c] \notin Range(writeQueue)
      BY <1>0, <2>2 DEF InOnePlace, Disjoint
    <2>4. Range(writeQueue') = Range(writeQueue) \cup {hand[c]} /\ IsInjective(writeQueue')
      BY <1>0, <2>1, <2>3, AppendRange DEF TypeOK, NoneTwice
    <2>5. Gone' = Gone /\ Unsent' = Unsent
      BY <2>1 DEF Gone, Unsent
    <2>6. NoneTwice'
      BY <1>0, <2>1, <2>4 DEF NoneTwice
    <2>7. InOnePlace(Unsent, Range(procQueue), InWork \ {hand[c]}, Range(writeQueue) \cup {hand[c]}, Gone)
      BY <1>0, <2>2, Passes
    <2>. QED
      BY <2>1, <2>2, <2>4, <2>5, <2>6, <2>7 DEF Apart
  <1>12. ASSUME WritePhoto \/ WriterStops PROVE Apart'
    <2>. DEFINE x == Head(writeQueue)
    <2>1. /\ UNCHANGED <<pool, mains, procQueue>>
          /\ writer = "loop" /\ writeQueue # <<>> /\ writeQueue' = Tail(writeQueue)
      BY <1>12 DEF WritePhoto, WriterStops, Dequeue
    <2>2. /\ x \in Range(writeQueue) /\ x \notin Range(writeQueue')
          /\ Range(writeQueue') \subseteq Range(writeQueue) /\ IsInjective(writeQueue')
          /\ x \in Messages
      BY <1>0, <2>1, TailRange DEF TypeOK, NoneTwice
    <2>3. x \notin Gone
      BY <1>0, <2>2 DEF InOnePlace, Disjoint
    <2>4. Gone' = Gone \cup {x} /\ IsInjective(written')
      <3>1. CASE WritePhoto
        <4>1. x \in Photos /\ written' = Append(written, x) /\ writer' = writer
          BY <2>2, <3>1 DEF WritePhoto, Messages
        <4>2. x \notin Range(written)
          BY <2>3 DEF Gone
        <4>3. Range(written') = Range(written) \cup {x} /\ IsInjective(written')
          BY <1>0, <4>1, <4>2, AppendRange DEF TypeOK, NoneTwice
        <4>. QED
          BY <2>1, <4>1, <4>3 DEF Gone
      <3>2. CASE WriterStops
        <4>1. x = SHUTDOWN /\ written' = written /\ writer' = "ended"
          BY <3>2 DEF WriterStops
        <4>. QED
          BY <1>0, <2>1, <4>1 DEF Gone, NoneTwice
      <3>. QED
        BY <1>12, <3>1, <3>2
    <2>5. NoneTwice'
      BY <1>0, <1>a, <2>1, <2>2, <2>4 DEF NoneTwice
    <2>. HIDE DEF x
    <2>. QED
      BY <1>0, <1>a, <1>c, <2>1, <2>2, <2>4, <2>5, Passes DEF Apart
  <1>. QED
    BY <1>2, <1>4, <1>5, <1>6, <1>7, <1>8, <1>10, <1>11, <1>12
    DEF Next, MainStep, CaffeStep, WriterStep

(* However many threads and photos: no photo is written twice, none is both  *)
(* dropped and written, and one on its way has not been written yet.         *)
THEOREM NoPhotoTwice == Spec => []WrittenOnce
  <1>1. Apart => WrittenOnce
    BY DEF Apart, NoneTwice, InOnePlace, Disjoint, WrittenOnce, Waiting, IsDone, Gone, IsInjective, Range
  <1>. QED
    BY <1>1, ApartInit, ApartStep, TypeInvariant, PTL DEF Spec

-----------------------------------------------------------------------------
Held(m) == \E c \in Caffe : hand[c] = m

\* Until main has polled, no SHUTDOWN is under way; when it sends one,
\* procQueue is empty, and nothing follows it.
OneShutdown ==
  /\ main \notin Late => procQueue \in Seq(Photos)
  /\ main \in {"pollWrite", "send"} => procQueue = <<>>
  /\ main \in Late => procQueue \in {<<>>, <<SHUTDOWN>>}
  /\ Held(SHUTDOWN) => main \in Late /\ procQueue = <<>>

\* What is behind SHUTDOWN in writeQueue, or in it when the writer has ended,
\* is still in the hand of the thread that pushed it.
Behind ==
  /\ \A i \in DOMAIN writeQueue : writeQueue[i] = SHUTDOWN => Held(SHUTDOWN)
  /\ writer = "ended" => Held(SHUTDOWN)
  /\ \A i, j \in DOMAIN writeQueue :
       writer = "ended" \/ (writeQueue[i] = SHUTDOWN /\ i < j) => Held(writeQueue[j])

Closing == OneShutdown /\ Behind

LEMMA ClosingInit == Init => Closing
  BY MessagesAssumption
  DEF Init, CreateWriter, Closing, OneShutdown, Behind, Held, Late

(* A step that takes nothing from procQueue and moves nothing in writeQueue. *)
LEMMA BehindStays ==
  ASSUME Behind, UNCHANGED <<writeQueue, hand, writer>>
  PROVE  Behind'
  BY DEF Behind, Held

LEMMA ClosingStep == TypeOK /\ Closing /\ [Next]_vars => Closing'
  <1>. SUFFICES ASSUME TypeOK, Closing, [Next]_vars PROVE Closing'
    OBVIOUS
  <1>. USE DEF pool, mains, output
  <1>0. OneShutdown /\ Behind
    BY DEF Closing
  <1>1. CASE SetWriterOffset \/ ListEnds \/ PollProcQueue \/ ReadFirstIndex \/ ReadSecondIndex
             \/ JoinPool \/ JoinWriter
    <2>1. UNCHANGED <<writeQueue, procQueue, hand, writer>>
      BY <1>1 DEF SetWriterOffset, ListEnds, PollProcQueue, ReadFirstIndex, ReadSecondIndex, JoinPool, JoinWriter
    <2>2. OneShutdown'
      BY <1>0, <1>1, <2>1 DEF OneShutdown, Held, Late, SetWriterOffset, ListEnds, PollProcQueue,
                              ReadFirstIndex, ReadSecondIndex, JoinPool, JoinWriter
    <2>. QED
      BY <1>0, <2>1, <2>2, BehindStays DEF Closing
  <1>2. CASE SendShutdown
    <2>1. /\ UNCHANGED <<writeQueue, hand, writer>> /\ main = "send" /\ main' = "joinPool"
          /\ procQueue = <<>> /\ procQueue' = Append(procQueue, SHUTDOWN)
      BY <1>0, <1>2 DEF SendShutdown, OneShutdown
    <2>2. procQueue' = <<SHUTDOWN>>
      BY <2>1
    <2>3. OneShutdown'
      BY <1>0, <2>1, <2>2 DEF OneShutdown, Held, Late
    <2>. QED
      BY <1>0, <2>1, <2>3, BehindStays DEF Closing
  <1>3. ASSUME NEW p \in Photos, GetFeature(p) \/ Unreadable(p) PROVE Closing'
    <2>1. UNCHANGED <<writeQueue, hand, writer, main>> /\ main = "submit"
      BY <1>3 DEF GetFeature, Unreadable
    <2>2. procQueue' \in Seq(Photos)
      BY <1>0, <1>3, <2>1, AppendRange DEF OneShutdown, Late, GetFeature, Unreadable
    <2>3. OneShutdown'
      BY <1>0, <2>1, <2>2 DEF OneShutdown, Held, Late
    <2>. QED
      BY <1>0, <2>1, <2>3, BehindStays DEF Closing
  <1>4. ASSUME UNCHANGED <<hand, procQueue, main, writeQueue, writer>> PROVE Closing'
    BY <1>0, <1>4, BehindStays DEF Closing, OneShutdown, Held
  <1>5. ASSUME NEW c \in Caffe, TestDone(c) \/ TryGetFails(c) \/ TakeShutdown(c) \/ Detect(c) PROVE Closing'
    BY <1>4, <1>5 DEF TestDone, TryGetFails, TakeShutdown, Detect
  <1>6. ASSUME NEW c \in Caffe, TryGet(c) PROVE Closing'
    <2>1. /\ procQueue # <<>> /\ procQueue' = Tail(procQueue)
          /\ hand' = [hand EXCEPT ![c] = Head(procQueue)]
          /\ UNCHANGED <<main, writeQueue, writer>>
      BY <1>6 DEF TryGet
    <2>2. /\ ~ Held(SHUTDOWN) /\ main \notin {"pollWrite", "send"}
          /\ \A m : Held(m)' => Held(m) \/ m = Head(procQueue)
      BY <1>0, <2>1 DEF OneShutdown, Held, TypeOK
    <2>3. Behind'
      BY <1>0, <2>1, <2>2 DEF Behind
    <2>4. CASE main \in Late
      <3>1. procQueue = <<SHUTDOWN>>
        BY <1>0, <2>1, <2>4 DEF OneShutdown
      <3>2. procQueue' = <<>>
        BY <2>1, <3>1
      <3>. QED
        BY <2>1, <2>2, <2>3, <2>4, <3>2 DEF Closing, OneShutdown, Late
    <2>5. CASE main \notin Late
      <3>1. Head(procQueue) # SHUTDOWN /\ procQueue' \in Seq(Photos)
        BY <1>0, <2>1, <2>5, TailRange, MessagesAssumption DEF OneShutdown
      <3>. QED
        BY <2>1, <2>2, <2>3, <2>5, <3>1 DEF Closing, OneShutdown
    <2>. QED
      BY <2>4, <2>5
  <1>7. ASSUME NEW c \in Caffe, PushResult(c) PROVE Closing'
    <2>1. /\ UNCHANGED <<hand, procQueue, main, writer>>
          /\ writeQueue' = Append(writeQueue, hand[c]) /\ hand[c] \in Messages
      BY <1>7 DEF TypeOK, PushResult
    <2>2. OneShutdown' /\ Held(hand[c]) /\ \A m : Held(m)' <=> Held(m)
      BY <1>0, <2>1 DEF OneShutdown, Held
    <2>3. /\ DOMAIN writeQueue' = DOMAIN writeQueue \cup {Len(writeQueue) + 1}
          /\ writeQueue'[Len(writeQueue) + 1] = hand[c]
          /\ \A i \in DOMAIN writeQueue : writeQueue'[i] = writeQueue[i]
          /\ \A i \in DOMAIN writeQueue : ~ (Len(writeQueue) + 1 < i)
      <3>1. \A i \in DOMAIN writeQueue : ~ (Len(writeQueue) + 1 < i)
        BY LenProperties DEF TypeOK
      <3>. QED
        BY <2>1, <3>1, AppendElements DEF TypeOK
    <2>4. Behind'
      BY <1>0, <2>1, <2>2, <2>3 DEF Behind
    <2>. QED
      BY <2>2, <2>4 DEF Closing
  <1>8. CASE WriterStarts
    <2>1. UNCHANGED <<hand, procQueue, main, writeQueue>> /\ writer' # "ended"
      BY <1>8 DEF WriterStarts, DoWork
    <2>. QED
      BY <1>0, <2>1 DEF Closing, OneShutdown, Behind, Held
  <1>9. CASE WritePhoto \/ WriterStops
    <2>1. /\ UNCHANGED <<hand, procQueue, main>> /\ writer = "loop"
          /\ writeQueue # <<>> /\ writeQueue' = Tail(writeQueue)
          /\ writer' = "ended" => Head(writeQueue) = SHUTDOWN
      BY <1>9 DEF WritePhoto, WriterStops, Dequeue
    <2>2. OneShutdown' /\ \A m : Held(m)' <=> Held(m)
      BY <1>0, <2>1 DEF OneShutdown, Held
    <2>3. /\ 1 \in DOMAIN writeQueue /\ Head(writeQueue) = writeQueue[1]
          /\ \A i \in DOMAIN writeQueue' :
               i + 1 \in DOMAIN writeQueue /\ writeQueue'[i] = writeQueue[i + 1] /\ 1 < i + 1
          /\ \A i, j \in DOMAIN writeQueue' : i < j => i + 1 < j + 1
      <3>1. DOMAIN writeQueue' \subseteq Nat /\ \A i \in DOMAIN writeQueue' : i # 0
        BY <2>1, TailElements, LenProperties DEF TypeOK
      <3>2. \A i, j \in Nat \ {0} : 1 < i + 1 /\ (i < j => i + 1 < j + 1)
        OBVIOUS
      <3>. QED
        BY <2>1, <3>1, <3>2, TailElements DEF TypeOK
    <2>4. Behind'
      BY <1>0, <2>1, <2>2, <2>3 DEF Behind
    <2>. QED
      BY <2>2, <2>4 DEF Closing
  <1>10. CASE UNCHANGED vars
    BY <1>4, <1>10 DEF vars
  <1>. QED
    BY <1>1, <1>2, <1>3, <1>5, <1>6, <1>7, <1>8, <1>9, <1>10
    DEF Next, MainStep, CaffeStep, WriterStep

(* Fewer photos in the hands of the threads than there are threads, when one *)
(* of them holds SHUTDOWN.                                                   *)
LEMMA FewInHand ==
  ASSUME NEW c0 \in Caffe, hand[c0] \notin Photos, NEW L \in SUBSET Photos,
         \A p \in L : Held(p)
  PROVE  Cardinality(L) < Cardinality(Caffe)
  <1>. DEFINE C == Caffe \ {c0}
              f == [c \in C |-> hand[c]]
              T == {f[c] : c \in C}
  <1>1. IsFiniteSet(C) /\ Cardinality(C) = Cardinality(Caffe) - 1
    BY SizesAssumption, FS_RemoveElement
  <1>2. f \in Surjection(C, T)
    BY DEF Surjection
  <1>3. IsFiniteSet(T) /\ Cardinality(T) <= Cardinality(C)
    BY <1>1, <1>2, FS_Surjection
  <1>4. L \subseteq T
    BY DEF Held
  <1>. HIDE DEF C, f, T
  <1>5. IsFiniteSet(L) /\ Cardinality(L) <= Cardinality(T)
    BY <1>3, <1>4, FS_Subset
  <1>6. Cardinality(L) \in Nat /\ Cardinality(T) \in Nat /\ Cardinality(C) \in Nat
        /\ Cardinality(Caffe) \in Nat
    BY <1>1, <1>3, <1>5, SizesAssumption, FS_CardinalityType
  <1>. QED
    BY <1>1, <1>3, <1>5, <1>6

(* Whatever the pool and the queues: when the writer has ended, the photos   *)
(* that were submitted and neither written nor dropped are fewer than the    *)
(* caffe threads.                                                            *)
THEOREM ShutdownLosesFew == Spec => []FewPhotosLost
  <1>1. ASSUME TypeOK, Closing, writer = "ended"
        PROVE  Cardinality({p \in Photos : /\ ~ IsDone(p)
                                           /\ \/ p \in Waiting(procQueue) \cup Waiting(writeQueue)
                                              \/ \E c \in Caffe : hand[c] = p}) < Cardinality(Caffe)
    <2>. DEFINE L == {p \in Photos : /\ ~ IsDone(p)
                                     /\ \/ p \in Waiting(procQueue) \cup Waiting(writeQueue)
                                        \/ \E c \in Caffe : hand[c] = p}
    <2>1. Held(SHUTDOWN) /\ procQueue = <<>> /\ \A j \in DOMAIN writeQueue : Held(writeQueue[j])
      BY <1>1 DEF Closing, OneShutdown, Behind
    <2>2. \A p \in L : Held(p)
      BY <2>1 DEF Held, Waiting
    <2>3. PICK c0 \in Caffe : hand[c0] = SHUTDOWN
      BY <2>1 DEF Held
    <2>4. hand[c0] \notin Photos /\ L \subseteq Photos
      BY <2>3, MessagesAssumption
    <2>. HIDE DEF L
    <2>5. Cardinality(L) < Cardinality(Caffe)
      BY <2>2, <2>4, FewInHand
    <2>. QED
      BY <2>5 DEF L
  <1>2. TypeOK /\ Closing => FewPhotosLost
    BY <1>1 DEF FewPhotosLost
  <1>. QED
    BY <1>2, ClosingInit, ClosingStep, TypeInvariant, PTL DEF Spec

-----------------------------------------------------------------------------
LEMMA CapacityType == WriteCapacity \in Nat
  BY SizesAssumption, FS_CardinalityType DEF WriteCapacity

(* Where the tail of a ring is that is neither empty nor full.               *)
LEMMA TailApart ==
  ASSUME NEW n \in Nat, NEW h \in 0 .. n - 1, NEW l \in 1 .. n - 1
  PROVE  (h + l) % n # h
  <1>1. CASE h + l < n
    BY <1>1
  <1>2. CASE h + l >= n
    <2>1. (h + l) % n = h + l - n
      BY <1>2
    <2>. QED
      BY <2>1
  <1>. QED
    BY <1>1, <1>2

\* The ring of writeQueue, and size() between two calls.
RingOK ==
  /\ WriteCapacity > 0 => writeHead \in 0 .. WriteCapacity - 1
  /\ writeQueue # <<>> => Len(writeQueue) \in 1 .. WriteCapacity - 1
  /\ main # "pollWrite" => seen.index = "none"

LEMMA RingInit == Init => RingOK
  BY CapacityType DEF Init, RingOK

LEMMA RingStep == TypeOK /\ RingOK /\ [Next]_vars => RingOK'
  <1>. SUFFICES ASSUME TypeOK, RingOK, [Next]_vars PROVE RingOK'
    OBVIOUS
  <1>. USE DEF pool, mains, output
  <1>1. CASE MainStep \/ UNCHANGED vars
    <2>1. UNCHANGED <<writeQueue, writeHead>>
      BY <1>1 DEF MainStep, SetWriterOffset, GetFeature, Unreadable, ListEnds, PollProcQueue,
                  ReadFirstIndex, ReadSecondIndex, SendShutdown, JoinPool, JoinWriter, vars
    <2>2. (main # "pollWrite" => seen.index = "none")'
      BY <1>1 DEF RingOK, MainStep, SetWriterOffset, GetFeature, Unreadable, ListEnds, PollProcQueue,
                  ReadFirstIndex, ReadSecondIndex, SendShutdown, JoinPool, JoinWriter, vars
    <2>. QED
      BY <2>1, <2>2 DEF RingOK, WriteCapacity
  <1>2. ASSUME NEW c \in Caffe, TestDone(c) \/ TryGet(c) \/ TryGetFails(c) \/ TakeShutdown(c) \/ Detect(c)
        PROVE  RingOK'
    BY <1>2 DEF RingOK, WriteCapacity, TestDone, TryGet, TryGetFails, TakeShutdown, Detect
  <1>3. ASSUME NEW c \in Caffe, PushResult(c) PROVE RingOK'
    <2>1. /\ Len(writeQueue) + 1 < WriteCapacity
          /\ writeQueue' = Append(writeQueue, hand[c]) /\ hand[c] \in Messages
          /\ UNCHANGED <<writeHead, mains>>
      BY <1>3 DEF TypeOK, PushResult
    <2>2. Len(writeQueue') = Len(writeQueue) + 1 /\ Len(writeQueue) \in Nat
      BY <2>1, AppendProperties, LenProperties DEF TypeOK
    <2>3. Len(writeQueue') \in 1 .. WriteCapacity - 1
      BY <2>1, <2>2, CapacityType
    <2>. QED
      BY <2>1, <2>3 DEF RingOK, WriteCapacity
  <1>4. CASE WriterStarts
    BY <1>4 DEF RingOK, WriteCapacity, WriterStarts
  <1>5. CASE WritePhoto \/ WriterStops
    <2>1. /\ writeQueue # <<>> /\ writeQueue' = Tail(writeQueue)
          /\ writeHead' = (writeHead + 1) % WriteCapacity /\ UNCHANGED mains
      BY <1>5 DEF WritePhoto, WriterStops, Dequeue
    <2>2. Len(writeQueue) \in 1 .. WriteCapacity - 1 /\ writeHead \in 0 .. WriteCapacity - 1
      BY <2>1, CapacityType DEF RingOK
    <2>3. writeHead' \in 0 .. WriteCapacity - 1
      BY <2>1, <2>2, CapacityType
    <2>4. Len(writeQueue') = Len(writeQueue) - 1 /\ (writeQueue' # <<>> => Len(writeQueue') # 0)
      <3>1. writeQueue' \in Seq(Messages) /\ Len(writeQueue') = Len(writeQueue) - 1
        BY <2>1, HeadTailProperties DEF TypeOK
      <3>. QED
        BY <3>1, EmptySeq
    <2>5. writeQueue' # <<>> => Len(writeQueue') \in 1 .. WriteCapacity - 1
      BY <2>2, <2>4, CapacityType
    <2>. QED
      BY <2>1, <2>3, <2>5 DEF RingOK, WriteCapacity
  <1>. QED
    BY <1>1, <1>2, <1>3, <1>4, <1>5 DEF Next, CaffeStep, WriterStep

\* A shutdown that cannot return: nobody takes what is in writeQueue, and its
\* two indexes are not read as equal.
Stuck ==
  /\ writer = "absent" /\ writeQueue # <<>>
  /\ main \in {"poll", "pollWrite"}
  /\ seen.index = "head" => seen.at = writeHead
  /\ seen.index = "tail" => seen.at # writeHead
  /\ seen.index \in {"none", "head", "tail"}

LEMMA StuckStep == TypeOK /\ RingOK /\ Stuck /\ [Next]_vars => Stuck'
  <1>. SUFFICES ASSUME TypeOK, RingOK, Stuck, [Next]_vars PROVE Stuck'
    OBVIOUS
  <1>. USE DEF pool, mains, output
  <1>0. WriteIndex.head = writeHead /\ WriteIndex.tail # writeHead
    <2>1. Len(writeQueue) \in 1 .. WriteCapacity - 1 /\ writeHead \in 0 .. WriteCapacity - 1
      BY CapacityType DEF Stuck, RingOK
    <2>. QED
      BY <2>1, CapacityType, TailApart DEF WriteIndex
  <1>1. CASE PollProcQueue \/ UNCHANGED vars
    BY <1>1 DEF Stuck, PollProcQueue, vars
  <1>2. CASE ReadFirstIndex
    <2>1. PICK i \in {"head", "tail"} : seen' = [index |-> i, at |-> WriteIndex[i]]
      BY <1>2 DEF ReadFirstIndex
    <2>2. seen'.index = i /\ seen'.at = WriteIndex[i] /\ i \in {"head", "tail"}
      BY <2>1
    <2>. QED
      BY <1>0, <1>2, <2>2 DEF Stuck, ReadFirstIndex
  <1>3. CASE ReadSecondIndex
    <2>1. PICK i \in {"head", "tail"} \ {seen.index} :
            main' = IF WriteIndex[i] = seen.at THEN "send" ELSE "poll"
      BY <1>3 DEF ReadSecondIndex
    <2>2. WriteIndex[i] # seen.at
      BY <1>0, <1>3, <2>1 DEF Stuck, ReadSecondIndex
    <2>3. seen'.index = "none" /\ main' = "poll"
      BY <1>3, <2>1, <2>2 DEF ReadSecondIndex
    <2>. QED
      BY <1>3, <2>3 DEF Stuck, ReadSecondIndex
  <1>4. ASSUME NEW c \in Caffe, CaffeStep(c) PROVE Stuck'
    <2>1. UNCHANGED <<mains, output, writeHead>>
      BY <1>4 DEF CaffeStep, TestDone, TryGet, TryGetFails, TakeShutdown, Detect, PushResult
    <2>2. writeQueue' # <<>>
      <3>1. CASE PushResult(c)
        <4>1. writeQueue' = Append(writeQueue, hand[c]) /\ hand[c] \in Messages
          BY <3>1 DEF TypeOK, PushResult
        <4>. QED
          BY <4>1, AppendElements DEF TypeOK
      <3>2. CASE ~ PushResult(c)
        BY <1>4, <3>2 DEF Stuck, CaffeStep, TestDone, TryGet, TryGetFails, TakeShutdown, Detect
      <3>. QED
        BY <3>1, <3>2
    <2>. QED
      BY <2>1, <2>2 DEF Stuck
  <1>. QED
    BY <1>1, <1>2, <1>3, <1>4
    DEF Stuck, Next, MainStep, WriterStep, SetWriterOffset, GetFeature, Unreadable, ListEnds,
        SendShutdown, JoinPool, JoinWriter, WriterStarts, WritePhoto, WriterStops, Dequeue

(* Whatever the pool and the queues: when there is no writer and a photo has *)
(* been pushed, Handler::shutdown never leaves its polling loop.             *)
THEOREM NoWriterNoReturn == Spec => PollsForEver
  <1>1. RingOK /\ main = "poll" /\ writer = "absent" /\ writeQueue # <<>> => Stuck
    BY DEF RingOK, Stuck
  <1>2. Stuck => main \in {"poll", "pollWrite"}
    BY DEF Stuck
  <1>. QED
    BY <1>1, <1>2, RingInit, RingStep, StuckStep, TypeInvariant, PTL DEF Spec, PollsForEver
================================================================================
