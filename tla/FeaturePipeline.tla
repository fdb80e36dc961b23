---------------------------- MODULE FeaturePipeline ----------------------------
(***************************************************************************)
(* The feature extraction program of test/cpp/rest: the main thread reads  *)
(* photos into procQueue, the caffe threads take them, detect, and push    *)
(* into writeQueue, the writer thread numbers what arrives and fills files *)
(* of featuresPerFile vectors.  Handler::shutdown polls until both queues  *)
(* look empty and then sends one SHUTDOWN message down the pipeline.       *)
(*                                                                         *)
(* The two queues are dev::BlockingQueues, here the bounded FIFO queues    *)
(* that module BQueue shows them to be; size() alone is read without the   *)
(* mutex, one index after the other.                                       *)
(***************************************************************************)
EXTENDS Naturals, Sequences, FiniteSets

CONSTANTS
  Caffe,            \* the detectPoolSize threads of CaffePool
  Photos,           \* the photos of the list that can be read, in any order
  QueueFactor,      \* Handler::queueFactor (40 in the code)
  FeaturesPerFile,  \* vectors per .fmem file
  Offset,           \* the id offset given on the command line
  WriteTypes,       \* subset of {"file", "redis", "other"}: the number given
                    \* on the command line is taken as it is
  SHUTDOWN, NoMsg   \* the shutdown message; nothing in hand

ASSUME SizesAssumption ==
  /\ IsFiniteSet(Caffe) /\ Caffe # {}
  /\ QueueFactor \in Nat \ {0} /\ FeaturesPerFile \in Nat \ {0} /\ Offset \in Nat
ASSUME MessagesAssumption == SHUTDOWN \notin Photos /\ NoMsg \notin Photos /\ SHUTDOWN # NoMsg

\* Capacities of the two rings; a ring holds one message less.
ProcCapacity == Cardinality(Caffe) * QueueFactor
WriteCapacity == Cardinality(Caffe) * QueueFactor * 2

VARIABLES
  main,         \* where the main thread is
  unread,       \* photos main has not submitted
  procQueue, writeQueue,
  writeHead,    \* head index of writeQueue
  seen,         \* the index of writeQueue that size() has read first
  caffe, hand,  \* where each caffe thread is, and the message it holds;
                \* "absent": the thread could not be created
  caffeDone,    \* CaffePool::done
  writer,       \* where the writer thread is; "absent": it was not created, or
                \* has returned at once for a writeType it does not know
  writeType,    \* WRITE_INTO_FILE, WRITE_INTO_REDIS or another number
  offset,       \* Writer::offset
  id, num,      \* locals of writeFile
  files,        \* the files written: header [num, first] and ids
  written,      \* the names of id_name_list, or the faces added to redis
  undetected    \* photos dropped because detection failed

pool == <<caffe, hand, caffeDone, undetected>>
mains == <<main, unread, seen>>
output == <<writer, writeType, id, num, files, written>>
vars == <<pool, mains, output, procQueue, writeQueue, writeHead, offset>>

\* A thread that cannot be created is only reported: the pool, or the writer,
\* goes on without it.
CreatePool == caffe \in [Caffe -> {"loop", "absent"}]
CreateWriter == writer \in {"start", "absent"}

Init ==
  /\ main = "built" /\ unread = Photos /\ seen = [index |-> "none", at |-> 0]
  /\ procQueue = <<>> /\ writeQueue = <<>> /\ writeHead = 0
  /\ CreatePool /\ hand = [c \in Caffe |-> NoMsg]
  /\ caffeDone = FALSE /\ undetected = {}
  /\ CreateWriter /\ writeType \in WriteTypes /\ offset = 0
  /\ id = 0 /\ num = 0 /\ files = <<>> /\ written = <<>>

-----------------------------------------------------------------------------
(* The main thread. *)

\* The Handler exists and with it the writer thread; only now main passes on
\* the offset.
SetWriterOffset ==
  /\ main = "built"
  /\ offset' = Offset
  /\ main' = "submit"
  /\ UNCHANGED <<unread, seen, pool, output, procQueue, writeQueue, writeHead>>

GetFeature(p) ==
  /\ main = "submit" /\ p \in unread
  /\ Len(procQueue) + 1 < ProcCapacity
  /\ procQueue' = Append(procQueue, p)
  /\ unread' = unread \ {p}
  /\ UNCHANGED <<main, seen, pool, output, writeQueue, writeHead, offset>>

\* cv::imread fails: the photo is skipped.
Unreadable(p) ==
  /\ main = "submit" /\ p \in unread
  /\ unread' = unread \ {p}
  /\ UNCHANGED <<main, seen, pool, output, procQueue, writeQueue, writeHead, offset>>

ListEnds ==
  /\ main = "submit" /\ unread = {}
  /\ main' = "poll"
  /\ UNCHANGED <<unread, seen, pool, output, procQueue, writeQueue, writeHead, offset>>

\* procQueue.size(): nobody but main moves its tail, so the test is as good as
\* atomic.
PollProcQueue ==
  /\ main = "poll"
  /\ procQueue = <<>>
  /\ main' = "pollWrite"
  /\ UNCHANGED <<unread, seen, pool, output, procQueue, writeQueue, writeHead, offset>>

WriteIndex == [head |-> writeHead, tail |-> (writeHead + Len(writeQueue)) % WriteCapacity]

\* writeQueue.size() reads its two indexes, in either order, while the pool
\* pushes and the writer takes.
ReadFirstIndex ==
  /\ main = "pollWrite" /\ seen.index = "none"
  /\ \E i \in {"head", "tail"} : seen' = [index |-> i, at |-> WriteIndex[i]]
  /\ UNCHANGED <<main, unread, pool, output, procQueue, writeQueue, writeHead, offset>>

ReadSecondIndex ==
  /\ main = "pollWrite" /\ seen.index # "none"
  /\ \E i \in {"head", "tail"} \ {seen.index} :
       main' = IF WriteIndex[i] = seen.at THEN "send" ELSE "poll"
  /\ seen' = [index |-> "none", at |-> 0]
  /\ UNCHANGED <<unread, pool, output, procQueue, writeQueue, writeHead, offset>>

\* Mutant: the message is sent to the writer directly.
SendToWriter ==
  /\ main = "send"
  /\ Len(writeQueue) + 1 < WriteCapacity
  /\ writeQueue' = Append(writeQueue, SHUTDOWN)
  /\ main' = "joinPool"
  /\ UNCHANGED <<unread, seen, pool, output, procQueue, writeHead, offset>>

SendShutdown ==
  /\ main = "send"
  /\ Len(procQueue) + 1 < ProcCapacity
  /\ procQueue' = Append(procQueue, SHUTDOWN)
  /\ main' = "joinPool"
  /\ UNCHANGED <<unread, seen, pool, output, writeQueue, writeHead, offset>>

JoinPool ==
  /\ main = "joinPool" /\ \A c \in Caffe : caffe[c] \in {"ended", "absent"}
  /\ main' = "joinWriter"
  /\ UNCHANGED <<unread, seen, pool, output, procQueue, writeQueue, writeHead, offset>>

JoinWriter ==
  /\ main = "joinWriter" /\ writer \in {"ended", "absent"}
  /\ main' = "done"
  /\ UNCHANGED <<unread, seen, pool, output, procQueue, writeQueue, writeHead, offset>>

-----------------------------------------------------------------------------
(* A caffe thread: while (!done) { tryGet, detect, push }. *)

Goto(c, to) == caffe' = [caffe EXCEPT ![c] = to]

\* Mutant: only the thread that took the SHUTDOWN message stops.
TestOwnDone(c) ==
  /\ caffe[c] = "loop"
  /\ Goto(c, IF hand[c] = SHUTDOWN THEN "ended" ELSE "tryGet")
  /\ UNCHANGED <<hand, caffeDone, undetected, mains, output, procQueue, writeQueue, writeHead, offset>>

TestDone(c) ==
  /\ caffe[c] = "loop"
  /\ Goto(c, IF caffeDone THEN "ended" ELSE "tryGet")
  /\ UNCHANGED <<hand, caffeDone, undetected, mains, output, procQueue, writeQueue, writeHead, offset>>

TryGet(c) ==
  /\ caffe[c] = "tryGet"
  /\ procQueue # <<>>
  /\ hand' = [hand EXCEPT ![c] = Head(procQueue)]
  /\ procQueue' = Tail(procQueue)
  /\ Goto(c, "detect")
  /\ UNCHANGED <<caffeDone, undetected, mains, output, writeQueue, writeHead, offset>>

\* Thirty milliseconds without a message.
TryGetFails(c) ==
  /\ caffe[c] = "tryGet"
  /\ procQueue = <<>>
  /\ Goto(c, "loop")
  /\ UNCHANGED <<hand, caffeDone, undetected, mains, output, procQueue, writeQueue, writeHead, offset>>

TakeShutdown(c) ==
  /\ caffe[c] = "detect" /\ hand[c] = SHUTDOWN
  /\ caffeDone' = TRUE
  /\ Goto(c, "push")
  /\ UNCHANGED <<hand, undetected, mains, output, procQueue, writeQueue, writeHead, offset>>

Detect(c) ==
  /\ caffe[c] = "detect" /\ hand[c] # SHUTDOWN
  /\ \/ Goto(c, "push") /\ UNCHANGED undetected
     \/ Goto(c, "loop") /\ undetected' = undetected \cup {hand[c]}
  /\ UNCHANGED <<hand, caffeDone, mains, output, procQueue, writeQueue, writeHead, offset>>

PushResult(c) ==
  /\ caffe[c] = "push"
  /\ Len(writeQueue) + 1 < WriteCapacity
  /\ writeQueue' = Append(writeQueue, hand[c])
  /\ Goto(c, "loop")
  /\ UNCHANGED <<hand, caffeDone, undetected, mains, output, procQueue, writeHead, offset>>

-----------------------------------------------------------------------------
(* The writer thread. *)

OpenFile(first) == [num |-> FeaturesPerFile, first |-> first, ids |-> <<>>, open |-> TRUE]

\* writeFile or writeRedis; any other writeType ends the thread.
DoWork == IF writeType = "other" THEN "absent" ELSE "loop"

\* writeFile reads offset once, before its loop.
WriterStarts ==
  /\ writer = "start"
  /\ writer' = DoWork
  /\ IF writeType = "file"
       THEN id' = offset /\ files' = <<OpenFile(offset)>>
       ELSE UNCHANGED <<id, files>>
  /\ UNCHANGED <<writeType, num, written, mains, pool, procQueue, writeQueue, writeHead, offset>>

\* Mutant: the message stays in the queue.
DequeueCopy ==
  /\ writer = "loop" /\ writeQueue # <<>>
  /\ UNCHANGED writeQueue
  /\ writeHead' = (writeHead + 1) % WriteCapacity

Dequeue ==
  /\ writer = "loop" /\ writeQueue # <<>>
  /\ writeQueue' = Tail(writeQueue)
  /\ writeHead' = (writeHead + 1) % WriteCapacity

Filled == [files EXCEPT ![Len(files)].ids = Append(@, id)]

\* After the vector that fills it the file is closed and the next one opened.
CountVector ==
  LET n == num + 1 IN
    IF n # FeaturesPerFile THEN num' = n /\ files' = Filled
    ELSE num' = 0 /\ files' = Append([Filled EXCEPT ![Len(files)].open = FALSE], OpenFile(id + 1))

WritePhoto ==
  /\ Dequeue
  /\ Head(writeQueue) # SHUTDOWN
  /\ written' = Append(written, Head(writeQueue))
  /\ IF writeType = "file" THEN id' = id + 1 /\ CountVector ELSE UNCHANGED <<id, num, files>>
  /\ UNCHANGED <<writer, writeType, mains, pool, procQueue, offset>>

\* SHUTDOWN: the header of the last file is corrected and the file closed.
WriterStops ==
  /\ Dequeue
  /\ Head(writeQueue) = SHUTDOWN
  /\ writer' = "ended"
  /\ files' = IF writeType # "file" THEN files
              ELSE [files EXCEPT ![Len(files)].num = num, ![Len(files)].first = id - num,
                                 ![Len(files)].open = FALSE]
  /\ UNCHANGED <<writeType, id, num, written, mains, pool, procQueue, offset>>

-----------------------------------------------------------------------------
MainStep ==
  \/ SetWriterOffset \/ ListEnds \/ PollProcQueue \/ ReadFirstIndex \/ ReadSecondIndex
  \/ SendShutdown \/ JoinPool \/ JoinWriter
  \/ \E p \in Photos : GetFeature(p) \/ Unreadable(p)
CaffeStep(c) ==
  \/ TestDone(c) \/ TryGet(c) \/ TryGetFails(c) \/ TakeShutdown(c) \/ Detect(c) \/ PushResult(c)
WriterStep == WriterStarts \/ WritePhoto \/ WriterStops

Next == MainStep \/ (\E c \in Caffe : CaffeStep(c)) \/ WriterStep
Spec == Init /\ [][Next]_vars

\* Every thread keeps running; the calls it makes return.
FairSpec ==
  /\ Spec
  /\ WF_vars(MainStep) /\ WF_vars(WriterStep)
  /\ \A c \in Caffe : WF_vars(CaffeStep(c))

-----------------------------------------------------------------------------
(* Properties. *)

IsDone(p) == p \in undetected \/ \E i \in DOMAIN written : written[i] = p
Waiting(q) == {q[i] : i \in DOMAIN q} \ {SHUTDOWN}

\* A photo is written at most once, and one still on its way (in a queue or
\* in the hands of a caffe thread) has not been written.
WrittenOnce ==
  /\ \A i, j \in DOMAIN written : written[i] = written[j] => i = j
  /\ \A p \in Waiting(procQueue) \cup Waiting(writeQueue) : ~ IsDone(p)

\* The polling shutdown may lose photos, but once the writer has taken the
\* SHUTDOWN message never more than the caffe threads other than the one that
\* took it first can hold.  (A writer that is absent takes none.)
FewPhotosLost ==
  writer = "ended" =>
    Cardinality({p \in Photos : /\ ~ IsDone(p)
                                /\ \/ p \in Waiting(procQueue) \cup Waiting(writeQueue)
                                   \/ \E c \in Caffe : hand[c] = p}) < Cardinality(Caffe)

\* A writer that writes and at least one caffe thread: together they can empty
\* the queues.
Complete ==
  /\ writer # "absent" /\ writeType # "other"
  /\ \E c \in Caffe : caffe[c] # "absent"

\* What Handler::shutdown polls for never comes when the writer is absent and a
\* photo has been pushed: it polls for ever.
PollsForEver ==
  [](main = "poll" /\ writer = "absent" /\ writeQueue # <<>> => [](main \in {"poll", "pollWrite"}))

\* Handler::shutdown returns when the threads that empty the queues exist: one
\* SHUTDOWN message and the shared done stop every caffe thread and the writer,
\* and no push blocks behind a writer that has gone.  Without a writer, which
\* the constructors only report, or for a writeType nobody knows, it never
\* returns once a photo has been pushed.
ShutdownReturns == (main = "poll" /\ Complete ~> main = "done") /\ PollsForEver

=============================================================================
