-------------------------------- MODULE Logging --------------------------------
(***************************************************************************)
(* What happens to one LOG statement: easylog++.h makes it a CLOG to the   *)
(* loggers "default" and "fileLogger".  The Writer locks the first logger, *)
(* collects the message in the logger's stream, dispatches it under the    *)
(* storage's lock to the file of its level, which is rolled over when it   *)
(* is full, and goes on to "fileLogger", which nobody registers: that      *)
(* costs a notice at level debug.  configParams.cpp names rolled files.    *)
(***************************************************************************)
EXTENDS Integers, Sequences

CONSTANTS
  Threads,
  Levels,          \* the levels the program logs at, with "debug"
  Enabled,         \* the levels switched on, each with a file of its own
  MaxLogFileSize,  \* in lines
  FlushThreshold,
  MaxMessages,     \* bound on LOG statements
  MaxRestarts      \* bound on restarts of the process within the hour

ASSUME LevelsAssumption == Enabled \subseteq Levels /\ "debug" \in Levels
ASSUME SizesAssumption ==
  /\ MaxLogFileSize \in Nat \ {0} /\ FlushThreshold \in Nat \ {0}
  /\ MaxMessages \in Nat /\ MaxRestarts \in Nat

Current == -1  \* the suffix of the file being written
Nobody == "nobody"

ASSUME ThreadsAssumption == Nobody \notin Threads

VARIABLES
  disk,        \* disk[l]: the files of level l, by suffix
  buffer,      \* buffer[l]: the lines not yet handed to the system
  unflushed,   \* m_unflushedCount
  logIndex,    \* s_mlogIndex, Current for a file that is not in it
  written,     \* written[l]: the lines dispatched by this process, in order
  stream,      \* the stream of the logger "default"
  logger,      \* the thread that holds the lock of the logger "default"
  storage,     \* the thread that holds the lock of the storage
  pc, level, message, \* the LOG statement each thread is in
  text,        \* "statement", or "notice" at the one about "fileLogger"
  count, restarts

disks == <<disk, buffer, unflushed, logIndex, written>>
locks == <<logger, storage>>
locals == <<level, message, text>>
vars == <<disks, stream, locks, pc, locals, count, restarts>>

Init ==
  /\ disk = [l \in Enabled |-> [n \in {Current} |-> <<>>]]
  /\ buffer = [l \in Enabled |-> <<>>] /\ unflushed = [l \in Enabled |-> 0]
  /\ logIndex = [l \in Enabled |-> Current] /\ written = [l \in Enabled |-> <<>>]
  /\ stream = <<>> /\ logger = Nobody /\ storage = Nobody
  /\ pc = [t \in Threads |-> "out"] /\ level = [t \in Threads |-> "debug"]
  /\ message = [t \in Threads |-> 0] /\ text = [t \in Threads |-> "statement"]
  /\ count = 0 /\ restarts = 0

Goto(t, to) == pc' = [pc EXCEPT ![t] = to]

-----------------------------------------------------------------------------
(* Writer: construct and <<. *)

Log(t, l) ==
  /\ pc[t] = "out" /\ count < MaxMessages
  /\ count' = count + 1
  /\ message' = [message EXCEPT ![t] = count'] /\ level' = [level EXCEPT ![t] = l]
  /\ text' = [text EXCEPT ![t] = "statement"]
  /\ Goto(t, "lock")
  /\ UNCHANGED <<disks, stream, locks, restarts>>

\* Mutant: the logger is not locked while the message is collected.
InitializeUnlocked(t) ==
  /\ pc[t] = "lock"
  /\ Goto(t, IF level[t] \in Enabled THEN "stream" ELSE "release")
  /\ UNCHANGED <<disks, stream, locks, locals, count, restarts>>

\* The lock is taken before the level is looked at.
InitializeLogger(t) ==
  /\ pc[t] = "lock" /\ logger = Nobody
  /\ logger' = t
  /\ Goto(t, IF level[t] \in Enabled THEN "stream" ELSE "release")
  /\ UNCHANGED <<disks, stream, storage, locals, count, restarts>>

\* A statement writes to the stream piece by piece: two pieces here.
Stream(t) ==
  /\ pc[t] \in {"stream", "more"}
  /\ stream' = Append(stream, <<message[t], text[t]>>)
  /\ Goto(t, IF pc[t] = "stream" THEN "more" ELSE "dispatch")
  /\ UNCHANGED <<disks, locks, locals, count, restarts>>

-----------------------------------------------------------------------------
(* LogDispatcher::dispatch, under the storage's lock. *)

LockStorage(t) ==
  /\ pc[t] = "dispatch" /\ storage = Nobody
  /\ storage' = t
  /\ Goto(t, "roll")
  /\ UNCHANGED <<disks, stream, logger, locals, count, restarts>>

\* Reading the size of a file seeks to its end, which hands over the buffer.
Handed(l) == disk[l][Current] \o buffer[l]

\* rolloutHandler: the suffix that is used, and the indexes that may be kept.
\* s_mlogIndex[f] = iter->second++ is unsequenced in C++11: the old value or
\* the new one stays.
Suffix(l) == IF logIndex[l] = Current THEN 0 ELSE logIndex[l]

\* The files of a level are closed, the current one is renamed, whatever is
\* there under the new name, and begun again.
Rolled(l) ==
  [n \in DOMAIN disk[l] \cup {Suffix(l)} |->
     CASE n = Current -> <<>> [] n = Suffix(l) -> Handed(l) [] OTHER -> disk[l][n]]

\* Mutant: the index stays what it was.
KeepIndex(l) == {Suffix(l)}

NextIndexes(l) == IF logIndex[l] = Current THEN {0} ELSE {logIndex[l] + 1, logIndex[l] + 2}

ValidateFileRolling(t) ==
  LET l == level[t] IN
  /\ pc[t] = "roll"
  /\ buffer' = [buffer EXCEPT ![l] = <<>>]
  /\ IF Len(Handed(l)) >= MaxLogFileSize
     THEN /\ disk' = [disk EXCEPT ![l] = Rolled(l)]
          /\ \E i \in NextIndexes(l) : logIndex' = [logIndex EXCEPT ![l] = i]
     ELSE /\ disk' = [disk EXCEPT ![l][Current] = Handed(l)]
          /\ UNCHANGED logIndex
  /\ Goto(t, "write")
  /\ UNCHANGED <<unflushed, written, stream, locks, locals, count, restarts>>

\* DefaultLogDispatchCallback::dispatch, with the flush every so many lines.
Write(t) ==
  LET l == level[t] IN
  /\ pc[t] = "write"
  /\ IF unflushed[l] + 1 >= FlushThreshold
     THEN /\ disk' = [disk EXCEPT ![l][Current] = Append(@ \o buffer[l], stream)]
          /\ buffer' = [buffer EXCEPT ![l] = <<>>]
          /\ unflushed' = [unflushed EXCEPT ![l] = 0]
     ELSE /\ buffer' = [buffer EXCEPT ![l] = Append(@, stream)]
          /\ unflushed' = [unflushed EXCEPT ![l] = @ + 1]
          /\ UNCHANGED disk
  /\ written' = [written EXCEPT ![l] = Append(@, stream)]
  /\ Goto(t, "release")
  /\ UNCHANGED <<logIndex, stream, locks, locals, count, restarts>>

\* Mutant: a level that is off leaves the lock taken.
ReleaseEnabled(t) ==
  /\ pc[t] = "release"
  /\ storage' = IF storage = t THEN Nobody ELSE storage
  /\ stream' = <<>> /\ logger' = IF level[t] \in Enabled THEN Nobody ELSE logger
  /\ Goto(t, IF text[t] = "notice" THEN "out" ELSE "lookup")
  /\ UNCHANGED <<disks, locals, count, restarts>>

\* The stream is emptied and both locks are given back; the next logger of the
\* statement is looked up, and a notice has no second one.
Release(t) ==
  /\ pc[t] = "release"
  /\ storage' = IF storage = t THEN Nobody ELSE storage
  /\ stream' = <<>> /\ logger' = Nobody
  /\ Goto(t, IF text[t] = "notice" THEN "out" ELSE "lookup")
  /\ UNCHANGED <<disks, locals, count, restarts>>

\* "fileLogger" is not there.  The storage is locked to see that "default" is,
\* and a Writer of its own tells so at level debug.
NotRegistered(t) ==
  /\ pc[t] = "lookup" /\ storage = Nobody
  /\ text' = [text EXCEPT ![t] = "notice"] /\ level' = [level EXCEPT ![t] = "debug"]
  /\ Goto(t, "lock")
  /\ UNCHANGED <<disks, stream, locks, message, count, restarts>>

-----------------------------------------------------------------------------
\* The process ends at any point and is started again: what was buffered and
\* the indexes are gone, the files of the hour are appended to.
Restart ==
  /\ restarts < MaxRestarts /\ restarts' = restarts + 1
  /\ buffer' = [l \in Enabled |-> <<>>] /\ unflushed' = [l \in Enabled |-> 0]
  /\ logIndex' = [l \in Enabled |-> Current]
  /\ stream' = <<>> /\ logger' = Nobody /\ storage' = Nobody
  /\ pc' = [t \in Threads |-> "out"]
  /\ written' = [l \in Enabled |-> <<>>]
  /\ UNCHANGED <<disk, locals, count>>

Step(t) ==
  \/ InitializeLogger(t) \/ Stream(t) \/ LockStorage(t) \/ ValidateFileRolling(t)
  \/ Write(t) \/ Release(t) \/ NotRegistered(t)

Next ==
  \/ \E t \in Threads : (\E l \in Levels : Log(t, l)) \/ Step(t)
  \/ Restart

Spec == Init /\ [][Next]_vars

\* Threads keep running.
FairSpec == Spec /\ \A t \in Threads : WF_vars(Step(t))

-----------------------------------------------------------------------------
(* Properties. *)

Lines == UNION {UNION {{<<l, n, i>> : i \in DOMAIN disk[l][n]} : n \in DOMAIN disk[l]} : l \in Enabled}
Line(p) == disk[p[1]][p[2]][p[3]]

\* Each line in a file is the whole of one message and of nothing else, and
\* no message is in two lines, whatever threads log at once.
WholeLines ==
  /\ \A p \in Lines : Len(Line(p)) = 2 /\ Line(p)[1] = Line(p)[2]
  /\ \A p, q \in Lines : Line(p) = Line(q) => p = q

\* The file of level l with suffix n, once what is buffered for it is handed
\* over.
Content(l, n) == IF n = Current THEN Handed(l) ELSE disk[l][n]

\* Line i of file m comes before line j of file n when the rolled files are
\* read by suffix and the current one after them.
Before(m, i, n, j) == IF m = n THEN i < j ELSE m # Current /\ (n = Current \/ m < n)

\* Line i of file n is the log's line x.
IsLine(l, n, i, x) == x \in DOMAIN written[l] /\ written[l][x] = Content(l, n)[i]

\* Within one process a level's files, read by suffix, are its log without its
\* beginning, and only the first file can be missing: the second roll is named
\* .0 again, and no later roll meets a file that is there.
OnlyTheFirstRollIsLost ==
  restarts = 0 => \A l \in Enabled :
    /\ \A n \in DOMAIN disk[l] : \A i \in DOMAIN Content(l, n) :
         \E x \in DOMAIN written[l] : IsLine(l, n, i, x)
    /\ \A m, n \in DOMAIN disk[l] : \A i \in DOMAIN Content(l, m), j \in DOMAIN Content(l, n) :
         Before(m, i, n, j) => \E x, y \in DOMAIN written[l] : x < y /\ IsLine(l, m, i, x) /\ IsLine(l, n, j, y)
    /\ \A x \in DOMAIN written[l] :
         \/ \E n \in DOMAIN disk[l] : \E i \in DOMAIN Content(l, n) : IsLine(l, n, i, x)
         \/ /\ x <= MaxLogFileSize
            /\ \A n \in DOMAIN disk[l] : \A i \in DOMAIN Content(l, n) :
                 \E y \in DOMAIN written[l] : x < y /\ IsLine(l, n, i, y)

\* A LOG statement comes back, unless the process ends before.
LogReturns == \A t \in Threads : pc[t] = "lock" ~> pc[t] = "out"
=============================================================================
