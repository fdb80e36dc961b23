----------------------------- MODULE LibraryProofs -----------------------------
(***************************************************************************)
(* The two libraries that are compiled into the program.                   *)
(* easylogging++: what is in the log files whatever the threads, the       *)
(* levels and the limits: each line is the whole of one message, and no    *)
(* message is in two lines; and within one process the files of a level    *)
(* are its log, without at most the first of them.                         *)
(* jsoncpp: whatever calls are made of a Json::Value, it is the sequence   *)
(* or the set of members that JsonContainer says.                          *)
(***************************************************************************)
EXTENDS Logging, JsonValue, FiniteSetTheorems, SequenceTheorems, WellFoundedInduction, TLAPS

Texts == {"statement", "notice"}
Pieces == Nat \X Texts
File == Seq(Seq(Pieces))

Begun(m, b) == <<<<m, b>>>>
Whole(m, b) == <<<<m, b>>, <<m, b>>>>

\* The thread is between the lock of the logger and its release.
Holds(t) == pc[t] \in {"stream", "more", "dispatch", "roll", "write", "release"}

FilesOK ==
  /\ disk \in [Enabled -> UNION {[S -> File] : S \in SUBSET (Nat \cup {Current})}]
  /\ \A l \in Enabled : Current \in DOMAIN disk[l]
  /\ buffer \in [Enabled -> File]
  /\ logIndex \in [Enabled -> Nat \cup {Current}]

ThreadsOK ==
  /\ stream \in Seq(Pieces)
  /\ logger \in Threads \cup {Nobody}
  /\ pc \in [Threads -> {"out", "lock", "stream", "more", "dispatch", "roll", "write", "release", "lookup"}]
  /\ level \in [Threads -> Levels]
  /\ message \in [Threads -> Nat]
  /\ text \in [Threads -> Texts]
  /\ count \in Nat

\* The lock of the logger is held from the first piece to the last.
Locked ==
  /\ \A t \in Threads : Holds(t) <=> logger = t
  /\ \A t \in Threads : Holds(t) /\ pc[t] # "release" => level[t] \in Enabled

\* What is in the stream is what its holder has written there.
Streamed ==
  /\ logger = Nobody => stream = <<>>
  /\ \A t \in Threads :
       /\ pc[t] = "stream" => stream = <<>>
       /\ pc[t] = "more" => stream = Begun(message[t], text[t])
       /\ pc[t] \in {"dispatch", "roll", "write"} => stream = Whole(message[t], text[t])

\* Each thread is at a message of its own.
Own ==
  /\ \A t \in Threads : pc[t] # "out" => message[t] \in 1 .. count
  /\ \A t \in Threads : pc[t] = "lookup" => text[t] = "statement"
  /\ \A t, u \in Threads : t # u /\ pc[t] # "out" /\ pc[u] # "out" => message[t] # message[u]

\* A line is of a message that was logged.
EachWhole ==
  \A l \in Enabled : \A n \in DOMAIN disk[l] : \A i \in DOMAIN Content(l, n) :
    \E m \in 1 .. count, b \in Texts : Content(l, n)[i] = Whole(m, b)

\* And no two are of the same.
Once ==
  \A l, k \in Enabled : \A n \in DOMAIN disk[l], o \in DOMAIN disk[k] :
    \A i \in DOMAIN Content(l, n), j \in DOMAIN Content(k, o) :
      Content(l, n)[i] = Content(k, o)[j] => l = k /\ n = o /\ i = j

\* What a thread has not written yet is in no file.
InAFile(m, b) ==
  \E l \in Enabled : \E n \in DOMAIN disk[l] : \E i \in DOMAIN Content(l, n) :
    Content(l, n)[i] = Whole(m, b)

NotYet ==
  \A t \in Threads : pc[t] # "out" =>
    /\ InAFile(message[t], "notice") => text[t] = "notice" /\ pc[t] = "release"
    /\ InAFile(message[t], "statement") => text[t] = "notice" \/ pc[t] \in {"release", "lookup"}

LineInv == FilesOK /\ ThreadsOK /\ Locked /\ Streamed /\ Own /\ EachWhole /\ Once /\ NotYet

-----------------------------------------------------------------------------
(* Sequences. *)

LEMMA ConcatAppend ==
  \A s, r \in File, e \in Seq(Pieces) : Append(s \o r, e) = s \o Append(r, e)
<1>1. PICK S : S = Seq(Pieces)
  OBVIOUS
<1>2. ASSUME NEW s \in Seq(S), NEW r \in Seq(S), NEW e \in S
      PROVE  Append(s \o r, e) = s \o Append(r, e)
  OBVIOUS
<1> QED BY <1>1, <1>2 DEF File

LEMMA AppendAt ==
  \A S : \A s \in Seq(S), e \in S :
    /\ Append(s, e) \in Seq(S) /\ DOMAIN Append(s, e) = DOMAIN s \cup {Len(s) + 1}
    /\ Append(s, e)[Len(s) + 1] = e /\ Len(s) + 1 \notin DOMAIN s
    /\ \A i \in DOMAIN s : Append(s, e)[i] = s[i]
OBVIOUS

LEMMA ConcatFront ==
  \A S : \A s, r \in Seq(S) :
    /\ s \o r \in Seq(S) /\ s \o <<>> = s
    /\ DOMAIN s \subseteq DOMAIN (s \o r) /\ \A i \in DOMAIN s : (s \o r)[i] = s[i]
OBVIOUS

LEMMA PieceByPiece ==
  \A e : Append(<<>>, e) = <<e>> /\ Append(<<e>>, e) = <<e, e>>
<1> SUFFICES ASSUME NEW e PROVE Append(<<>>, e) = <<e>> /\ Append(<<e>>, e) = <<e, e>>
  OBVIOUS
<1>1. <<>> \in Seq({e}) /\ <<e>> \in Seq({e}) /\ <<e, e>> \in Seq({e})
  OBVIOUS
<1>2. Append(<<>>, e) \in Seq({e}) /\ Append(<<e>>, e) \in Seq({e})
  BY <1>1
<1>3. Len(Append(<<e>>, e)) = 2 /\ Append(<<e>>, e)[1] = e /\ Append(<<e>>, e)[2] = e
  BY <1>1
<1>4. Append(<<>>, e) = <<e>>
  OBVIOUS
<1>5. Append(<<e>>, e) = <<e, e>>
  <2> DEFINE s == Append(<<e>>, e)
             r == <<e, e>>
  <2>1. Len(r) = 2 /\ r[1] = e /\ r[2] = e
    OBVIOUS
  <2>2. s \in Seq({e}) /\ r \in Seq({e}) /\ Len(s) = 2 /\ s[1] = e /\ s[2] = e
    BY <1>1, <1>2, <1>3
  <2> HIDE DEF s, r
  <2>3. \A i \in 1 .. Len(s) : s[i] = r[i]
    BY <2>1, <2>2
  <2>4. s = r
    BY <2>1, <2>2, <2>3, SeqEqual
  <2> QED BY <2>4 DEF s, r
<1> QED BY <1>4, <1>5

LEMMA WholeIsOne ==
  \A m, k, b, c : Whole(m, b) = Whole(k, c) => m = k /\ b = c
BY DEF Whole

LEMMA ContentsAreFiles ==
  ASSUME FilesOK
  PROVE  /\ \A l \in Enabled : Handed(l) \in File /\ disk[l][Current] \in File /\ buffer[l] \in File
         /\ \A l \in Enabled : \A n \in DOMAIN disk[l] : Content(l, n) \in File
         /\ \A l \in Enabled : DOMAIN disk[l] \subseteq Nat \cup {Current}
<1>1. \A l \in Enabled : \A n \in DOMAIN disk[l] : disk[l][n] \in File /\ n \in Nat \cup {Current}
  BY DEF FilesOK
<1>2. \A l \in Enabled : disk[l][Current] \in File /\ buffer[l] \in File
  BY <1>1 DEF FilesOK
<1>3. \A l \in Enabled : Handed(l) \in File
  BY <1>2, ConcatFront DEF Handed, File
<1> QED BY <1>1, <1>2, <1>3 DEF Content
-----------------------------------------------------------------------------
(* The lines of the files. *)

\* A step that writes no file.
LEMMA FilesStay ==
  ASSUME UNCHANGED <<disk, buffer, logIndex>>, count \in Nat, count' \in {count, count + 1},
         FilesOK, EachWhole, Once
  PROVE  /\ FilesOK' /\ EachWhole' /\ Once'
         /\ \A m : (InAFile(m, "notice")' <=> InAFile(m, "notice")) /\ (InAFile(m, "statement")' <=> InAFile(m, "statement"))
<1>1. \A l \in Enabled : disk'[l] = disk[l] /\ \A n : Content(l, n)' = Content(l, n)
  BY DEF Content, Handed
<1>2. FilesOK' /\ Once'
  BY <1>1 DEF FilesOK, Once
<1>3. EachWhole'
  BY <1>1 DEF EachWhole
<1>4. \A m : (InAFile(m, "notice")' <=> InAFile(m, "notice")) /\ (InAFile(m, "statement")' <=> InAFile(m, "statement"))
  <2>1. ASSUME NEW m PROVE (InAFile(m, "notice")' <=> InAFile(m, "notice")) /\ (InAFile(m, "statement")' <=> InAFile(m, "statement"))
    BY <1>1 DEF InAFile
  <2> QED BY <2>1
<1> QED BY <1>2, <1>3, <1>4

\* The messages in the files have been logged.
LEMMA WrittenWereLogged ==
  ASSUME EachWhole
  PROVE  \A m : InAFile(m, "notice") \/ InAFile(m, "statement") => m \in 1 .. count
<1> SUFFICES ASSUME NEW m, InAFile(m, "notice") \/ InAFile(m, "statement")
             PROVE  m \in 1 .. count
  OBVIOUS
<1>1. PICK l \in Enabled : \E n \in DOMAIN disk[l] : \E i \in DOMAIN Content(l, n) :
        Content(l, n)[i] = Whole(m, "notice") \/ Content(l, n)[i] = Whole(m, "statement")
  BY DEF InAFile
<1>2. PICK n \in DOMAIN disk[l] : \E i \in DOMAIN Content(l, n) :
        Content(l, n)[i] = Whole(m, "notice") \/ Content(l, n)[i] = Whole(m, "statement")
  BY <1>1
<1>3. PICK i \in DOMAIN Content(l, n) :
        Content(l, n)[i] = Whole(m, "notice") \/ Content(l, n)[i] = Whole(m, "statement")
  BY <1>2
<1>4. PICK k \in 1 .. count, b \in Texts : Content(l, n)[i] = Whole(k, b)
  BY DEF EachWhole
<1> QED BY <1>3, <1>4, WholeIsOne

-----------------------------------------------------------------------------
(* The steps. *)

LEMMA LineInvInit == Init => LineInv
<1> SUFFICES ASSUME Init PROVE LineInv
  OBVIOUS
<1>1. \A l \in Enabled : disk[l] = [n \in {Current} |-> <<>>] /\ buffer[l] = <<>>
  BY DEF Init
<1>2. \A l \in Enabled : \A n \in DOMAIN disk[l] : Content(l, n) = <<>>
  BY <1>1 DEF Content, Handed
<1>3. [n \in {Current} |-> <<>>] \in [{Current} -> File] /\ {Current} \subseteq Nat \cup {Current} /\ <<>> \in File
  BY DEF File
<1>4. FilesOK
  <2>1. disk \in [Enabled -> UNION {[S -> File] : S \in SUBSET (Nat \cup {Current})}]
    BY <1>3 DEF Init
  <2>2. buffer \in [Enabled -> File] /\ logIndex \in [Enabled -> Nat \cup {Current}]
    BY <1>3 DEF Init
  <2> QED BY <1>1, <2>1, <2>2 DEF FilesOK
<1>5. ThreadsOK
  BY LevelsAssumption DEF Init, ThreadsOK, Texts
<1>6. Locked /\ Streamed /\ Own
  BY ThreadsAssumption DEF Init, Locked, Holds, Streamed, Own
<1>7. EachWhole /\ Once /\ NotYet
  BY <1>2 DEF Init, EachWhole, Once, NotYet
<1> QED BY <1>4, <1>5, <1>6, <1>7 DEF LineInv

LEMMA LogStep ==
  ASSUME LineInv, NEW t \in Threads, NEW l \in Levels, Log(t, l)
  PROVE  LineInv'
<1> USE DEF LineInv, Log, Goto
<1>1. ThreadsOK'
  BY DEF ThreadsOK, Texts, locks
<1>2. Locked' /\ Streamed'
  BY DEF ThreadsOK, Locked, Streamed, Holds, locks
<1>3. Own'
  BY DEF ThreadsOK, Own
<1>4. /\ FilesOK' /\ EachWhole' /\ Once'
      /\ \A m : (InAFile(m, "notice")' <=> InAFile(m, "notice")) /\ (InAFile(m, "statement")' <=> InAFile(m, "statement"))
  BY FilesStay DEF disks, ThreadsOK
<1>5. NotYet'
  <2>1. PICK m : m = count + 1 /\ m \notin 1 .. count
    BY DEF ThreadsOK
  <2>2. message'[t] = m
    BY <2>1 DEF ThreadsOK
  <2>3. ~InAFile(m, "notice")' /\ ~InAFile(m, "statement")'
    BY <1>4, <2>1, WrittenWereLogged
  <2>4. \A u \in Threads \ {t} : message'[u] = message[u] /\ text'[u] = text[u] /\ pc'[u] = pc[u]
    BY DEF ThreadsOK
  <2> QED BY <1>4, <2>2, <2>3, <2>4 DEF NotYet
<1> QED BY <1>1, <1>2, <1>3, <1>4, <1>5

LEMMA InitializeLoggerStep ==
  ASSUME LineInv, NEW t \in Threads, InitializeLogger(t)
  PROVE  LineInv'
<1> USE DEF LineInv, InitializeLogger, Goto
<1>1. ThreadsOK'
  BY DEF ThreadsOK, locals
<1>2. Locked' /\ Streamed'
  BY ThreadsAssumption DEF ThreadsOK, Locked, Streamed, Holds, locals
<1>3. Own'
  BY DEF ThreadsOK, Own, locals
<1>4. /\ FilesOK' /\ EachWhole' /\ Once'
      /\ \A m : (InAFile(m, "notice")' <=> InAFile(m, "notice")) /\ (InAFile(m, "statement")' <=> InAFile(m, "statement"))
  BY FilesStay DEF disks, ThreadsOK
<1>5. NotYet'
  BY <1>4 DEF NotYet, ThreadsOK, locals
<1> QED BY <1>1, <1>2, <1>3, <1>4, <1>5

LEMMA LockStorageStep ==
  ASSUME LineInv, NEW t \in Threads, LockStorage(t)
  PROVE  LineInv'
<1> USE DEF LineInv, LockStorage, Goto
<1>1. ThreadsOK'
  BY DEF ThreadsOK, locals
<1>2. Locked' /\ Streamed'
  BY ThreadsAssumption DEF ThreadsOK, Locked, Streamed, Holds, locals
<1>3. Own'
  BY DEF ThreadsOK, Own, locals
<1>4. /\ FilesOK' /\ EachWhole' /\ Once'
      /\ \A m : (InAFile(m, "notice")' <=> InAFile(m, "notice")) /\ (InAFile(m, "statement")' <=> InAFile(m, "statement"))
  BY FilesStay DEF disks, ThreadsOK
<1>5. NotYet'
  BY <1>4 DEF NotYet, ThreadsOK, locals
<1> QED BY <1>1, <1>2, <1>3, <1>4, <1>5

LEMMA ReleaseStep ==
  ASSUME LineInv, NEW t \in Threads, Release(t)
  PROVE  LineInv'
<1> USE DEF LineInv, Release, Goto
<1>1. ThreadsOK'
  BY DEF ThreadsOK, locals
<1>2. Locked' /\ Streamed'
  BY ThreadsAssumption DEF ThreadsOK, Locked, Streamed, Holds, locals
<1>3. Own'
  BY DEF ThreadsOK, Own, Texts, locals
<1>4. /\ FilesOK' /\ EachWhole' /\ Once'
      /\ \A m : (InAFile(m, "notice")' <=> InAFile(m, "notice")) /\ (InAFile(m, "statement")' <=> InAFile(m, "statement"))
  BY FilesStay DEF disks, ThreadsOK
<1>5. NotYet'
  BY <1>4 DEF NotYet, ThreadsOK, locals
<1> QED BY <1>1, <1>2, <1>3, <1>4, <1>5

LEMMA NotRegisteredStep ==
  ASSUME LineInv, NEW t \in Threads, NotRegistered(t)
  PROVE  LineInv'
<1> USE DEF LineInv, NotRegistered, Goto
<1>1. ThreadsOK'
  BY LevelsAssumption DEF ThreadsOK, locks, Texts
<1>2. Locked' /\ Streamed'
  BY ThreadsAssumption DEF ThreadsOK, Locked, Streamed, Holds, locks
<1>3. Own'
  BY DEF ThreadsOK, Own
<1>4. /\ FilesOK' /\ EachWhole' /\ Once'
      /\ \A m : (InAFile(m, "notice")' <=> InAFile(m, "notice")) /\ (InAFile(m, "statement")' <=> InAFile(m, "statement"))
  BY FilesStay DEF disks, ThreadsOK
<1>5. NotYet'
  BY <1>4 DEF NotYet, Own, ThreadsOK
<1> QED BY <1>1, <1>2, <1>3, <1>4, <1>5

LEMMA StreamStep ==
  ASSUME LineInv, NEW t \in Threads, Stream(t)
  PROVE  LineInv'
<1> USE DEF LineInv, Stream, Goto
<1>1. <<message[t], text[t]>> \in Pieces
  BY DEF ThreadsOK, Pieces
<1>2. ThreadsOK'
  BY <1>1 DEF ThreadsOK, locals, locks
<1>3. Locked' /\ Own'
  BY DEF ThreadsOK, locals, locks, Locked, Holds, Own
<1>4. \A u \in Threads : Holds(u) => u = t
  BY DEF Locked, Holds
<1>5. Streamed'
  <2>1. logger' = t /\ t # Nobody
    BY ThreadsAssumption DEF Locked, Holds, locks
  <2>2. \A u \in Threads : u # t => pc'[u] \notin {"stream", "more", "dispatch", "roll", "write"}
    BY <1>4 DEF ThreadsOK, Holds
  <2>3. pc'[t] = IF pc[t] = "stream" THEN "more" ELSE "dispatch"
    BY DEF ThreadsOK
  <2>4. CASE pc[t] = "stream"
    <3>1. stream' = Begun(message[t], text[t])
      BY <2>4, PieceByPiece DEF Streamed, Begun
    <3> QED BY <2>1, <2>2, <2>3, <2>4, <3>1 DEF locals, Streamed
  <2>5. CASE pc[t] = "more"
    <3>1. stream' = Whole(message[t], text[t])
      BY <2>5, PieceByPiece DEF Streamed, Begun, Whole
    <3> QED BY <2>1, <2>2, <2>3, <2>5, <3>1 DEF locals, Streamed
  <2> QED BY <2>4, <2>5
<1>6. /\ FilesOK' /\ EachWhole' /\ Once'
      /\ \A m : (InAFile(m, "notice")' <=> InAFile(m, "notice")) /\ (InAFile(m, "statement")' <=> InAFile(m, "statement"))
  BY FilesStay DEF disks, ThreadsOK
<1>7. NotYet'
  BY <1>6 DEF NotYet, ThreadsOK, locals
<1> QED BY <1>2, <1>3, <1>5, <1>6, <1>7
-----------------------------------------------------------------------------
(* The steps that write files. *)

\* Lines that come from the files there were, no two from the same place:
\* from[<<l, n>>] is the suffix the lines of suffix n had.
LEMMA LinesMove ==
  ASSUME EachWhole, Once, count' = count, NEW from,
         \A l \in Enabled : \A n \in DOMAIN disk'[l] : \A i \in DOMAIN Content(l, n)' :
           /\ from[<<l, n>>] \in DOMAIN disk[l] /\ i \in DOMAIN Content(l, from[<<l, n>>])
           /\ Content(l, n)'[i] = Content(l, from[<<l, n>>])[i],
         \A l \in Enabled : \A n, o \in DOMAIN disk'[l] :
           Content(l, n)' # <<>> /\ Content(l, o)' # <<>> /\ from[<<l, n>>] = from[<<l, o>>] => n = o
  PROVE  /\ EachWhole' /\ Once'
         /\ \A m : (InAFile(m, "notice")' => InAFile(m, "notice")) /\ (InAFile(m, "statement")' => InAFile(m, "statement"))
<1>1. EachWhole'
  BY DEF EachWhole
<1>2. Once'
  <2> SUFFICES ASSUME NEW l \in Enabled, NEW k \in Enabled, NEW n \in DOMAIN disk'[l], NEW o \in DOMAIN disk'[k],
                      NEW i \in DOMAIN Content(l, n)', NEW j \in DOMAIN Content(k, o)',
                      Content(l, n)'[i] = Content(k, o)'[j]
               PROVE  l = k /\ n = o /\ i = j
    BY DEF Once
  <2>1. l = k /\ from[<<l, n>>] = from[<<k, o>>] /\ i = j
    BY DEF Once
  <2>2. Content(l, n)' # <<>> /\ Content(k, o)' # <<>>
    OBVIOUS
  <2> QED BY <2>1, <2>2
<1>3. ASSUME NEW m, NEW b, InAFile(m, b)' PROVE InAFile(m, b)
  <2>1. PICK l \in Enabled : \E n \in DOMAIN disk'[l] : \E i \in DOMAIN Content(l, n)' : Content(l, n)'[i] = Whole(m, b)
    BY <1>3 DEF InAFile
  <2>2. PICK n \in DOMAIN disk'[l] : \E i \in DOMAIN Content(l, n)' : Content(l, n)'[i] = Whole(m, b)
    BY <2>1
  <2>3. PICK i \in DOMAIN Content(l, n)' : Content(l, n)'[i] = Whole(m, b)
    BY <2>2
  <2>4. /\ from[<<l, n>>] \in DOMAIN disk[l] /\ i \in DOMAIN Content(l, from[<<l, n>>])
        /\ Content(l, from[<<l, n>>])[i] = Whole(m, b)
    BY <2>3
  <2> QED BY <2>4 DEF InAFile
<1> QED BY <1>1, <1>2, <1>3

\* A step that writes the current file of a level and what is buffered for it.
LEMMA CurrentSet ==
  ASSUME FilesOK, NEW l \in Enabled, NEW f \in File, NEW g \in File,
         disk' = [disk EXCEPT ![l][Current] = f], buffer' = [buffer EXCEPT ![l] = g], logIndex' = logIndex
  PROVE  /\ FilesOK'
         /\ \A k \in Enabled : DOMAIN disk'[k] = DOMAIN disk[k]
         /\ Content(l, Current)' = f \o g
         /\ \A k \in Enabled : \A n \in DOMAIN disk[k] :
              k # l \/ n # Current => Content(k, n)' = Content(k, n)
<1>1. /\ \A k \in Enabled : k # l => disk'[k] = disk[k] /\ buffer'[k] = buffer[k]
      /\ disk'[l] = [disk[l] EXCEPT ![Current] = f] /\ buffer'[l] = g
  BY DEF FilesOK
<1>2. disk[l] \in [DOMAIN disk[l] -> File] /\ DOMAIN disk[l] \in SUBSET (Nat \cup {Current}) /\ Current \in DOMAIN disk[l]
  BY DEF FilesOK
<1>3. /\ disk'[l] \in [DOMAIN disk[l] -> File] /\ disk'[l][Current] = f
      /\ \A n \in DOMAIN disk[l] : n # Current => disk'[l][n] = disk[l][n]
  BY <1>1, <1>2
<1>4. FilesOK'
  <2>1. disk' \in [Enabled -> UNION {[S -> File] : S \in SUBSET (Nat \cup {Current})}]
    BY <1>1, <1>2, <1>3 DEF FilesOK
  <2>2. buffer' \in [Enabled -> File]
    BY DEF FilesOK
  <2>3. \A k \in Enabled : Current \in DOMAIN disk'[k]
    BY <1>1, <1>2, <1>3 DEF FilesOK
  <2> QED BY <2>1, <2>2, <2>3 DEF FilesOK
<1>5. Content(l, Current)' = f \o g
  BY <1>1, <1>3 DEF Content, Handed
<1>6. \A k \in Enabled : \A n \in DOMAIN disk[k] : k # l \/ n # Current => Content(k, n)' = Content(k, n)
  BY <1>1, <1>3 DEF Content, Handed
<1> QED BY <1>1, <1>3, <1>4, <1>5, <1>6

\* A step that hands over what is buffered for a level.
LEMMA KeptFiles ==
  ASSUME FilesOK, NEW l \in Enabled, disk' = [disk EXCEPT ![l][Current] = Handed(l)],
         buffer' = [buffer EXCEPT ![l] = <<>>], logIndex' = logIndex
  PROVE  /\ FilesOK' /\ \A k \in Enabled : DOMAIN disk'[k] = DOMAIN disk[k]
         /\ \A k \in Enabled : \A n \in DOMAIN disk[k] : Content(k, n)' = Content(k, n)
<1>1. Handed(l) \in File /\ <<>> \in File
  BY ContentsAreFiles DEF File
<1>2. /\ FilesOK' /\ Content(l, Current)' = Handed(l) \o <<>>
      /\ \A k \in Enabled : DOMAIN disk'[k] = DOMAIN disk[k]
      /\ \A k \in Enabled : \A n \in DOMAIN disk[k] : k # l \/ n # Current => Content(k, n)' = Content(k, n)
  BY <1>1, CurrentSet
<1>3. Content(l, Current)' = Content(l, Current)
  BY <1>1, <1>2, ConcatFront DEF Content, File
<1> QED BY <1>2, <1>3

\* A step that rolls the files of a level.
LEMMA RolledFiles ==
  ASSUME FilesOK, NEW l \in Enabled, NEW s, s = Suffix(l), NEW i \in NextIndexes(l), disk' = [disk EXCEPT ![l] = Rolled(l)],
         buffer' = [buffer EXCEPT ![l] = <<>>], logIndex' = [logIndex EXCEPT ![l] = i]
  PROVE  /\ FilesOK' /\ s \in Nat /\ s # Current
         /\ DOMAIN disk'[l] = DOMAIN disk[l] \cup {s}
         /\ Content(l, Current)' = <<>> /\ Content(l, s)' = Content(l, Current)
         /\ \A n \in DOMAIN disk[l] : n # Current /\ n # s => Content(l, n)' = Content(l, n)
         /\ \A k \in Enabled : k # l => disk'[k] = disk[k] /\ \A n : Content(k, n)' = Content(k, n)
<1>1. s = Suffix(l)
  OBVIOUS
<1>2. s \in Nat /\ s # Current
  BY <1>1 DEF Suffix, FilesOK, Current
<1>3. /\ Handed(l) \in File /\ <<>> \in File
      /\ \A n \in DOMAIN disk[l] : Content(l, n) \in File
      /\ \A k \in Enabled : DOMAIN disk[k] \subseteq Nat \cup {Current}
      /\ \A k \in Enabled : Current \in DOMAIN disk[k]
  BY ContentsAreFiles DEF File, FilesOK
<1>4. /\ buffer' \in [Enabled -> File] /\ buffer'[l] = <<>>
      /\ \A k \in Enabled : k # l => buffer'[k] = buffer[k]
  BY <1>3 DEF FilesOK
<1>5. /\ disk'[l] = Rolled(l) /\ \A k \in Enabled : k # l => disk'[k] = disk[k]
  BY DEF FilesOK
<1>6. /\ DOMAIN Rolled(l) = DOMAIN disk[l] \cup {s} /\ Rolled(l)[Current] = <<>> /\ Rolled(l)[s] = Handed(l)
      /\ \A n \in DOMAIN disk[l] : n # Current /\ n # s => Rolled(l)[n] = disk[l][n]
  BY <1>1, <1>2, <1>3 DEF Rolled
<1>7. FilesOK'
  <2>1. Rolled(l) \in [DOMAIN disk[l] \cup {s} -> File]
    <3>1. \A n \in DOMAIN disk[l] \cup {s} : Rolled(l)[n] \in File
      BY <1>3, <1>6 DEF Content
    <3> QED BY <3>1, <1>6 DEF Rolled
  <2>2. DOMAIN disk[l] \cup {s} \in SUBSET (Nat \cup {Current})
    BY <1>2, <1>3
  <2>3. disk' \in [Enabled -> UNION {[S -> File] : S \in SUBSET (Nat \cup {Current})}]
    BY <2>1, <2>2 DEF FilesOK
  <2>4. \A k \in Enabled : Current \in DOMAIN disk'[k]
    BY <1>3, <1>5, <1>6
  <2>5. i \in Nat
    BY DEF NextIndexes, FilesOK, Current
  <2>6. logIndex' \in [Enabled -> Nat \cup {Current}]
    BY <2>5 DEF FilesOK
  <2> QED BY <1>4, <2>3, <2>4, <2>6 DEF FilesOK
<1>8. /\ \A n : Content(l, n)' = IF n = Current THEN <<>> ELSE Rolled(l)[n]
      /\ \A k \in Enabled : k # l => \A n : Content(k, n)' = Content(k, n)
  <2>1. disk'[l][Current] = <<>>
    BY <1>5, <1>6
  <2>2. Handed(l)' = <<>>
    BY <1>4, <2>1 DEF Handed
  <2> QED BY <1>4, <1>5, <2>2 DEF Content, Handed
<1>9. \A n \in DOMAIN disk[l] : n # Current /\ n # s => Content(l, n)' = Content(l, n)
  BY <1>6, <1>8 DEF Content
<1>10. Content(l, Current)' = <<>> /\ Content(l, s)' = Content(l, Current)
  BY <1>2, <1>6, <1>8 DEF Content
<1> QED BY <1>2, <1>5, <1>6, <1>7, <1>8, <1>9, <1>10

\* A step that writes a line to the current file of a level or to its buffer.
LEMMA WrittenFiles ==
  ASSUME FilesOK, NEW t \in Threads, NEW l \in Enabled, l = level[t], Write(t), stream \in Seq(Pieces)
  PROVE  /\ FilesOK' /\ Content(l, Current)' = Append(Handed(l), stream)
         /\ \A k \in Enabled : DOMAIN disk'[k] = DOMAIN disk[k]
         /\ \A k \in Enabled : \A n \in DOMAIN disk[k] : k # l \/ n # Current => Content(k, n)' = Content(k, n)
<1>1. logIndex' = logIndex
  BY DEF Write
<1>2. /\ Handed(l) \in File /\ disk[l][Current] \in File /\ buffer[l] \in File /\ <<>> \in File
  BY ContentsAreFiles DEF File
<1>3. CASE unflushed[l] + 1 >= FlushThreshold
  <2> DEFINE f == Append(Handed(l), stream)
  <2>1. f \in File /\ f \o <<>> = f
    BY <1>2, AppendAt, ConcatFront DEF File
  <2>2. disk' = [disk EXCEPT ![l][Current] = f] /\ buffer' = [buffer EXCEPT ![l] = <<>>]
    BY <1>3 DEF Write, Handed
  <2> HIDE DEF f
  <2> QED BY <1>1, <1>2, <2>1, <2>2, CurrentSet DEF f
<1>4. CASE ~(unflushed[l] + 1 >= FlushThreshold)
  <2> DEFINE g == Append(buffer[l], stream)
  <2>1. g \in File /\ disk[l][Current] \o g = Append(Handed(l), stream)
    <3>1. \A s, r \in File, e \in Seq(Pieces) : Append(r, e) \in File /\ Append(s \o r, e) = s \o Append(r, e)
      <4>1. \A r \in File, e \in Seq(Pieces) : Append(r, e) \in File
        BY AppendAt DEF File
      <4> QED BY <4>1, ConcatAppend
    <3> QED BY <1>2, <3>1 DEF Handed
  <2>2. disk' = disk /\ buffer' = [buffer EXCEPT ![l] = g]
    BY <1>4 DEF Write
  <2>3. disk' = [disk EXCEPT ![l][Current] = disk[l][Current]]
    BY <1>2, <2>2 DEF FilesOK
  <2> HIDE DEF g
  <2> QED BY <1>1, <1>2, <2>1, <2>2, <2>3, CurrentSet
<1> QED BY <1>3, <1>4

LEMMA RollingStep ==
  ASSUME LineInv, NEW t \in Threads, ValidateFileRolling(t)
  PROVE  LineInv'
<1> USE DEF LineInv
<1>1. PICK l \in Enabled : l = level[t]
  BY DEF ValidateFileRolling, Locked, Holds
<1>2. /\ pc[t] = "roll" /\ pc' = [pc EXCEPT ![t] = "write"] /\ buffer' = [buffer EXCEPT ![l] = <<>>]
      /\ UNCHANGED <<stream, logger, level, message, text, count>>
  BY <1>1 DEF ValidateFileRolling, Goto, locks, locals
<1>3. ThreadsOK' /\ Locked' /\ Streamed' /\ Own'
  BY <1>2 DEF ThreadsOK, Locked, Holds, Streamed, Own
<1>4. /\ Handed(l) \in File /\ disk[l][Current] \in File /\ buffer[l] \in File /\ <<>> \in File
      /\ \A n \in DOMAIN disk[l] : Content(l, n) \in File
      /\ \A k \in Enabled : DOMAIN disk[k] \subseteq Nat \cup {Current}
      /\ \A k \in Enabled : Current \in DOMAIN disk[k]
  BY ContentsAreFiles DEF File, FilesOK
<1>5. CASE Len(Handed(l)) >= MaxLogFileSize
  <2>1. PICK s : s = Suffix(l)
    OBVIOUS
  <2>3. PICK i \in NextIndexes(l) : disk' = [disk EXCEPT ![l] = Rolled(l)] /\ logIndex' = [logIndex EXCEPT ![l] = i]
    BY <1>1, <1>5 DEF ValidateFileRolling
  <2>4. /\ FilesOK' /\ s \in Nat /\ s # Current
        /\ DOMAIN disk'[l] = DOMAIN disk[l] \cup {s}
        /\ Content(l, Current)' = <<>> /\ Content(l, s)' = Content(l, Current)
        /\ \A n \in DOMAIN disk[l] : n # Current /\ n # s => Content(l, n)' = Content(l, n)
        /\ \A k \in Enabled : k # l => disk'[k] = disk[k] /\ \A n : Content(k, n)' = Content(k, n)
    BY <1>2, <2>1, <2>3, RolledFiles
  <2> DEFINE from == [p \in Enabled \X (Nat \cup {Current}) |-> IF p = <<l, s>> THEN Current ELSE p[2]]
  <2>f. \A k \in Enabled : \A n \in DOMAIN disk'[k] :
          from[<<k, n>>] = IF k = l /\ n = s THEN Current ELSE n
    <3>1. \A k \in Enabled : DOMAIN disk'[k] \subseteq Nat \cup {Current}
      BY <1>4, <2>4
    <3> QED BY <3>1
  <2> HIDE DEF from
  <2>8. \A k \in Enabled : \A n \in DOMAIN disk'[k] : \A j \in DOMAIN Content(k, n)' :
           /\ from[<<k, n>>] \in DOMAIN disk[k] /\ j \in DOMAIN Content(k, from[<<k, n>>])
           /\ Content(k, n)'[j] = Content(k, from[<<k, n>>])[j]
    <3> SUFFICES ASSUME NEW k \in Enabled, NEW n \in DOMAIN disk'[k], NEW j \in DOMAIN Content(k, n)'
                 PROVE  /\ from[<<k, n>>] \in DOMAIN disk[k] /\ j \in DOMAIN Content(k, from[<<k, n>>])
                        /\ Content(k, n)'[j] = Content(k, from[<<k, n>>])[j]
      OBVIOUS
    <3>1. CASE k # l
      BY <2>4, <2>f, <3>1
    <3>2. CASE k = l /\ n = s
      BY <1>4, <2>4, <2>f, <3>2
    <3>3. CASE k = l /\ n = Current
      <4>1. Content(k, n)' = <<>>
        BY <2>4, <3>3
      <4> QED BY <4>1
    <3>4. CASE k = l /\ n # s /\ n # Current
      BY <2>4, <2>f, <3>4
    <3> QED BY <3>1, <3>2, <3>3, <3>4
  <2>9. \A k \in Enabled : \A n, o \in DOMAIN disk'[k] :
          Content(k, n)' # <<>> /\ Content(k, o)' # <<>> /\ from[<<k, n>>] = from[<<k, o>>] => n = o
    BY <2>4, <2>f
  <2>10. /\ EachWhole' /\ Once'
         /\ \A m : (InAFile(m, "notice")' => InAFile(m, "notice")) /\ (InAFile(m, "statement")' => InAFile(m, "statement"))
    BY <1>2, <2>8, <2>9, LinesMove
  <2>11. NotYet'
    BY <1>2, <2>10 DEF NotYet, ThreadsOK
  <2> QED BY <1>3, <2>4, <2>10, <2>11
<1>6. CASE ~(Len(Handed(l)) >= MaxLogFileSize)
  <2>1. disk' = [disk EXCEPT ![l][Current] = Handed(l)] /\ logIndex' = logIndex
    BY <1>1, <1>6 DEF ValidateFileRolling
  <2>2. FilesOK' /\ (\A k \in Enabled : DOMAIN disk'[k] = DOMAIN disk[k])
        /\ \A k \in Enabled : \A n \in DOMAIN disk[k] : Content(k, n)' = Content(k, n)
    BY <1>2, <2>1, KeptFiles
  <2>3. EachWhole' /\ Once'
    BY <1>2, <2>2 DEF EachWhole, Once
  <2>4. ASSUME NEW m
        PROVE  (InAFile(m, "notice")' => InAFile(m, "notice")) /\ (InAFile(m, "statement")' => InAFile(m, "statement"))
    BY <2>2 DEF InAFile
  <2>5. NotYet'
    BY <1>2, <2>4 DEF NotYet, ThreadsOK
  <2> QED BY <1>3, <2>2, <2>3, <2>5
<1> QED BY <1>5, <1>6

LEMMA WriteStep ==
  ASSUME LineInv, NEW t \in Threads, Write(t)
  PROVE  LineInv'
<1> USE DEF LineInv
<1>1. PICK l \in Enabled : l = level[t]
  BY DEF Write, Locked, Holds
<1>2. /\ pc[t] = "write" /\ pc' = [pc EXCEPT ![t] = "release"]
      /\ UNCHANGED <<logIndex, stream, logger, level, message, text, count>>
  BY <1>1 DEF Write, Goto, locks, locals
<1>3. ThreadsOK' /\ Locked' /\ Streamed' /\ Own'
  BY <1>2 DEF ThreadsOK, Locked, Holds, Streamed, Own
<1>4. /\ Handed(l) \in File /\ disk[l][Current] \in File /\ buffer[l] \in File /\ <<>> \in File
      /\ \A n \in DOMAIN disk[l] : Content(l, n) \in File
      /\ Current \in DOMAIN disk[l]
  BY ContentsAreFiles DEF File, FilesOK
<1>5. stream \in Seq(Pieces) /\ stream = Whole(message[t], text[t])
  BY <1>2 DEF ThreadsOK, Streamed
<1>6. /\ FilesOK' /\ Content(l, Current)' = Append(Handed(l), stream)
      /\ \A k \in Enabled : DOMAIN disk'[k] = DOMAIN disk[k]
      /\ \A k \in Enabled : \A n \in DOMAIN disk[k] : k # l \/ n # Current => Content(k, n)' = Content(k, n)
  BY <1>1, <1>5, WrittenFiles
<1> DEFINE last == Len(Handed(l)) + 1
<1>7. /\ DOMAIN Content(l, Current)' = DOMAIN Content(l, Current) \cup {last} /\ last \notin DOMAIN Content(l, Current)
      /\ Content(l, Current)'[last] = stream
      /\ \A i \in DOMAIN Content(l, Current) : Content(l, Current)'[i] = Content(l, Current)[i]
  <2>1. \A s \in File, e \in Seq(Pieces) :
          /\ DOMAIN Append(s, e) = DOMAIN s \cup {Len(s) + 1} /\ Len(s) + 1 \notin DOMAIN s
          /\ Append(s, e)[Len(s) + 1] = e /\ \A i \in DOMAIN s : Append(s, e)[i] = s[i]
    BY AppendAt DEF File
  <2>2. Content(l, Current) = Handed(l)
    BY DEF Content
  <2> QED BY <1>4, <1>5, <1>6, <2>1, <2>2
<1> HIDE DEF last
\* Any other line was there.
<1>8. \A k \in Enabled : \A n \in DOMAIN disk'[k] : \A i \in DOMAIN Content(k, n)' :
        IF k = l /\ n = Current /\ i = last
        THEN Content(k, n)'[i] = stream
        ELSE n \in DOMAIN disk[k] /\ i \in DOMAIN Content(k, n) /\ Content(k, n)'[i] = Content(k, n)[i]
  BY <1>6, <1>7
<1>9. EachWhole'
  <2>1. message[t] \in 1 .. count /\ text[t] \in Texts
    BY <1>2 DEF Own, ThreadsOK
  <2>2. SUFFICES ASSUME NEW k \in Enabled, NEW n \in DOMAIN disk'[k], NEW i \in DOMAIN Content(k, n)'
                 PROVE  \E m \in 1 .. count, b \in Texts : Content(k, n)'[i] = Whole(m, b)
    BY <1>2 DEF EachWhole
  <2> QED BY <1>5, <1>8, <2>1 DEF EachWhole
<1>10. ~InAFile(message[t], text[t])
  BY <1>2 DEF NotYet, ThreadsOK, Texts
<1>11. \A k \in Enabled : \A n \in DOMAIN disk[k] : \A i \in DOMAIN Content(k, n) : Content(k, n)[i] # stream
  BY <1>5, <1>10 DEF InAFile
<1>12. Once'
  <2> SUFFICES ASSUME NEW j \in Enabled, NEW k \in Enabled, NEW n \in DOMAIN disk'[j], NEW o \in DOMAIN disk'[k],
                      NEW i \in DOMAIN Content(j, n)', NEW h \in DOMAIN Content(k, o)',
                      Content(j, n)'[i] = Content(k, o)'[h]
               PROVE  j = k /\ n = o /\ i = h
    BY DEF Once
  <2> QED BY <1>8, <1>11 DEF Once
<1>13. ASSUME NEW m, NEW b, InAFile(m, b)' PROVE InAFile(m, b) \/ Whole(m, b) = stream
  BY <1>8, <1>13 DEF InAFile
<1>14. NotYet'
  <2> SUFFICES ASSUME NEW u \in Threads, pc'[u] # "out"
               PROVE  /\ InAFile(message[u], "notice")' => text[u] = "notice" /\ pc'[u] = "release"
                      /\ InAFile(message[u], "statement")' => text[u] = "notice" \/ pc'[u] \in {"release", "lookup"}
    BY <1>2 DEF NotYet
  <2>1. CASE u = t
    <3>1. InAFile(message[t], "notice")' => text[t] = "notice"
      BY <1>2, <1>5, <1>13, WholeIsOne DEF NotYet
    <3>2. pc'[t] = "release"
      BY <1>2 DEF ThreadsOK
    <3> QED BY <2>1, <3>1, <3>2
  <2>2. CASE u # t
    <3>1. pc'[u] = pc[u] /\ message[u] # message[t]
      BY <1>2, <2>2 DEF ThreadsOK, Own
    <3>2. PICK m : m = message[u]
      OBVIOUS
    <3>3. \A b : InAFile(m, b)' => InAFile(m, b)
      BY <1>5, <1>13, <3>1, <3>2, WholeIsOne
    <3> QED BY <1>2, <3>1, <3>2, <3>3 DEF NotYet
  <2> QED BY <2>1, <2>2
<1> QED BY <1>3, <1>6, <1>9, <1>12, <1>14

\* The process ends: what was not handed over is gone.
LEMMA RestartStep ==
  ASSUME LineInv, Restart
  PROVE  LineInv'
<1> USE DEF LineInv
<1>1. /\ buffer' = [l \in Enabled |-> <<>>] /\ logIndex' = [l \in Enabled |-> Current]
      /\ stream' = <<>> /\ logger' = Nobody /\ pc' = [t \in Threads |-> "out"]
      /\ UNCHANGED <<disk, level, message, text, count>>
  BY DEF Restart, locals
<1>2. ThreadsOK' /\ Locked' /\ Streamed' /\ Own' /\ NotYet'
  BY <1>1, ThreadsAssumption DEF ThreadsOK, Locked, Holds, Streamed, Own, NotYet
<1>3. FilesOK'
  BY <1>1 DEF FilesOK, File
<1>4. ASSUME NEW l \in Enabled, NEW n \in DOMAIN disk'[l], NEW i \in DOMAIN Content(l, n)'
      PROVE  n \in DOMAIN disk[l] /\ i \in DOMAIN Content(l, n) /\ Content(l, n)'[i] = Content(l, n)[i]
  <2>1. disk[l][Current] \in File /\ buffer[l] \in File
    BY ContentsAreFiles
  <2>2. Content(l, n)' = disk[l][n]
    <3>1. Handed(l)' = disk[l][Current]
      BY <1>1, <2>1, ConcatFront DEF Handed, File
    <3> QED BY <1>1, <3>1 DEF Content
  <2>3. \A s, r \in File : DOMAIN s \subseteq DOMAIN (s \o r) /\ \A j \in DOMAIN s : (s \o r)[j] = s[j]
    BY ConcatFront DEF File
  <2>4. CASE n = Current
    <3>1. Content(l, n) = disk[l][n] \o buffer[l]
      BY <2>4 DEF Content, Handed
    <3>2. disk[l][n] \in File
      BY <2>1, <2>4
    <3>3. i \in DOMAIN disk[l][n]
      BY <2>2
    <3>4. i \in DOMAIN (disk[l][n] \o buffer[l]) /\ (disk[l][n] \o buffer[l])[i] = disk[l][n][i]
      BY <2>1, <2>3, <3>2, <3>3
    <3> QED BY <1>1, <2>2, <2>4, <3>1, <3>4
  <2>5. CASE n # Current
    <3>1. Content(l, n) = disk[l][n]
      BY <2>5 DEF Content
    <3> QED BY <1>1, <2>2, <3>1
  <2> QED BY <2>4, <2>5
<1>5. EachWhole' /\ Once'
  BY <1>1, <1>4 DEF EachWhole, Once
<1> QED BY <1>2, <1>3, <1>5

LEMMA LineInvNext == LineInv /\ [Next]_vars => LineInv'
<1> SUFFICES ASSUME LineInv, [Next]_vars PROVE LineInv'
  OBVIOUS
<1>1. CASE UNCHANGED vars
  <2>1. FilesOK' /\ EachWhole' /\ Once'
        /\ \A m : (InAFile(m, "notice")' <=> InAFile(m, "notice")) /\ (InAFile(m, "statement")' <=> InAFile(m, "statement"))
    BY <1>1, FilesStay DEF LineInv, vars, disks, ThreadsOK
  <2>2. ThreadsOK' /\ Locked' /\ Streamed' /\ Own'
    BY <1>1 DEF LineInv, vars, locks, locals, ThreadsOK, Locked, Holds, Streamed, Own
  <2>3. NotYet'
    BY <1>1, <2>1 DEF LineInv, vars, locals, NotYet
  <2> QED BY <2>1, <2>2, <2>3 DEF LineInv
<1>2. ASSUME NEW t \in Threads, NEW l \in Levels, Log(t, l) PROVE LineInv'
  BY <1>2, LogStep
<1>3. ASSUME NEW t \in Threads, Step(t) PROVE LineInv'
  BY <1>3, InitializeLoggerStep, StreamStep, LockStorageStep, RollingStep, WriteStep, ReleaseStep, NotRegisteredStep
     DEF Step
<1> QED BY <1>1, <1>2, <1>3, RestartStep DEF Next

LEMMA LineInvImplies == LineInv => WholeLines
<1> SUFFICES ASSUME LineInv PROVE WholeLines
  OBVIOUS
<1>1. ASSUME NEW p \in Lines
      PROVE  /\ p = <<p[1], p[2], p[3]>> /\ p[1] \in Enabled /\ p[2] \in DOMAIN disk[p[1]]
             /\ p[3] \in DOMAIN Content(p[1], p[2]) /\ Line(p) = Content(p[1], p[2])[p[3]]
  <2>1. PICK l \in Enabled : \E n \in DOMAIN disk[l] : \E i \in DOMAIN disk[l][n] : p = <<l, n, i>>
    BY DEF Lines
  <2>2. PICK n \in DOMAIN disk[l] : \E i \in DOMAIN disk[l][n] : p = <<l, n, i>>
    BY <2>1
  <2>3. PICK i \in DOMAIN disk[l][n] : p = <<l, n, i>>
    BY <2>2
  <2>4. p[1] = l /\ p[2] = n /\ p[3] = i
    BY <2>3
  <2>5. disk[l][Current] \in File /\ buffer[l] \in File
    BY ContentsAreFiles DEF LineInv
  <2>6. \A s, r \in File : DOMAIN s \subseteq DOMAIN (s \o r) /\ \A j \in DOMAIN s : (s \o r)[j] = s[j]
    BY ConcatFront DEF File
  <2>7. i \in DOMAIN Content(l, n) /\ disk[l][n][i] = Content(l, n)[i]
    <3>1. CASE n = Current
      <4>1. i \in DOMAIN (disk[l][n] \o buffer[l]) /\ (disk[l][n] \o buffer[l])[i] = disk[l][n][i]
        BY <2>5, <2>6, <3>1
      <4> QED BY <3>1, <4>1 DEF Content, Handed
    <3>2. CASE n # Current
      BY <3>2 DEF Content
    <3> QED BY <3>1, <3>2
  <2> QED BY <2>3, <2>4, <2>7 DEF Line
<1>2. ASSUME NEW p \in Lines PROVE Len(Line(p)) = 2 /\ Line(p)[1] = Line(p)[2]
  <2>1. PICK m, b : Line(p) = Whole(m, b)
    BY <1>1 DEF LineInv, EachWhole
  <2> QED BY <2>1 DEF Whole
<1>3. ASSUME NEW p \in Lines, NEW q \in Lines, Line(p) = Line(q) PROVE p = q
  BY <1>1, <1>3 DEF LineInv, Once
<1> QED BY <1>2, <1>3 DEF WholeLines

\* Whatever threads log at whatever levels, and however often the process ends
\* and comes back within the hour, a line is the whole of one message, and no
\* message is in two.
THEOREM LinesAreWhole == Spec => []WholeLines
<1>1. Init => LineInv
  BY LineInvInit
<1>2. LineInv /\ [Next]_vars => LineInv'
  BY LineInvNext
<1>3. LineInv => WholeLines
  BY LineInvImplies
<1> QED BY <1>1, <1>2, <1>3, PTL DEF Spec

-----------------------------------------------------------------------------
(* What is lost of a log within one process. *)

\* The files of a level by suffix, once what is buffered is handed over.
Contents(l) == [n \in DOMAIN disk[l] |-> Content(l, n)]

\* The lines of the log w that file n of f has, when it begins after line
\* start[n] of w.
Has(f, start, n, x) == start[n] < x /\ x <= start[n] + Len(f[n])

AsLogged(f, w, start) ==
  \A n \in DOMAIN f :
    /\ start[n] + Len(f[n]) <= Len(w)
    /\ \A i \in 1 .. Len(f[n]) : f[n][i] = w[start[n] + i]

InOrder(f, w, start) ==
  /\ \A m, n \in DOMAIN f : m # Current /\ (n = Current \/ m < n) => start[m] + Len(f[m]) <= start[n]
  /\ start[Current] + Len(f[Current]) = Len(w)

OnlyTheBeginningLost(f, w, start) ==
  \A x \in 1 .. Len(w) :
    \/ \E n \in DOMAIN f : Has(f, start, n, x)
    \/ x <= MaxLogFileSize /\ \A n \in DOMAIN f : x <= start[n]

\* k is the level's index: the suffix 0 is used twice, and then no suffix that
\* is there.
Numbered(f, k, start) ==
  /\ k = Current => DOMAIN f = {Current} /\ start[Current] = 0
  /\ k = 0 => DOMAIN f = {0, Current} /\ start[Current] <= MaxLogFileSize
  /\ k \in Nat \ {0} => \A n \in DOMAIN f : n < k

Covers(f, w, k, start) ==
  AsLogged(f, w, start) /\ InOrder(f, w, start) /\ OnlyTheBeginningLost(f, w, start) /\ Numbered(f, k, start)

\* No file is longer than the limit, and the one a thread is about to write to
\* is shorter.
Sized(l) ==
  /\ \A n \in DOMAIN disk[l] : Len(Content(l, n)) <= MaxLogFileSize
  /\ \A t \in Threads : pc[t] = "write" /\ level[t] = l => Len(Content(l, Current)) < MaxLogFileSize

Covered(l) == \E start \in [DOMAIN disk[l] -> Nat] : Covers(Contents(l), written[l], logIndex[l], start)

RollInv ==
  /\ written \in [Enabled -> File] /\ restarts \in Nat
  /\ restarts = 0 => \A l \in Enabled : Sized(l) /\ Covered(l)

\* A level's files, its log and where its files begin in it.
FilesOf(f, w, start) ==
  /\ DOMAIN f \subseteq Nat \cup {Current} /\ Current \in DOMAIN f
  /\ w \in File /\ f \in [DOMAIN f -> File] /\ start \in [DOMAIN f -> Nat]

\* A line is added to the log and to the current file.
LEMMA AddedToBoth ==
  ASSUME NEW f, NEW w, NEW k, NEW start, FilesOf(f, w, start), Covers(f, w, k, start),
         NEW e \in Seq(Pieces), NEW g, NEW v, v = Append(w, e), g \in [DOMAIN f -> File],
         g[Current] = Append(f[Current], e), \A n \in DOMAIN f : n # Current => g[n] = f[n]
  PROVE  Covers(g, v, k, start)
<1> DEFINE D == DOMAIN f
<1>1. Current \in D /\ w \in File /\ f[Current] \in File /\ DOMAIN g = D
  BY DEF FilesOf
<1>2. \A n \in D : Len(f[n]) \in Nat /\ start[n] \in Nat
  BY DEF FilesOf, File
<1>3. \A s \in File : /\ Len(s) \in Nat /\ Len(Append(s, e)) = Len(s) + 1 /\ Append(s, e)[Len(s) + 1] = e
                      /\ \A i \in 1 .. Len(s) : Append(s, e)[i] = s[i]
  BY DEF File
<1>4. PICK size \in Nat, last \in Nat, first \in Nat :
        size = Len(w) /\ last = Len(f[Current]) /\ first = start[Current] /\ first + last = size
  BY <1>1, <1>2, <1>3 DEF Covers, InOrder
<1>5. /\ Len(v) = size + 1 /\ v[size + 1] = e /\ \A i \in 1 .. size : v[i] = w[i]
      /\ Len(g[Current]) = last + 1 /\ g[Current][last + 1] = e
      /\ \A i \in 1 .. last : g[Current][i] = f[Current][i]
  BY <1>1, <1>3, <1>4
<1>6. AsLogged(g, v, start)
  <2> SUFFICES ASSUME NEW n \in D
               PROVE  start[n] + Len(g[n]) <= Len(v) /\ \A i \in 1 .. Len(g[n]) : g[n][i] = v[start[n] + i]
    BY <1>1 DEF AsLogged
  <2>1. PICK a \in Nat, b \in Nat : a = start[n] /\ b = Len(f[n])
    BY <1>2
  <2>2. a + b <= size /\ \A i \in 1 .. b : f[n][i] = w[a + i]
    BY <1>4, <2>1 DEF Covers, AsLogged
  <2>3. \A i \in 1 .. b : a + i \in 1 .. size
    BY <2>2
  <2>4. \A i \in 1 .. b : f[n][i] = v[a + i]
    BY <1>5, <2>2, <2>3
  <2>5. CASE n = Current
    <3>1. a + last = size /\ b = last
      BY <1>4, <2>1, <2>5
    <3>2. ASSUME NEW i \in 1 .. last + 1 PROVE g[n][i] = v[a + i]
      <4>1. CASE i = last + 1
        <5>1. a + i = size + 1
          BY <3>1, <4>1
        <5> QED BY <1>5, <2>5, <4>1, <5>1
      <4>2. CASE i # last + 1
        <5>1. i \in 1 .. last
          BY <4>2
        <5> QED BY <1>5, <2>4, <2>5, <3>1, <5>1
      <4> QED BY <4>1, <4>2
    <3>3. Len(g[n]) = last + 1
      BY <1>5, <2>5
    <3>4. a + (last + 1) <= size + 1
      BY <3>1
    <3> HIDE DEF D
    <3> QED BY <1>5, <2>1, <3>2, <3>3, <3>4
  <2>6. CASE n # Current
    <3>1. g[n] = f[n] /\ Len(g[n]) = b
      BY <2>1, <2>6
    <3>2. start[n] + Len(g[n]) <= Len(v)
      <4>1. a + b <= size + 1
        BY <2>2
      <4>2. Len(v) = size + 1 /\ start[n] = a /\ Len(g[n]) = b
        BY <1>5, <2>1, <3>1
      <4> QED BY <4>1, <4>2
    <3>3. ASSUME NEW i \in 1 .. Len(g[n]) PROVE g[n][i] = v[start[n] + i]
      <4>1. i \in 1 .. b /\ start[n] + i = a + i
        BY <2>1, <3>1
      <4>2. g[n][i] = v[a + i]
        BY <2>4, <3>1, <4>1
      <4> QED BY <4>1, <4>2
    <3> QED BY <3>2, <3>3
  <2> QED BY <2>5, <2>6
<1>7. InOrder(g, v, start)
  <2>1. start[Current] + Len(g[Current]) = Len(v)
    <3> first + last = size
      BY <1>4
    <3>1. first + (last + 1) = size + 1
      OBVIOUS
    <3>2. start[Current] = first /\ Len(g[Current]) = last + 1 /\ Len(v) = size + 1
      BY <1>4, <1>5
    <3> QED BY <3>1, <3>2
  <2>2. ASSUME NEW m \in D, NEW n \in D, m # Current, n = Current \/ m < n
        PROVE  start[m] + Len(g[m]) <= start[n]
    BY <2>2 DEF Covers, InOrder
  <2> QED BY <1>1, <2>1, <2>2 DEF InOrder
<1>8. OnlyTheBeginningLost(g, v, start)
  <2> SUFFICES ASSUME NEW x \in 1 .. size + 1
               PROVE  \/ \E n \in D : Has(g, start, n, x)
                      \/ x <= MaxLogFileSize /\ \A n \in D : x <= start[n]
    BY <1>1, <1>5 DEF OnlyTheBeginningLost
  <2>1. CASE x = size + 1
    <3>1. Has(g, start, Current, x)
      BY <1>4, <1>5, <2>1 DEF Has
    <3> QED BY <1>1, <3>1
  <2>2. CASE x # size + 1
    <3>1. x \in 1 .. Len(w)
      BY <1>4, <2>2
    <3>2. ASSUME NEW n \in D, Has(f, start, n, x) PROVE Has(g, start, n, x)
      <4>1. CASE n = Current
        BY <1>4, <1>5, <3>2, <4>1 DEF Has
      <4>2. CASE n # Current
        BY <3>2, <4>2 DEF Has
      <4> QED BY <4>1, <4>2
    <3> QED BY <3>1, <3>2 DEF Covers, OnlyTheBeginningLost
  <2> QED BY <2>1, <2>2
<1>9. Numbered(g, k, start)
  BY <1>1 DEF Covers, Numbered
<1> QED BY <1>6, <1>7, <1>8, <1>9 DEF Covers

\* A level whose index is k uses the suffix s and goes on with index i.
Numbering(k, s, i) ==
  /\ k \in Nat \cup {Current}
  /\ s = IF k = Current THEN 0 ELSE k
  /\ i \in IF k = Current THEN {0} ELSE {k + 1, k + 2}

\* Of the files f the current one has taken the suffix s and is begun again.
Renamed(f, s, g) ==
  /\ g \in [DOMAIN f \cup {s} -> File] /\ g[Current] = <<>> /\ g[s] = f[Current]
  /\ \A n \in DOMAIN f : n # Current /\ n # s => g[n] = f[n]

Short(f) == \A n \in DOMAIN f : Len(f[n]) <= MaxLogFileSize

\* Rolling leaves a level covered, or overwrites the first file it had.
LEMMA RolledOnce ==
  ASSUME NEW f, NEW w, NEW k, NEW start, NEW s, NEW i, NEW g, FilesOf(f, w, start), Covers(f, w, k, start),
         Short(f), Numbering(k, s, i), Renamed(f, s, g)
  PROVE  \E b \in [DOMAIN f \cup {s} -> Nat] : Covers(g, w, i, b)
<1> USE DEF Short, Numbering, Renamed
<1> DEFINE D == DOMAIN f
           E == D \cup {s}
           b == [n \in E |-> IF n = Current THEN Len(w) ELSE IF n = s THEN start[Current] ELSE start[n]]
<1>1. /\ \A n \in D : f[n] \in File /\ Len(f[n]) \in Nat /\ start[n] \in Nat
      /\ Current \in D /\ w \in File /\ Len(w) \in Nat /\ DOMAIN g = E /\ D \subseteq Nat \cup {Current}
      /\ s \in Nat /\ s # Current
  BY DEF FilesOf, File, Current
<1>2. b \in [E -> Nat] /\ b[Current] = Len(w) /\ b[s] = start[Current]
      /\ \A n \in E : n # Current /\ n # s => n \in D /\ b[n] = start[n] /\ g[n] = f[n]
  BY <1>1
<1> HIDE DEF b
<1>3. /\ start[Current] + Len(f[Current]) = Len(w)
      /\ \A n \in D : start[n] + Len(f[n]) <= Len(w)
      /\ \A n \in D : \A j \in 1 .. Len(f[n]) : f[n][j] = w[start[n] + j]
      /\ \A m, n \in D : m # Current /\ (n = Current \/ m < n) => start[m] + Len(f[m]) <= start[n]
  BY DEF Covers, InOrder, AsLogged
<1>4. Len(g[Current]) = 0 /\ MaxLogFileSize \in Nat
  BY SizesAssumption
\* The suffix is after the others.
<1>5. \A n \in E : n # Current /\ n # s => n < s
  BY <1>1 DEF Covers, Numbered, Current
<1>6. AsLogged(g, w, b)
  <2> SUFFICES ASSUME NEW n \in E
               PROVE  b[n] + Len(g[n]) <= Len(w) /\ \A j \in 1 .. Len(g[n]) : g[n][j] = w[b[n] + j]
    BY <1>1 DEF AsLogged
  <2>1. CASE n = Current
    BY <1>1, <1>2, <1>4, <2>1
  <2>2. CASE n = s
    BY <1>1, <1>2, <1>3, <2>2
  <2>3. CASE n # Current /\ n # s
    BY <1>1, <1>2, <1>3, <2>3
  <2> QED BY <2>1, <2>2, <2>3
<1>7. InOrder(g, w, b)
  <2>1. ASSUME NEW m \in E, NEW n \in E, m # Current, n = Current \/ m < n
        PROVE  b[m] + Len(g[m]) <= b[n]
    <3>1. CASE n = Current
      <4>1. CASE m = s
        BY <1>1, <1>2, <1>3, <3>1, <4>1
      <4>2. CASE m # s
        BY <1>1, <1>2, <1>3, <2>1, <3>1, <4>2
      <4> QED BY <4>1, <4>2
    <3>2. CASE n = s
      BY <1>1, <1>2, <1>3, <2>1, <3>2
    <3>3. CASE n # Current /\ n # s
      <4>1. m \in Nat /\ n \in Nat
        BY <1>1, <2>1, <3>3
      <4>2. m # s
        BY <1>1, <1>5, <2>1, <3>3, <4>1
      <4> QED BY <1>1, <1>2, <1>3, <2>1, <3>3, <4>2
    <3> QED BY <3>1, <3>2, <3>3
  <2> QED BY <1>1, <1>2, <1>4, <2>1 DEF InOrder
<1>8. OnlyTheBeginningLost(g, w, b)
  <2> SUFFICES ASSUME NEW x \in 1 .. Len(w)
               PROVE  \/ \E n \in E : Has(g, b, n, x)
                      \/ x <= MaxLogFileSize /\ \A n \in E : x <= b[n]
    BY <1>1 DEF OnlyTheBeginningLost
  <2>1. CASE Has(f, start, Current, x)
    BY <1>1, <1>2, <2>1 DEF Has
  <2>2. CASE \E n \in D : n # Current /\ n # s /\ Has(f, start, n, x)
    BY <1>1, <1>2, <2>2 DEF Has
  <2>3. CASE s \in D /\ Has(f, start, s, x)
    <3>1. k = 0 /\ D = {0, Current} /\ s = 0 /\ start[Current] <= MaxLogFileSize
      BY <1>1, <2>3 DEF Covers, Numbered, Current
    <3>2. x <= start[Current]
      BY <1>1, <1>3, <2>3, <3>1 DEF Has, Current
    <3>3. x <= b[s] /\ x <= b[Current] /\ E = {s, Current}
      BY <1>1, <1>2, <3>1, <3>2
    <3> QED BY <1>1, <1>4, <3>1, <3>2, <3>3
  <2>4. CASE x <= MaxLogFileSize /\ \A n \in D : x <= start[n]
    BY <1>1, <1>2, <2>4
  <2> QED BY <1>1, <2>1, <2>2, <2>3, <2>4 DEF Covers, OnlyTheBeginningLost
<1>9. Numbered(g, i, b)
  <2>1. CASE k = Current
    <3>1. i = 0 /\ D = {Current} /\ start[Current] = 0 /\ s = 0
      BY <2>1 DEF Covers, Numbered
    <3>2. Len(w) <= MaxLogFileSize /\ E = {0, Current}
      BY <1>1, <1>3, <3>1
    <3> QED BY <1>1, <1>2, <3>1, <3>2 DEF Numbered, Current
  <2>2. CASE k # Current
    <3>1. i \in Nat \ {0} /\ s = k /\ k < i
      BY <1>1, <2>2
    <3>2. \A n \in E : n < i
      BY <1>1, <1>5, <3>1 DEF Current
    <3> QED BY <1>1, <3>1, <3>2 DEF Numbered, Current
  <2> QED BY <2>1, <2>2
<1> QED BY <1>2, <1>6, <1>7, <1>8, <1>9 DEF Covers

\* What the files of a level that cover its log have of it.
LEMMA CoveredImplies ==
  ASSUME FilesOK, written \in [Enabled -> File], NEW l \in Enabled, Covered(l)
  PROVE  /\ \A n \in DOMAIN disk[l] : \A i \in DOMAIN Content(l, n) :
              \E x \in DOMAIN written[l] : IsLine(l, n, i, x)
         /\ \A m, n \in DOMAIN disk[l] : \A i \in DOMAIN Content(l, m), j \in DOMAIN Content(l, n) :
              Before(m, i, n, j) => \E x, y \in DOMAIN written[l] : x < y /\ IsLine(l, m, i, x) /\ IsLine(l, n, j, y)
         /\ \A x \in DOMAIN written[l] :
              \/ \E n \in DOMAIN disk[l] : \E i \in DOMAIN Content(l, n) : IsLine(l, n, i, x)
              \/ /\ x <= MaxLogFileSize
                 /\ \A n \in DOMAIN disk[l] : \A i \in DOMAIN Content(l, n) :
                      \E y \in DOMAIN written[l] : x < y /\ IsLine(l, n, i, y)
<1> DEFINE D == DOMAIN disk[l]
           f == Contents(l)
           w == written[l]
<1>1. PICK start \in [D -> Nat] : Covers(f, w, logIndex[l], start)
  BY DEF Covered
<1>2. /\ DOMAIN f = D /\ \A n \in D : f[n] = Content(l, n)
      /\ Current \in D /\ D \subseteq Nat \cup {Current} /\ w \in File /\ \A n \in D : f[n] \in File
  BY ContentsAreFiles DEF FilesOK, Contents
<1> HIDE DEF f, w
<1>3. /\ Len(w) \in Nat /\ DOMAIN w = 1 .. Len(w)
      /\ \A n \in D : Len(f[n]) \in Nat /\ DOMAIN f[n] = 1 .. Len(f[n]) /\ start[n] \in Nat
  BY <1>1, <1>2 DEF File
\* Line i of file n is the log's line start[n] + i.
<1>4. ASSUME NEW n \in D, NEW i \in DOMAIN f[n]
      PROVE  /\ start[n] \in Nat /\ i \in Nat \ {0} /\ i <= Len(f[n])
             /\ start[n] + i \in 1 .. Len(w) /\ IsLine(l, n, i, start[n] + i)
  <2>1. PICK a \in Nat, b \in Nat, c \in Nat : a = start[n] /\ b = Len(f[n]) /\ c = Len(w)
    BY <1>3
  <2>2. i \in 1 .. b
    BY <1>3, <2>1
  <2>3. a + b <= c /\ f[n][i] = w[a + i]
    BY <1>1, <1>2, <2>1, <2>2 DEF Covers, AsLogged
  <2>4. a + i \in 1 .. c
    BY <2>2, <2>3
  <2>5. IsLine(l, n, i, a + i)
    BY <1>2, <1>3, <2>1, <2>3, <2>4 DEF IsLine, w
  <2> QED BY <2>1, <2>2, <2>4, <2>5
<1>5. \A n \in D : \A i \in DOMAIN f[n] : \E x \in DOMAIN w : IsLine(l, n, i, x)
  BY <1>3, <1>4
<1>6. ASSUME NEW m \in D, NEW n \in D, NEW i \in DOMAIN f[m], NEW j \in DOMAIN f[n], Before(m, i, n, j)
      PROVE  \E x, y \in DOMAIN w : x < y /\ IsLine(l, m, i, x) /\ IsLine(l, n, j, y)
  <2>1. PICK a \in Nat, b \in Nat, c \in Nat : a = start[m] /\ b = start[n] /\ c = Len(f[m])
    BY <1>3
  <2>2. i \in Nat \ {0} /\ j \in Nat \ {0} /\ i <= c
    BY <1>4, <2>1
  <2>3. CASE m = n
    <3>1. a = b /\ i < j
      BY <1>6, <2>1, <2>3 DEF Before
    <3>2. a + i < b + j
      BY <2>2, <3>1
    <3> QED BY <1>3, <1>4, <2>1, <3>2
  <2>4. CASE m # n
    <3>1. m # Current /\ (n = Current \/ m < n)
      BY <1>6, <2>4 DEF Before
    <3>2. a + c <= b
      BY <1>1, <1>2, <2>1, <3>1 DEF Covers, InOrder
    <3>3. a + i < b + j
      BY <2>2, <3>2
    <3> QED BY <1>3, <1>4, <2>1, <3>3
  <2> QED BY <2>3, <2>4
<1>7. ASSUME NEW x \in DOMAIN w
      PROVE  \/ \E n \in D : \E i \in DOMAIN f[n] : IsLine(l, n, i, x)
             \/ /\ x <= MaxLogFileSize
                /\ \A n \in D : \A i \in DOMAIN f[n] : \E y \in DOMAIN w : x < y /\ IsLine(l, n, i, y)
  <2>1. x \in Nat /\ x \in 1 .. Len(w)
    BY <1>3
  <2>2. CASE \E n \in D : Has(f, start, n, x)
    <3>1. PICK n \in D : Has(f, start, n, x)
      BY <2>2
    <3>2. PICK a \in Nat, b \in Nat : a = start[n] /\ b = Len(f[n])
      BY <1>3
    <3>3. a < x /\ x <= a + b
      BY <3>1, <3>2 DEF Has
    <3>4. x - a \in 1 .. b /\ a + (x - a) = x
      BY <2>1, <3>3
    <3>5. x - a \in DOMAIN f[n]
      BY <1>3, <3>2, <3>4
    <3>6. IsLine(l, n, x - a, x)
      BY <1>4, <3>2, <3>4, <3>5
    <3> QED BY <3>5, <3>6
  <2>3. CASE x <= MaxLogFileSize /\ \A n \in D : x <= start[n]
    <3>1. ASSUME NEW n \in D, NEW i \in DOMAIN f[n]
          PROVE  \E y \in DOMAIN w : x < y /\ IsLine(l, n, i, y)
      <4>1. x < start[n] + i
        BY <1>4, <2>1, <2>3
      <4> QED BY <1>3, <1>4, <4>1
    <3> QED BY <2>3, <3>1
  <2> QED BY <1>1, <1>2, <2>1, <2>2, <2>3 DEF Covers, OnlyTheBeginningLost
<1> QED BY <1>2, <1>5, <1>6, <1>7 DEF w

\* A level whose files, log and index stay.
LEMMA LevelStays ==
  ASSUME NEW l \in Enabled, Sized(l), Covered(l), UNCHANGED <<disk[l], buffer[l], logIndex[l], written[l]>>,
         \A t \in Threads : pc'[t] = "write" /\ level'[t] = l => pc[t] = "write" /\ level[t] = l
  PROVE  Sized(l)' /\ Covered(l)'
<1>1. \A n : Content(l, n)' = Content(l, n)
  BY DEF Content, Handed
<1>2. Sized(l)'
  BY <1>1 DEF Sized
<1>3. Contents(l)' = Contents(l)
  BY <1>1 DEF Contents
<1> QED BY <1>2, <1>3 DEF Covered

\* What the lemmas about a level's files need of the state.
LEMMA ContentsAreFilesOf ==
  ASSUME FilesOK, written \in [Enabled -> File], NEW l \in Enabled, NEW start \in [DOMAIN disk[l] -> Nat]
  PROVE  /\ FilesOf(Contents(l), written[l], start) /\ DOMAIN Contents(l) = DOMAIN disk[l]
         /\ \A n \in DOMAIN disk[l] : Contents(l)[n] = Content(l, n)
         /\ Contents(l)[Current] = Handed(l)
<1>1. /\ Current \in DOMAIN disk[l] /\ \A n \in DOMAIN disk[l] : Content(l, n) \in File
      /\ DOMAIN disk[l] \subseteq Nat \cup {Current}
  BY ContentsAreFiles DEF FilesOK
<1>2. Contents(l) \in [DOMAIN disk[l] -> File] /\ Contents(l)[Current] = Handed(l)
  BY <1>1 DEF Contents, Content
<1> QED BY <1>1, <1>2 DEF FilesOf, Contents

LEMMA RollInvInit == Init => RollInv
<1> SUFFICES ASSUME Init PROVE RollInv
  OBVIOUS
<1>1. ASSUME NEW l \in Enabled PROVE Sized(l) /\ Covered(l)
  <2>1. /\ disk[l] = [n \in {Current} |-> <<>>] /\ buffer[l] = <<>> /\ written[l] = <<>> /\ logIndex[l] = Current
        /\ \A t \in Threads : pc[t] = "out"
    BY DEF Init
  <2>2. DOMAIN disk[l] = {Current} /\ Content(l, Current) = <<>> /\ Contents(l) = [n \in {Current} |-> <<>>]
    BY <2>1 DEF Content, Handed, Contents
  <2>3. Sized(l)
    BY <2>1, <2>2, SizesAssumption DEF Sized
  <2> DEFINE f == [n \in {Current} |-> <<>>]
             start == [n \in {Current} |-> 0]
  <2>4. Len(f[Current]) = 0 /\ start[Current] = 0 /\ Len(written[l]) = 0 /\ start \in [DOMAIN disk[l] -> Nat]
    BY <2>1, <2>2
  <2>5. Covers(f, written[l], Current, start)
    BY <2>4 DEF Covers, AsLogged, InOrder, OnlyTheBeginningLost, Numbered, Current
  <2> QED BY <2>1, <2>2, <2>3, <2>4, <2>5 DEF Covered
<1> QED BY <1>1 DEF Init, RollInv, File

LEMMA RollInvWrite ==
  ASSUME LineInv, RollInv, NEW t \in Threads, Write(t)
  PROVE  RollInv'
<1>1. PICK l \in Enabled : l = level[t]
  BY DEF Write, LineInv, Locked, Holds
<1>2. /\ pc[t] = "write" /\ pc' = [pc EXCEPT ![t] = "release"] /\ written' = [written EXCEPT ![l] = Append(@, stream)]
      /\ UNCHANGED <<logIndex, level, restarts>>
  BY <1>1 DEF Write, Goto, locals
<1>3. stream \in Seq(Pieces) /\ FilesOK /\ written \in [Enabled -> File]
  BY DEF LineInv, ThreadsOK, RollInv
<1>4. /\ FilesOK' /\ Content(l, Current)' = Append(Handed(l), stream)
      /\ \A k \in Enabled : DOMAIN disk'[k] = DOMAIN disk[k]
      /\ \A k \in Enabled : \A n \in DOMAIN disk[k] : k # l \/ n # Current => Content(k, n)' = Content(k, n)
  BY <1>1, <1>3, WrittenFiles
<1>5. \A u \in Threads : pc[u] = "write" => u = t
  BY <1>2 DEF LineInv, Locked, Holds
<1>6. \A u \in Threads : pc'[u] # "write"
  BY <1>2, <1>5 DEF LineInv, ThreadsOK
<1>7. written' \in [Enabled -> File] /\ written'[l] = Append(written[l], stream)
      /\ \A k \in Enabled : k # l => written'[k] = written[k]
  <2>1. Append(written[l], stream) \in File
    BY <1>3, AppendAt DEF File
  <2> QED BY <1>2, <1>3, <2>1
<1>8. ASSUME restarts = 0, NEW k \in Enabled PROVE Sized(k)' /\ Covered(k)'
  <2>1. Sized(k) /\ Sized(l)
    BY <1>8 DEF RollInv
  <2>2. PICK start \in [DOMAIN disk[k] -> Nat] : Covers(Contents(k), written[k], logIndex[k], start)
    BY <1>8 DEF RollInv, Covered
  <2>3. /\ Current \in DOMAIN disk[k] /\ Handed(k) \in File
        /\ \A n \in DOMAIN disk[k] : Content(k, n) \in File
        /\ Append(Handed(k), stream) \in File
    <3>1. \A f \in File : Append(f, stream) \in File
      BY <1>3, AppendAt DEF File
    <3> QED BY <1>3, <3>1, ContentsAreFiles DEF FilesOK
  <2>4. CASE k # l
    <3>1. Contents(k)' = Contents(k)
      BY <1>4, <2>4 DEF Contents
    <3>2. Sized(k)'
      BY <1>4, <1>6, <2>1, <2>4 DEF Sized
    <3> QED BY <1>2, <1>4, <1>7, <2>2, <2>4, <3>1, <3>2 DEF Covered
  <2>5. CASE k = l
    <3>1. Len(Handed(l)) < MaxLogFileSize /\ Len(Handed(l)) \in Nat /\ Len(Append(Handed(l), stream)) = Len(Handed(l)) + 1
      BY <1>1, <1>2, <1>3, <2>1, <2>3, <2>5 DEF Sized, Content, File
    <3>2. Sized(k)'
      <4>1. Len(Content(l, Current)') <= MaxLogFileSize
        BY <1>4, <3>1, SizesAssumption
      <4> QED BY <1>4, <1>6, <2>1, <2>5, <4>1 DEF Sized
    <3>3. FilesOf(Contents(l), written[l], start) /\ DOMAIN Contents(l) = DOMAIN disk[l]
          /\ Contents(l)[Current] = Handed(l) /\ \A n \in DOMAIN disk[l] : Contents(l)[n] = Content(l, n)
      BY <1>3, <2>2, <2>5, ContentsAreFilesOf
    <3>4. /\ Contents(l)' \in [DOMAIN Contents(l) -> File] /\ Contents(l)'[Current] = Append(Contents(l)[Current], stream)
          /\ \A n \in DOMAIN Contents(l) : n # Current => Contents(l)'[n] = Contents(l)[n]
      BY <1>4, <2>3, <2>5, <3>3 DEF Contents
    <3>5. Covers(Contents(l)', written'[l], logIndex[l], start)
      BY <1>3, <1>7, <2>2, <2>5, <3>3, <3>4, AddedToBoth
    <3> QED BY <1>2, <1>4, <2>2, <2>5, <3>2, <3>5 DEF Covered
  <2> QED BY <2>4, <2>5
<1> QED BY <1>2, <1>7, <1>8 DEF RollInv

LEMMA RollInvRolling ==
  ASSUME LineInv, RollInv, NEW t \in Threads, ValidateFileRolling(t)
  PROVE  RollInv'
<1>1. PICK l \in Enabled : l = level[t]
  BY DEF ValidateFileRolling, LineInv, Locked, Holds
<1>2. /\ pc[t] = "roll" /\ pc' = [pc EXCEPT ![t] = "write"] /\ buffer' = [buffer EXCEPT ![l] = <<>>]
      /\ UNCHANGED <<level, written, restarts>>
  BY <1>1 DEF ValidateFileRolling, Goto, locals
<1>3. FilesOK /\ written \in [Enabled -> File] /\ restarts \in Nat
  BY DEF LineInv, RollInv
<1>4. \A u \in Threads : pc'[u] = "write" => u = t
  BY <1>2 DEF LineInv, ThreadsOK, Locked, Holds
<1>5. SUFFICES ASSUME restarts = 0, NEW k \in Enabled PROVE Sized(k)' /\ Covered(k)'
  BY <1>2, <1>3 DEF RollInv
<1>6. Sized(k) /\ Covered(k)
  BY <1>5 DEF RollInv
<1>7. /\ Handed(l) \in File /\ Current \in DOMAIN disk[l] /\ \A n \in DOMAIN disk[l] : Content(l, n) \in File
      /\ Len(Handed(l)) \in Nat /\ MaxLogFileSize \in Nat \ {0}
  BY <1>3, ContentsAreFiles, SizesAssumption DEF FilesOK, File
<1>8. CASE k # l
  <2>1. UNCHANGED <<disk[k], buffer[k], logIndex[k], written[k]>>
    BY <1>1, <1>2, <1>3, <1>8 DEF ValidateFileRolling, FilesOK
  <2> QED BY <1>1, <1>2, <1>4, <1>6, <1>8, <2>1, LevelStays
<1>9. CASE k = l /\ ~(Len(Handed(l)) >= MaxLogFileSize)
  <2>1. disk' = [disk EXCEPT ![l][Current] = Handed(l)] /\ logIndex' = logIndex
    BY <1>1, <1>9 DEF ValidateFileRolling
  <2>2. DOMAIN disk'[l] = DOMAIN disk[l] /\ \A n \in DOMAIN disk[l] : Content(l, n)' = Content(l, n)
    BY <1>2, <1>3, <2>1, KeptFiles
  <2>3. Content(l, Current) = Handed(l)
    BY DEF Content
  <2>4. Sized(k)'
    BY <1>6, <1>7, <1>9, <2>2, <2>3 DEF Sized
  <2>5. Contents(l)' = Contents(l)
    BY <2>2 DEF Contents
  <2> QED BY <1>2, <1>6, <1>9, <2>1, <2>2, <2>4, <2>5 DEF Covered
<1>10. CASE k = l /\ Len(Handed(l)) >= MaxLogFileSize
  <2>1. PICK s : s = Suffix(l)
    OBVIOUS
  <2>2. PICK i \in NextIndexes(l) : disk' = [disk EXCEPT ![l] = Rolled(l)] /\ logIndex' = [logIndex EXCEPT ![l] = i]
    BY <1>1, <1>10 DEF ValidateFileRolling
  <2>3. /\ FilesOK' /\ s \in Nat /\ s # Current /\ DOMAIN disk'[l] = DOMAIN disk[l] \cup {s}
        /\ Content(l, Current)' = <<>> /\ Content(l, s)' = Content(l, Current)
        /\ \A n \in DOMAIN disk[l] : n # Current /\ n # s => Content(l, n)' = Content(l, n)
    BY <1>2, <1>3, <2>1, <2>2, RolledFiles
  <2>4. \A n \in DOMAIN disk'[l] : Content(l, n)' \in File
    <3>1. \A n \in DOMAIN disk'[l] :
            Content(l, n)' = <<>> \/ \E m \in DOMAIN disk[l] : Content(l, n)' = Content(l, m)
      BY <1>7, <2>3
    <3>2. <<>> \in File
      BY DEF File
    <3> QED BY <1>7, <3>1, <3>2
  <2>5. Sized(k)'
    <3>1. \A n \in DOMAIN disk'[l] : Len(Content(l, n)') <= MaxLogFileSize
      BY <1>6, <1>7, <1>10, <2>3 DEF Sized
    <3>2. Len(Content(l, Current)') < MaxLogFileSize
      BY <1>7, <2>3
    <3> QED BY <1>10, <3>1, <3>2 DEF Sized
  <2>6. PICK start \in [DOMAIN disk[l] -> Nat] : Covers(Contents(l), written[l], logIndex[l], start)
    BY <1>6, <1>10 DEF Covered
  <2> DEFINE f == Contents(l)
             g == Contents(l)'
  <2>7. FilesOf(f, written[l], start) /\ DOMAIN f = DOMAIN disk[l] /\ f[Current] = Handed(l)
        /\ \A n \in DOMAIN disk[l] : f[n] = Content(l, n)
    BY <1>3, <2>6, ContentsAreFilesOf
  <2>8. /\ g \in [DOMAIN f \cup {s} -> File] /\ g[Current] = <<>> /\ g[s] = f[Current]
        /\ \A n \in DOMAIN f : n # Current /\ n # s => g[n] = f[n]
    BY <1>7, <2>3, <2>4, <2>7 DEF Contents
  <2>9. \A n \in DOMAIN f : Len(f[n]) <= MaxLogFileSize
    BY <1>6, <1>10, <2>7 DEF Sized
  <2>10. logIndex[l] \in Nat \cup {Current} /\ logIndex'[l] = i
    BY <1>3, <2>2 DEF FilesOK
  <2> HIDE DEF f, g
  <2>11. \E b \in [DOMAIN f \cup {s} -> Nat] : Covers(g, written[l], i, b)
    <3>1. /\ s = IF logIndex[l] = Current THEN 0 ELSE logIndex[l]
          /\ i \in IF logIndex[l] = Current THEN {0} ELSE {logIndex[l] + 1, logIndex[l] + 2}
      BY <2>1, <2>2 DEF Suffix, NextIndexes
    <3>2. Covers(f, written[l], logIndex[l], start)
      BY <2>6 DEF f
    <3>3. Short(f) /\ Renamed(f, s, g) /\ Numbering(logIndex[l], s, i)
      BY <2>8, <2>9, <2>10, <3>1 DEF Short, Renamed, Numbering
    <3> QED BY <2>7, <3>2, <3>3, RolledOnce
  <2> QED BY <1>2, <1>10, <2>3, <2>5, <2>7, <2>10, <2>11 DEF Covered, g
<1> QED BY <1>8, <1>9, <1>10

LEMMA RollInvNext == LineInv /\ RollInv /\ [Next]_vars => RollInv'
<1> SUFFICES ASSUME LineInv, RollInv, [Next]_vars PROVE RollInv'
  OBVIOUS
\* A step that writes no file, and brings no thread to the point of writing.
<1>1. ASSUME UNCHANGED <<disk, buffer, logIndex, written, restarts>>,
             \A t \in Threads : pc'[t] = "write" => pc[t] = "write" /\ level'[t] = level[t]
      PROVE  RollInv'
  <2>1. ASSUME restarts = 0, NEW l \in Enabled PROVE Sized(l)' /\ Covered(l)'
    BY <1>1, <2>1, LevelStays DEF RollInv
  <2> QED BY <1>1, <2>1 DEF RollInv
<1>2. CASE UNCHANGED vars
  BY <1>1, <1>2 DEF vars, disks, locals
<1>3. ASSUME NEW t \in Threads, NEW l \in Levels, Log(t, l) PROVE RollInv'
  BY <1>1, <1>3 DEF Log, Goto, disks, LineInv, ThreadsOK
<1>4. ASSUME NEW t \in Threads, Step(t) PROVE RollInv'
  <2>1. CASE InitializeLogger(t)
    BY <1>1, <2>1 DEF InitializeLogger, Goto, disks, locals, LineInv, ThreadsOK
  <2>2. CASE Stream(t)
    BY <1>1, <2>2 DEF Stream, Goto, disks, locals, LineInv, ThreadsOK
  <2>3. CASE LockStorage(t)
    BY <1>1, <2>3 DEF LockStorage, Goto, disks, locals, LineInv, ThreadsOK
  <2>4. CASE Release(t)
    BY <1>1, <2>4 DEF Release, Goto, disks, locals, LineInv, ThreadsOK
  <2>5. CASE NotRegistered(t)
    BY <1>1, <2>5 DEF NotRegistered, Goto, disks, LineInv, ThreadsOK
  <2> QED BY <1>4, <2>1, <2>2, <2>3, <2>4, <2>5, RollInvRolling, RollInvWrite DEF Step
<1>5. CASE Restart
  <2>1. restarts' \in Nat /\ restarts' # 0
    BY <1>5 DEF Restart, RollInv
  <2>2. written' \in [Enabled -> File]
    BY <1>5 DEF Restart, File
  <2> QED BY <2>1, <2>2 DEF RollInv
<1> QED BY <1>2, <1>3, <1>4, <1>5 DEF Next

\* Whatever threads log, until the process ends: a level's files, read by
\* suffix, are its log in its order, and what is missing of it is no more than
\* the one file that the second roll overwrites, at its beginning.
THEOREM OnlyTheFirstIsLost == Spec => []OnlyTheFirstRollIsLost
<1>1. Init => LineInv /\ RollInv
  BY LineInvInit, RollInvInit
<1>2. LineInv /\ RollInv /\ [Next]_vars => LineInv' /\ RollInv'
  BY LineInvNext, RollInvNext
<1>3. LineInv /\ RollInv => OnlyTheFirstRollIsLost
  BY CoveredImplies DEF LineInv, RollInv, OnlyTheFirstRollIsLost
<1> QED BY <1>1, <1>2, <1>3, PTL DEF Spec

-----------------------------------------------------------------------------
(* Json::Value. *)

\* What is at k.
At(m, k) == IF k \in DOMAIN m THEN m[k] ELSE Null

ShapeOK ==
  /\ type \in {Null, "array", "object"}
  /\ map = [k \in DOMAIN map |-> map[k]]
  /\ IsFiniteSet(DOMAIN map)
  /\ type = Null => DOMAIN map = {}
  /\ type = "array" => DOMAIN map \subseteq 0 .. MaxSize - 1

-----------------------------------------------------------------------------

LEMMA WithAt == \A m, k : With(m, k)[k] = At(m, k)
BY DEF With, At

\* The container counts as the value does.
LEMMA SameCount == \A D : JC!Cardinality(D) = Cardinality(D)
BY DEF JC!Cardinality, Cardinality, JC!IsFiniteSet, IsFiniteSet

LEMMA EmptyMap == <<>> = Nothing
BY DEF Nothing

\* A set of naturals that is bounded has a greatest element, if any.
LEMMA GreatestElement ==
  ASSUME NEW D, NEW b \in Nat, D \subseteq 0 .. b, D # {}
  PROVE  Max(D) \in D /\ \A k \in D : k <= Max(D)
<1> DEFINE R == OpToRel(<, Nat)
           U == {n \in Nat : \A k \in D : k <= n}
<1>1. b \in U /\ U \subseteq Nat
  OBVIOUS
<1>2. IsWellFoundedOn(R, Nat)
  BY NatLessThanWellFounded
<1> HIDE DEF R
<1>3. PICK n \in U : \A m \in U : ~ (<<m, n>> \in R)
  <2> HIDE DEF U
  <2> QED BY <1>1, <1>2, WFMin
<1>4. \A m \in U : ~(m < n)
  BY <1>3 DEF R, OpToRel
<1>5. n \in D
  <2>1. CASE n = 0
    <3>1. PICK d \in D : d \in 0 .. b
      OBVIOUS
    <3>2. d <= n
      BY <1>3
    <3> QED BY <2>1, <3>1, <3>2
  <2>2. CASE n # 0 /\ n \notin D
    <3>1. n - 1 \in Nat /\ n - 1 < n /\ \A k \in D : k <= n - 1
      BY <2>2
    <3> QED BY <1>4, <3>1
  <2> QED BY <2>1, <2>2
<1>6. \E x \in D : \A y \in D : x >= y
  BY <1>5
<1>7. Max(D) \in D /\ \A y \in D : Max(D) >= y
  BY <1>6 DEF Max
<1> QED BY <1>7

LEMMA SizeOfArray ==
  ASSUME ShapeOK, type = "array"
  PROVE  /\ Size \in 0 .. MaxSize /\ DOMAIN map \subseteq 0 .. Size - 1
         /\ Size # 0 => Size - 1 \in DOMAIN map
<1>1. CASE DOMAIN map = {}
  BY <1>1, MaxSizeAssumption, FS_EmptySet DEF Size
<1>2. CASE DOMAIN map # {}
  <2>1. DOMAIN map \subseteq 0 .. MaxSize
    BY MaxSizeAssumption DEF ShapeOK
  <2>2. Max(DOMAIN map) \in DOMAIN map /\ \A k \in DOMAIN map : k <= Max(DOMAIN map)
    BY <1>2, <2>1, GreatestElement, MaxSizeAssumption
  <2>3. Size = Max(DOMAIN map) + 1
    BY <1>2 DEF Size
  <2> QED BY <2>2, <2>3, MaxSizeAssumption DEF ShapeOK
<1> QED BY <1>1, <1>2

\* The other way round: what the size is if these are the elements.
LEMMA SizeIs ==
  ASSUME ShapeOK, type = "array", NEW n \in Nat, DOMAIN map \subseteq 0 .. n - 1, n # 0 => n - 1 \in DOMAIN map
  PROVE  Size = n
BY SizeOfArray, MaxSizeAssumption

LEMMA SizeOfOthers ==
  ASSUME ShapeOK, type # "array"
  PROVE  Size \in Nat /\ Size = Cardinality(DOMAIN map) /\ (Size = 0 <=> DOMAIN map = {})
BY FS_CardinalityType, FS_EmptySet DEF ShapeOK, Size

\* The sequence.
LEMMA ElementsOf ==
  ASSUME ShapeOK
  PROVE  /\ type = "array" => SequenceOf = [i \in 1 .. Size |-> At(map, i - 1)] /\ Len(SequenceOf) = Size
         /\ type # "array" => SequenceOf = <<>> /\ Len(SequenceOf) = 0
         /\ type # "object" => MembersOf = <<>>
         /\ type = "object" => MembersOf = map
<1>1. SequenceOf = [i \in 1 .. (IF type = "array" THEN Size ELSE 0) |-> At(map, i - 1)]
  BY WithAt DEF SequenceOf
<1>2. CASE type = "array"
  <2>1. Size \in Nat
    BY <1>2, SizeOfArray
  <2>2. SequenceOf = [i \in 1 .. Size |-> At(map, i - 1)]
    BY <1>1, <1>2
  <2> QED BY <1>2, <2>1, <2>2, EmptyMap DEF MembersOf
<1>3. CASE type # "array"
  <2>1. SequenceOf = [i \in 1 .. 0 |-> At(map, i - 1)]
    BY <1>1, <1>3
  <2>2. SequenceOf = <<>>
    BY <2>1
  <2> QED BY <1>3, <2>2, EmptyMap DEF MembersOf
<1> QED BY <1>2, <1>3

\* What the map is to its users, in terms of the map.
View ==
  /\ type = "array" =>
       /\ Size \in 0 .. MaxSize /\ DOMAIN map \subseteq 0 .. Size - 1 /\ (Size # 0 => Size - 1 \in DOMAIN map)
       /\ SequenceOf = [i \in 1 .. Size |-> At(map, i - 1)] /\ Len(SequenceOf) = Size
  /\ type # "array" => SequenceOf = <<>> /\ Size = Cardinality(DOMAIN map) /\ Size \in Nat
  /\ MembersOf = IF type = "object" THEN map ELSE <<>>

LEMMA ViewOf == ShapeOK => View
BY SizeOfArray, SizeOfOthers, ElementsOf DEF View

LEMMA ViewAfter == ShapeOK' => View'
BY ViewOf, PTL

LEMMA RemoveAtIs ==
  ASSUME NEW T, NEW s \in Seq(T), NEW i \in 1 .. Len(s)
  PROVE  JC!RemoveAt(s, i) = [k \in 1 .. Len(s) - 1 |-> IF k < i THEN s[k] ELSE s[k + 1]]
<1> DEFINE a == SubSeq(s, 1, i - 1)
           b == SubSeq(s, i + 1, Len(s))
           r == [k \in 1 .. Len(s) - 1 |-> IF k < i THEN s[k] ELSE s[k + 1]]
<1>1. a \in Seq(T) /\ Len(a) = i - 1 /\ \A k \in 1 .. i - 1 : a[k] = s[k]
  OBVIOUS
<1>2. b \in Seq(T) /\ Len(b) = Len(s) - i /\ \A k \in 1 .. Len(s) - i : b[k] = s[i + k]
  OBVIOUS
<1>3. r \in Seq(T) /\ Len(r) = Len(s) - 1
  OBVIOUS
<1>4. JC!RemoveAt(s, i) = a \o b
  BY DEF JC!RemoveAt
<1> HIDE DEF a, b
<1>5. /\ a \o b \in Seq(T) /\ Len(a \o b) = Len(a) + Len(b)
      /\ \A k \in 1 .. Len(a) + Len(b) : (a \o b)[k] = IF k <= Len(a) THEN a[k] ELSE b[k - Len(a)]
  BY <1>1, <1>2, ConcatProperties, Zenon
<1>6. Len(s) \in Nat /\ Len(a) + Len(b) = Len(s) - 1
  BY <1>1, <1>2
<1>7. ASSUME NEW k \in 1 .. Len(s) - 1 PROVE (a \o b)[k] = r[k]
  <2>1. CASE k < i
    BY <1>1, <1>5, <1>6, <2>1
  <2>2. CASE ~(k < i)
    <3>1. k - Len(a) \in 1 .. Len(s) - i /\ i + (k - Len(a)) = k + 1
      BY <1>1, <1>6, <2>2
    <3>2. b[k - Len(a)] = s[k + 1] /\ ~(k <= Len(a))
      BY <1>1, <1>2, <1>6, <2>2, <3>1
    <3> QED BY <1>5, <1>6, <2>2, <3>2
  <2> QED BY <2>1, <2>2
<1> HIDE DEF r
<1>8. a \o b = r
  BY <1>3, <1>5, <1>6, <1>7, SeqEqual
<1> QED BY <1>4, <1>8 DEF r

-----------------------------------------------------------------------------

LEMMA ShapeInit == ValueInit => ShapeOK
BY FS_EmptySet DEF ValueInit, ShapeOK, Nothing

LEMMA ShapeAssign ==
  ASSUME ShapeOK, NEW t \in {"array", "object"}, NEW k, t = "array" => k \in 0 .. MaxSize - 1, Assign(t, k)
  PROVE  ShapeOK'
<1>1. CASE ~Is(t)
  BY <1>1 DEF Assign, Refuses, ShapeOK
<1>2. CASE Is(t)
  <2>1. type' = t /\ map' = [With(map, k) EXCEPT ![k] = other]
    BY <1>2 DEF Assign
  <2>2. DOMAIN map' = DOMAIN map \cup {k} /\ map' = [j \in DOMAIN map' |-> map'[j]]
    BY <2>1 DEF With
  <2>3. IsFiniteSet(DOMAIN map')
    BY <2>2, FS_AddElement DEF ShapeOK
  <2> QED BY <1>2, <2>1, <2>2, <2>3 DEF ShapeOK, Is, Null
<1> QED BY <1>1, <1>2

\* The members that are left.
LEMMA ShapeWithout ==
  ASSUME ShapeOK, NEW n, map' = [k \in DOMAIN map \ {n} |-> map[k]], type' = type
  PROVE  ShapeOK'
BY FS_RemoveElement DEF ShapeOK

LEMMA ShapeResize ==
  ASSUME ShapeOK, NEW n \in 0 .. MaxSize, Resize(n)
  PROVE  ShapeOK'
<1>1. CASE ~Is("array")
  BY <1>1 DEF Resize, Refuses, ShapeOK
<1>2. CASE Is("array") /\ n > Size
  <2>1. type' = "array" /\ map' = With(map, n - 1)
    BY <1>2 DEF Resize
  <2>2. Size \in Nat
    BY ViewOf, MaxSizeAssumption DEF View
  <2>3. DOMAIN map' = DOMAIN map \cup {n - 1} /\ map' = [j \in DOMAIN map' |-> map'[j]]
    BY <2>1 DEF With
  <2>4. IsFiniteSet(DOMAIN map')
    BY <2>3, FS_AddElement DEF ShapeOK
  <2>5. DOMAIN map' \subseteq 0 .. MaxSize - 1
    BY <1>2, <2>2, <2>3, MaxSizeAssumption DEF ShapeOK, Is, Null
  <2> QED BY <2>1, <2>3, <2>4, <2>5 DEF ShapeOK, Null
<1>3. CASE Is("array") /\ ~(n > Size)
  <2>1. type' = "array" /\ map' = [k \in DOMAIN map \cap 0 .. n - 1 |-> map[k]]
    BY <1>3 DEF Resize
  <2>2. IsFiniteSet(DOMAIN map')
    BY <2>1, FS_Subset DEF ShapeOK
  <2> QED BY <1>3, <2>1, <2>2 DEF ShapeOK, Is, Null
<1> QED BY <1>1, <1>2, <1>3

LEMMA ShapeRemoveIndex ==
  ASSUME ShapeOK, NEW i \in 0 .. MaxSize - 1, RemoveIndex(i)
  PROVE  ShapeOK'
<1>1. CASE type # "array" \/ i \notin DOMAIN map
  BY <1>1 DEF RemoveIndex, Refuses, ShapeOK
<1>2. CASE type = "array" /\ i \in DOMAIN map
  <2>1. /\ type' = "array" /\ DOMAIN map' = (DOMAIN map \cup i .. Size - 1) \ {Size - 1}
        /\ map' = [j \in DOMAIN map' |-> map'[j]]
    BY <1>2 DEF RemoveIndex
  <2>2. Size \in 0 .. MaxSize
    BY <1>2, ViewOf DEF View
  <2>3. DOMAIN map' \subseteq 0 .. MaxSize - 1
    BY <1>2, <2>1, <2>2, MaxSizeAssumption DEF ShapeOK
  <2>4. IsFiniteSet(DOMAIN map')
    <3>1. IsFiniteSet(0 .. MaxSize - 1)
      <4>1. MaxSize - 1 \in Int /\ 0 \in Int
        BY MaxSizeAssumption
      <4> QED BY <4>1, FS_Interval
    <3> QED BY <2>3, <3>1, FS_Subset
  <2> QED BY <2>1, <2>3, <2>4 DEF ShapeOK, Null
<1> QED BY <1>1, <1>2

LEMMA ShapeStep == ShapeOK /\ [ValueNext]_valueVars => ShapeOK'
<1> SUFFICES ASSUME ShapeOK, [ValueNext]_valueVars PROVE ShapeOK'
  OBVIOUS
<1>1. ASSUME type' = type, map' = map PROVE ShapeOK'
  BY <1>1 DEF ShapeOK
<1>2. CASE UNCHANGED valueVars
  BY <1>1, <1>2 DEF valueVars
<1>3. ASSUME NEW i \in 0 .. MaxSize - 1, SetAt(i) \/ RemoveIndex(i) \/ ReadAt(i) \/ GetAt(i) \/ IsValidIndex(i) \/ Visit(i)
      PROVE  ShapeOK'
  <2>1. CASE SetAt(i)
    BY <2>1, ShapeAssign DEF SetAt
  <2>2. CASE ReadAt(i) \/ GetAt(i) \/ IsValidIndex(i) \/ Visit(i)
    BY <1>1, <2>2 DEF ReadAt, Read, GetAt, GetOr, IsValidIndex, Visit, Gets, Says, Refuses
  <2> QED BY <1>3, <2>1, <2>2, ShapeRemoveIndex
<1>4. ASSUME NEW n \in Names, \/ SetMember(n) \/ RemoveMember(n) \/ TakeMember(n)
                              \/ ReadMember(n) \/ GetMember(n) \/ IsMember(n) \/ VisitMember(n)
      PROVE  ShapeOK'
  <2>1. CASE SetMember(n)
    BY <2>1, ShapeAssign DEF SetMember
  <2>2. CASE RemoveMember(n) \/ TakeMember(n)
    BY <1>1, <2>2, ShapeWithout DEF RemoveMember, TakeMember, Refuses
  <2>3. CASE ReadMember(n) \/ GetMember(n) \/ IsMember(n) \/ VisitMember(n)
    BY <1>1, <2>3 DEF ReadMember, Read, GetMember, GetOr, IsMember, VisitMember, Gets, Says, Refuses
  <2> QED BY <1>4, <2>1, <2>2, <2>3
<1>5. CASE AppendOther
  <2>1. Size \in 0 .. MaxSize - 1
    BY <1>5, ViewOf, MaxSizeAssumption DEF AppendOther, View
  <2> QED BY <1>5, <2>1, ShapeAssign DEF AppendOther, SetAt
<1>6. CASE Clear
  BY <1>6, FS_EmptySet DEF Clear, ShapeOK, Nothing
<1>7. CASE IsEmpty \/ Give
  BY <1>1, <1>7 DEF IsEmpty, Says, Refuses, Give
<1> QED BY <1>2, <1>3, <1>4, <1>5, <1>6, <1>7, ShapeResize DEF ValueNext
-----------------------------------------------------------------------------
(* The steps as the users see them. *)

LEMMA Same ==
  ASSUME type' = type, map' = map
  PROVE  SequenceOf' = SequenceOf /\ MembersOf' = MembersOf
BY DEF SequenceOf, MembersOf, Size, With

LEMMA RefusesIsSeen ==
  ASSUME NEW how, Refuses(how)
  PROVE  JC!Refuses(how)
BY Same DEF Refuses, JC!Refuses

LEMMA GetsIsSeen ==
  ASSUME NEW value, Gets(value)
  PROVE  JC!Gets(value)
BY Same DEF Gets, JC!Gets

LEMMA SetAtIsSeen ==
  ASSUME ShapeOK, ShapeOK', NEW i \in Nat, SetAt(i)
  PROVE  JC!SetAt(i)
<1>1. JC!Calls("set", i)
  BY DEF SetAt, Calls, JC!Calls
<1>2. CASE type = "object"
  <2>1. JC!Refuses("throws")
    BY <1>2, RefusesIsSeen DEF SetAt, Assign, Is, Null
  <2> QED BY <1>1, <1>2, <2>1 DEF JC!SetAt
<1>3. CASE type # "object"
  <2> DEFINE s == SequenceOf
             m == IF i < Len(s) THEN Len(s) ELSE i + 1
  <2>1. /\ type' = "array" /\ returned' = "ok" /\ map' = [With(map, i) EXCEPT ![i] = other]
        /\ other' = At(map, i)
    BY <1>3, WithAt DEF SetAt, Assign, Is, ShapeOK
  <2>2. DOMAIN map' = DOMAIN map \cup {i} /\ \A k : At(map', k) = IF k = i THEN other ELSE At(map, k)
    BY <2>1 DEF With, At
  <2>3. /\ Len(s) \in Nat /\ DOMAIN map \subseteq 0 .. Len(s) - 1 /\ (Len(s) # 0 => Len(s) - 1 \in DOMAIN map)
        /\ s = [k \in 1 .. Len(s) |-> At(map, k - 1)]
    BY <1>3, ViewOf, MaxSizeAssumption DEF View, ShapeOK
  <2> HIDE DEF s
  <2>4. m \in Nat /\ DOMAIN map' \subseteq 0 .. m - 1 /\ m - 1 \in DOMAIN map' /\ m # 0 /\ i + 1 \in 1 .. m
    <3>1. CASE i < Len(s)
      <4>1. m = Len(s) /\ m \in Nat /\ m # 0 /\ i + 1 \in 1 .. m /\ i \in 0 .. m - 1
        BY <2>3, <3>1
      <4> HIDE DEF m
      <4>2. DOMAIN map \subseteq 0 .. m - 1 /\ m - 1 \in DOMAIN map
        BY <2>3, <4>1
      <4> QED BY <2>2, <4>1, <4>2
    <3>2. CASE ~(i < Len(s))
      <4>1. m = i + 1 /\ m \in Nat /\ m - 1 = i /\ i + 1 \in 1 .. m
        BY <2>3, <3>2
      <4>2. DOMAIN map \subseteq 0 .. m - 1
        BY <2>3, <3>2, <4>1
      <4> QED BY <2>2, <4>1, <4>2
    <3> QED BY <3>1, <3>2
  <2> HIDE DEF m
  <2>5. Size' = m
    BY <2>1, <2>4, ViewAfter, MaxSizeAssumption DEF View
  <2>6. SequenceOf' = [k \in 1 .. m |-> At(map', k - 1)]
    BY <2>1, <2>5, ViewAfter DEF View
  <2>7. JC!Padded(m) = [k \in 1 .. m |-> At(map, k - 1)]
    <3>1. ASSUME NEW k \in 1 .. m PROVE (IF k <= Len(s) THEN s[k] ELSE JC!Null) = At(map, k - 1)
      <4>1. CASE k <= Len(s)
        BY <2>3, <2>4, <4>1
      <4>2. CASE ~(k <= Len(s))
        <5>1. k - 1 \notin DOMAIN map
          BY <2>3, <2>4, <4>2
        <5> QED BY <4>2, <5>1 DEF At, Null, JC!Null
      <4> QED BY <4>1, <4>2
    <3> QED BY <3>1 DEF JC!Padded, s
  <2>8. SequenceOf' = [JC!Padded(m) EXCEPT ![i + 1] = other]
    <3>1. ASSUME NEW k \in 1 .. m PROVE At(map', k - 1) = [JC!Padded(m) EXCEPT ![i + 1] = other][k]
      <4>1. k - 1 = i <=> k = i + 1
        BY <2>4
      <4> QED BY <2>2, <2>4, <2>7, <4>1
    <3>2. [JC!Padded(m) EXCEPT ![i + 1] = other] = [k \in 1 .. m |-> [JC!Padded(m) EXCEPT ![i + 1] = other][k]]
      BY <2>7
    <3> QED BY <2>6, <3>1, <3>2
  <2>9. other' = JC!Padded(m)[i + 1]
    BY <2>1, <2>4, <2>7
  <2>10. MembersOf' = MembersOf
    BY <1>3, <2>1, ViewOf, ViewAfter DEF View
  <2> QED BY <1>1, <1>3, <2>1, <2>8, <2>9, <2>10 DEF JC!SetAt, m, s
<1> QED BY <1>2, <1>3

LEMMA SetMemberIsSeen ==
  ASSUME ShapeOK, ShapeOK', NEW n, SetMember(n)
  PROVE  JC!SetMember(n)
<1>1. JC!Calls("setMember", n)
  BY DEF SetMember, Calls, JC!Calls
<1>2. CASE type = "array"
  <2>1. JC!Refuses("throws")
    BY <1>2, RefusesIsSeen DEF SetMember, Assign, Is, Null
  <2> QED BY <1>1, <1>2, <2>1 DEF JC!SetMember
<1>3. CASE type # "array"
  <2>1. /\ type' = "object" /\ returned' = "ok" /\ map' = [With(map, n) EXCEPT ![n] = other]
        /\ other' = At(map, n)
    BY <1>3, WithAt DEF SetMember, Assign, Is, ShapeOK
  <2>2. SequenceOf' = SequenceOf /\ MembersOf' = map'
    BY <1>3, <2>1, ViewOf, ViewAfter DEF View
  <2>3. DOMAIN MembersOf = DOMAIN map /\ \A k \in DOMAIN map : MembersOf[k] = map[k]
    BY <1>3, ViewOf DEF View, ShapeOK
  <2>4. map' = [k \in DOMAIN map \cup {n} |-> IF k = n THEN other ELSE map[k]]
    BY <2>1 DEF With
  <2>5. MembersOf' = [k \in DOMAIN MembersOf \cup {n} |-> IF k = n THEN other ELSE MembersOf[k]]
    BY <2>2, <2>3, <2>4
  <2>6. other' = IF n \in DOMAIN MembersOf THEN MembersOf[n] ELSE JC!Null
    BY <2>1, <2>3 DEF At, Null, JC!Null
  <2> QED BY <1>1, <1>3, <2>1, <2>2, <2>5, <2>6 DEF JC!SetMember
<1> QED BY <1>2, <1>3
LEMMA ResizeIsSeen ==
  ASSUME ShapeOK, ShapeOK', NEW n \in 0 .. MaxSize, Resize(n)
  PROVE  JC!Resize(n)
<1>1. JC!Calls("resize", n)
  BY DEF Resize, Calls, JC!Calls
<1>2. CASE type = "object"
  <2>1. JC!Refuses("throws")
    BY <1>2, RefusesIsSeen DEF Resize, Is, Null
  <2> QED BY <1>1, <1>2, <2>1 DEF JC!Resize
<1>3. CASE type # "object"
  <2> DEFINE s == SequenceOf
             cut == [k \in DOMAIN map \cap 0 .. n - 1 |-> map[k]]
             resized == IF n > Size THEN With(map, n - 1) ELSE cut
  <2>1. /\ type' = "array" /\ other' = other /\ map' = resized
        /\ returned' = IF n = 0 \/ n - 1 \in DOMAIN resized THEN "ok" ELSE "throws"
    BY <1>3 DEF Resize, Is, ShapeOK
  <2>2. /\ Len(s) \in Nat /\ Size = Len(s)
        /\ DOMAIN map \subseteq 0 .. Len(s) - 1 /\ (Len(s) # 0 => Len(s) - 1 \in DOMAIN map)
        /\ s = [k \in 1 .. Len(s) |-> At(map, k - 1)]
    BY <1>3, ViewOf, MaxSizeAssumption, FS_EmptySet DEF View, ShapeOK
  <2>3. MembersOf' = MembersOf
    BY <1>3, <2>1, ViewOf, ViewAfter DEF View
  <2>4. SequenceOf' = [k \in 1 .. Size' |-> At(map', k - 1)] /\ Size' \in Nat
    <3>1. type' = "array"
      BY <2>1
    <3>2. SequenceOf' = [k \in 1 .. Size' |-> At(map', k - 1)] /\ Size' \in 0 .. MaxSize
      BY <3>1, ViewAfter DEF View
    <3> QED BY <3>2, MaxSizeAssumption
  <2> HIDE DEF s
  <2>5. ASSUME NEW m \in Nat PROVE JC!Padded(m) = [k \in 1 .. m |-> At(map, k - 1)]
    <3>1. ASSUME NEW k \in 1 .. m PROVE (IF k <= Len(s) THEN s[k] ELSE JC!Null) = At(map, k - 1)
      <4>1. CASE k <= Len(s)
        BY <2>2, <4>1
      <4>2. CASE ~(k <= Len(s))
        <5>1. k - 1 \notin DOMAIN map
          BY <2>2, <4>2
        <5> QED BY <4>2, <5>1 DEF At, Null, JC!Null
      <4> QED BY <4>1, <4>2
    <3> QED BY <3>1 DEF JC!Padded, s
  \* Below n nothing has changed.
  <2>6. ASSUME NEW k \in 0 .. n - 1 PROVE At(map', k) = At(map, k)
    <3>1. CASE n > Size
      BY <2>1, <3>1 DEF With, At
    <3>2. CASE ~(n > Size)
      <4>1. map' = cut
        BY <2>1, <3>2
      <4> QED BY <4>1 DEF At
    <3> QED BY <3>1, <3>2
  <2>7. DOMAIN map' \subseteq 0 .. n - 1
    <3>1. CASE n > Size
      BY <2>1, <2>2, <3>1 DEF With
    <3>2. CASE ~(n > Size)
      BY <2>1, <3>2
    <3> QED BY <3>1, <3>2
  <2>8. CASE n = 0 \/ n - 1 \in DOMAIN map'
    <3>1. Size' = n
      BY <2>1, <2>7, <2>8, ViewAfter, MaxSizeAssumption DEF View
    <3>2. \A k \in 1 .. n : At(map', k - 1) = At(map, k - 1)
      <4>1. \A k \in 1 .. n : k - 1 \in 0 .. n - 1
        OBVIOUS
      <4> QED BY <2>6, <4>1
    <3>3. SequenceOf' = JC!Padded(n) /\ returned' = "ok"
      BY <2>1, <2>4, <2>5, <2>8, <3>1, <3>2
    <3> QED BY <1>1, <1>3, <2>1, <2>3, <3>3 DEF JC!Resize
  <2>9. CASE ~(n = 0 \/ n - 1 \in DOMAIN map')
    <3> DEFINE m == Size'
    <3>1. n < Len(s) /\ returned' = "throws"
      <4>1. ~(n > Size)
        BY <2>1, <2>9 DEF With
      <4>2. n # Len(s)
        <5>1. n = Len(s) => n - 1 \in DOMAIN map /\ n - 1 \in 0 .. n - 1
          BY <2>2, <2>9
        <5> QED BY <2>1, <2>9, <4>1, <5>1
      <4> QED BY <2>1, <2>2, <2>9, <4>1, <4>2
    <3>2. m \in 0 .. n - 1 /\ DOMAIN map' \subseteq 0 .. m - 1
      <4>1. m # n /\ m \in Nat /\ DOMAIN map' \subseteq 0 .. m - 1 /\ (m # 0 => m - 1 \in DOMAIN map')
        BY <2>1, <2>9, ViewAfter, MaxSizeAssumption DEF View
      <4> HIDE DEF m
      <4>2. m # 0 => m - 1 \in 0 .. n - 1
        BY <2>7, <4>1
      <4> QED BY <2>9, <4>1, <4>2
    <3> HIDE DEF m
    <3>3. \A k \in 1 .. m : At(map', k - 1) = At(map, k - 1)
      <4>1. \A k \in 1 .. m : k - 1 \in 0 .. n - 1
        BY <3>2
      <4> QED BY <2>6, <4>1
    <3>4. SequenceOf' = JC!Padded(m)
      BY <2>4, <2>5, <3>2, <3>3 DEF m
    <3>5. ASSUME NEW i \in m + 1 .. n PROVE s[i] = JC!Null
      <4>1. i - 1 \in 0 .. n - 1 /\ i - 1 \notin DOMAIN map' /\ i \in 1 .. Len(s)
        BY <2>2, <3>1, <3>2
      <4>2. At(map, i - 1) = Null
        BY <2>6, <4>1 DEF At
      <4> QED BY <2>2, <4>1, <4>2 DEF Null, JC!Null
    <3> QED BY <1>1, <1>3, <2>1, <2>3, <3>1, <3>2, <3>4, <3>5 DEF JC!Resize, s
  <2> QED BY <2>8, <2>9
<1> QED BY <1>2, <1>3
LEMMA ClearIsSeen ==
  ASSUME ShapeOK, ShapeOK', Clear
  PROVE  JC!Clear
<1>1. JC!Calls("clear", 0) /\ returned' = "ok" /\ UNCHANGED <<type, other>> /\ DOMAIN map' = {} /\ map' = <<>>
  BY EmptyMap DEF Clear, Calls, JC!Calls, Nothing
<1>2. MembersOf' = <<>>
  BY <1>1, ViewAfter DEF View
<1>3. SequenceOf' = <<>>
  <2>1. CASE type' = "array"
    <3>1. Size' = 0
      BY <1>1, FS_EmptySet DEF Size
    <3>2. SequenceOf' = [k \in 1 .. 0 |-> At(map', k - 1)]
      BY <2>1, <3>1, ViewAfter DEF View
    <3> QED BY <3>2
  <2>2. CASE type' # "array"
    BY <2>2, ViewAfter DEF View
  <2> QED BY <2>1, <2>2
<1> QED BY <1>1, <1>2, <1>3 DEF JC!Clear

LEMMA RemoveIndexIsSeen ==
  ASSUME ShapeOK, ShapeOK', NEW i \in 0 .. MaxSize - 1, RemoveIndex(i)
  PROVE  JC!RemoveIndex(i)
<1> DEFINE s == SequenceOf
<1>1. JC!Calls("remove", i)
  BY DEF RemoveIndex, Calls, JC!Calls
<1>2. CASE type # "array"
  <2>1. Len(s) = 0 /\ i >= Len(s)
    BY <1>2, ViewOf DEF View
  <2>2. JC!Refuses("false")
    BY <1>2, RefusesIsSeen DEF RemoveIndex
  <2> QED BY <1>1, <2>1, <2>2 DEF JC!RemoveIndex
<1>3. CASE type = "array"
  <2>1. /\ Len(s) \in Nat /\ Size = Len(s)
        /\ DOMAIN map \subseteq 0 .. Len(s) - 1 /\ (Len(s) # 0 => Len(s) - 1 \in DOMAIN map)
        /\ s = [k \in 1 .. Len(s) |-> At(map, k - 1)]
    BY <1>3, ViewOf, MaxSizeAssumption DEF View
  <2> HIDE DEF s
  <2>2. CASE i \notin DOMAIN map
    <3>1. JC!Refuses("false")
      BY <1>3, <2>2, RefusesIsSeen DEF RemoveIndex
    <3>2. i < Len(s) => s[i + 1] = JC!Null
      <4>1. i < Len(s) => i + 1 \in 1 .. Len(s) /\ (i + 1) - 1 = i
        BY <2>1
      <4> QED BY <2>1, <2>2, <4>1 DEF At, Null, JC!Null
    <3> QED BY <1>1, <2>1, <3>1, <3>2 DEF JC!RemoveIndex, s
  <2>3. CASE i \in DOMAIN map
    <3> DEFINE n == Len(s) - 1
    <3>1. /\ n \in Nat /\ i \in 0 .. n /\ Len(s) = n + 1 /\ n \in DOMAIN map
      BY <2>1, <2>3
    <3>2. /\ type' = "array" /\ returned' = "ok" /\ other' = map[i]
          /\ map' = [k \in (DOMAIN map \cup i .. Size - 1) \ {Size - 1} |->
                       IF k < i THEN map[k] ELSE With(map, k + 1)[k + 1]]
      BY <1>3, <2>3 DEF RemoveIndex
    <3> HIDE DEF n
    <3>3. map' = [k \in (DOMAIN map \cup i .. n) \ {n} |-> IF k < i THEN map[k] ELSE At(map, k + 1)]
      BY <2>1, <3>2, WithAt DEF n
    <3>4. other' = s[i + 1] /\ i < Len(s)
      <4>1. i + 1 \in 1 .. Len(s) /\ (i + 1) - 1 = i
        BY <3>1
      <4> QED BY <2>1, <2>3, <3>1, <3>2, <4>1 DEF At
    <3>5. MembersOf' = MembersOf
      BY <1>3, <3>2, ViewOf, ViewAfter DEF View
    <3>6. SequenceOf' = [k \in 1 .. Size' |-> At(map', k - 1)] /\ Size' \in Nat
      <4>1. type' = "array"
        BY <3>2
      <4>2. SequenceOf' = [k \in 1 .. Size' |-> At(map', k - 1)] /\ Size' \in 0 .. MaxSize
        BY <4>1, ViewAfter DEF View
      <4> QED BY <4>2, MaxSizeAssumption
    <3>7. DOMAIN map \subseteq 0 .. n
      BY <2>1, <3>1
    \* What has moved down.
    <3>8. ASSUME NEW k \in 0 .. n - 1
          PROVE  At(map', k) = IF k < i THEN At(map, k) ELSE At(map, k + 1)
      BY <3>1, <3>3 DEF At
    <3>9. JC!RemoveAt(s, i + 1) = [k \in 1 .. n |-> IF k < i + 1 THEN s[k] ELSE s[k + 1]]
      <4> DEFINE T == {At(map, k - 1) : k \in 1 .. Len(s)}
      <4>1. s \in Seq(T) /\ i + 1 \in 1 .. Len(s)
        <5>1. PICK q : q = s /\ q = [k \in 1 .. Len(s) |-> At(map, k - 1)]
          BY <2>1
        <5>2. \A k \in 1 .. Len(s) : At(map, k - 1) \in T
          OBVIOUS
        <5> HIDE DEF T
        <5>3. q \in Seq(T)
          BY <2>1, <5>1, <5>2
        <5> QED BY <3>1, <5>1, <5>3
      <4> HIDE DEF T
      <4>2. JC!RemoveAt(s, i + 1) = [k \in 1 .. Len(s) - 1 |-> IF k < i + 1 THEN s[k] ELSE s[k + 1]]
        BY <4>1, RemoveAtIs
      <4>3. Len(s) - 1 = n
        BY <3>1
      <4> QED BY <4>2, <4>3
    <3>10. CASE Size' = n
      <4>1. ASSUME NEW k \in 1 .. n PROVE At(map', k - 1) = IF k < i + 1 THEN s[k] ELSE s[k + 1]
        <5>1. k - 1 \in 0 .. n - 1 /\ (k - 1 < i <=> k < i + 1) /\ (k - 1) + 1 = k /\ (k + 1) - 1 = k
          BY <3>1
        <5>2. k \in 1 .. Len(s) /\ k + 1 \in 1 .. Len(s)
          BY <3>1
        <5>3. s[k] = At(map, k - 1) /\ s[k + 1] = At(map, k)
          BY <2>1, <5>1, <5>2
        <5>4. At(map', k - 1) = IF k - 1 < i THEN At(map, k - 1) ELSE At(map, (k - 1) + 1)
          BY <3>8, <5>1
        <5> QED BY <5>1, <5>3, <5>4
      <4>2. SequenceOf' = JC!RemoveAt(s, i + 1)
        BY <3>6, <3>9, <3>10, <4>1
      <4> QED BY <1>1, <1>3, <3>2, <3>4, <3>5, <4>2 DEF JC!RemoveIndex, s
    <3>11. CASE Size' # n
      <4> DEFINE m == Size'
      <4>1. DOMAIN map' \subseteq 0 .. m - 1 /\ (m # 0 => m - 1 \in DOMAIN map') /\ m \in Nat
        BY <3>2, ViewAfter, MaxSizeAssumption DEF View
      <4>2. DOMAIN map' = (DOMAIN map \cup i .. n) \ {n}
        BY <3>3
      <4> HIDE DEF m
      <4>3. DOMAIN map' \subseteq 0 .. n - 1
        BY <3>1, <3>7, <4>2
      <4>4. m <= n
        BY <3>1, <4>1, <4>3
      <4>5. m # n
        BY <3>11 DEF m
      <4>6. i = n
        <5>1. i # n => n - 1 \in DOMAIN map'
          BY <3>1, <4>2
        <5>2. i # n => n - 1 \in 0 .. m - 1
          BY <4>1, <5>1
        <5> QED BY <3>1, <4>1, <4>4, <4>5, <5>2
      <4>7. m \in 0 .. i - 1
        BY <3>1, <4>1, <4>4, <4>5, <4>6
      <4>8. \A k \in 0 .. i - 1 : At(map', k) = At(map, k)
        BY <3>8, <4>6
      <4>9. ASSUME NEW k \in 1 .. m PROVE At(map', k - 1) = IF k <= Len(s) THEN s[k] ELSE JC!Null
        <5>1. k - 1 \in 0 .. i - 1 /\ k \in 1 .. Len(s) /\ k <= Len(s)
          BY <3>1, <4>7
        <5> QED BY <2>1, <4>8, <5>1
      <4>10. SequenceOf' = JC!Padded(m)
        BY <3>6, <4>9 DEF m, JC!Padded, s
      <4>11. ASSUME NEW k \in m + 1 .. i PROVE s[k] = JC!Null
        <5>1. k - 1 \in 0 .. i - 1 /\ k \in 1 .. Len(s) /\ k - 1 \notin DOMAIN map'
          BY <3>1, <4>1, <4>7
        <5>2. s[k] = At(map, k - 1) /\ At(map', k - 1) = Null
          BY <2>1, <5>1 DEF At
        <5> QED BY <4>8, <5>1, <5>2 DEF Null, JC!Null
      <4>12. i = Len(s) - 1
        BY <3>1, <4>6
      <4> QED BY <1>1, <1>3, <3>2, <3>4, <3>5, <4>7, <4>10, <4>11, <4>12 DEF JC!RemoveIndex, s
    <3> QED BY <3>10, <3>11
  <2> QED BY <2>2, <2>3
<1> QED BY <1>2, <1>3
LEMMA RemoveMemberIsSeen ==
  ASSUME ShapeOK, ShapeOK', NEW n, RemoveMember(n)
  PROVE  JC!RemoveMember(n)
<1>1. JC!Calls("removeMember", n)
  BY DEF RemoveMember, Calls, JC!Calls
<1>2. CASE type # "object" \/ n \notin DOMAIN map
  <2>1. n \notin DOMAIN MembersOf
    BY <1>2, ViewOf DEF View
  <2>2. JC!Refuses("false")
    BY <1>2, RefusesIsSeen DEF RemoveMember
  <2> QED BY <1>1, <2>1, <2>2 DEF JC!RemoveMember
<1>3. CASE type = "object" /\ n \in DOMAIN map
  <2>1. /\ returned' = "ok" /\ other' = map[n] /\ type' = type
        /\ map' = [k \in DOMAIN map \ {n} |-> map[k]]
    BY <1>3 DEF RemoveMember
  <2>2. MembersOf = map /\ MembersOf' = map' /\ SequenceOf' = SequenceOf
    BY <1>3, <2>1, ViewOf, ViewAfter DEF View
  <2> QED BY <1>1, <1>3, <2>1, <2>2 DEF JC!RemoveMember
<1> QED BY <1>2, <1>3

LEMMA TakeMemberIsSeen ==
  ASSUME ShapeOK, ShapeOK', NEW n, TakeMember(n)
  PROVE  JC!TakeMember(n)
<1>1. JC!Calls("takeMember", n)
  BY DEF TakeMember, Calls, JC!Calls
<1>2. CASE type = "array"
  <2>1. JC!Refuses("throws")
    BY <1>2, RefusesIsSeen DEF TakeMember, Is, Null
  <2> QED BY <1>1, <1>2, <2>1 DEF JC!TakeMember
<1>3. CASE type # "array"
  <2>1. /\ returned' = "ok" /\ other' = At(map, n) /\ type' = type
        /\ map' = [k \in DOMAIN map \ {n} |-> map[k]]
    BY <1>3 DEF TakeMember, Is, ShapeOK, At
  <2>2. /\ DOMAIN MembersOf = DOMAIN map /\ \A k \in DOMAIN map : MembersOf[k] = map[k]
        /\ SequenceOf' = SequenceOf
    BY <1>3, <2>1, ViewOf, ViewAfter DEF View, ShapeOK
  <2>3. MembersOf' = [k \in DOMAIN MembersOf \ {n} |-> MembersOf[k]]
    <3>1. CASE type = "object"
      BY <2>1, <2>2, <3>1, ViewAfter DEF View
    <3>2. CASE type # "object"
      <4>1. MembersOf' = <<>> /\ DOMAIN MembersOf = {}
        BY <1>3, <2>1, <2>2, <3>2, ViewAfter DEF View, ShapeOK
      <4> QED BY <4>1
    <3> QED BY <3>1, <3>2
  <2>4. other' = IF n \in DOMAIN MembersOf THEN MembersOf[n] ELSE JC!Null
    BY <2>1, <2>2 DEF At, Null, JC!Null
  <2> QED BY <1>1, <1>3, <2>1, <2>2, <2>3, <2>4 DEF JC!TakeMember
<1> QED BY <1>2, <1>3

-----------------------------------------------------------------------------
(* Calls that only look. *)

\* An element or a member as the users find it.
LEMMA FoundAt ==
  ASSUME ShapeOK
  PROVE  /\ \A i \in Nat : type # "object" =>
              /\ (i < Len(SequenceOf) => SequenceOf[i + 1] = At(map, i))
              /\ i \in DOMAIN map => i < Len(SequenceOf)
         /\ \A n : type # "array" =>
              (n \in DOMAIN MembersOf <=> n \in DOMAIN map) /\ (n \in DOMAIN map => MembersOf[n] = map[n])
<1>1. ASSUME NEW i \in Nat, type # "object"
      PROVE  /\ (i < Len(SequenceOf) => SequenceOf[i + 1] = At(map, i))
             /\ i \in DOMAIN map => i < Len(SequenceOf)
  <2>1. CASE type = "array"
    <3> DEFINE s == SequenceOf
    <3>1. /\ Len(s) \in Nat /\ DOMAIN map \subseteq 0 .. Len(s) - 1
          /\ s = [k \in 1 .. Len(s) |-> At(map, k - 1)]
      BY <2>1, ViewOf, MaxSizeAssumption DEF View
    <3> HIDE DEF s
    <3>2. i < Len(s) => s[i + 1] = At(map, i)
      <4>1. i < Len(s) => i + 1 \in 1 .. Len(s) /\ (i + 1) - 1 = i
        BY <3>1
      <4> QED BY <3>1, <4>1
    <3>3. i \in DOMAIN map => i < Len(s)
      BY <3>1
    <3> QED BY <3>2, <3>3 DEF s
  <2>2. CASE type # "array"
    <3>1. Len(SequenceOf) = 0 /\ DOMAIN map = {}
      BY <1>1, <2>2, ViewOf DEF View, ShapeOK
    <3> QED BY <3>1
  <2> QED BY <2>1, <2>2
<1>2. ASSUME NEW n, type # "array"
      PROVE  (n \in DOMAIN MembersOf <=> n \in DOMAIN map) /\ (n \in DOMAIN map => MembersOf[n] = map[n])
  BY <1>2, ViewOf DEF View, ShapeOK
<1> QED BY <1>1, <1>2

LEMMA ReadAtIsSeen ==
  ASSUME ShapeOK, NEW i \in Nat, ReadAt(i)
  PROVE  JC!ReadAt(i)
<1>1. JC!Calls("read", i)
  BY DEF ReadAt, Read, Calls, JC!Calls
<1>2. CASE type = "object"
  BY <1>1, <1>2, RefusesIsSeen DEF ReadAt, Read, Is, Null, JC!ReadAt
<1>3. CASE type # "object"
  <2>1. Gets(At(map, i))
    BY <1>3, WithAt DEF ReadAt, Read, Is, ShapeOK
  <2>2. At(map, i) = IF i < Len(SequenceOf) THEN SequenceOf[i + 1] ELSE JC!Null
    BY <1>3, FoundAt DEF At, Null, JC!Null
  <2>3. JC!Gets(IF i < Len(SequenceOf) THEN SequenceOf[i + 1] ELSE JC!Null)
    BY <2>1, <2>2, GetsIsSeen
  <2> QED BY <1>1, <1>3, <2>3 DEF JC!ReadAt
<1> QED BY <1>2, <1>3

LEMMA ReadMemberIsSeen ==
  ASSUME ShapeOK, NEW n, ReadMember(n)
  PROVE  JC!ReadMember(n)
<1>1. JC!Calls("readMember", n)
  BY DEF ReadMember, Read, Calls, JC!Calls
<1>2. CASE type = "array"
  BY <1>1, <1>2, RefusesIsSeen DEF ReadMember, Read, Is, Null, JC!ReadMember
<1>3. CASE type # "array"
  <2>1. Gets(At(map, n))
    BY <1>3, WithAt DEF ReadMember, Read, Is, ShapeOK
  <2>2. At(map, n) = IF n \in DOMAIN MembersOf THEN MembersOf[n] ELSE JC!Null
    BY <1>3, FoundAt DEF At, Null, JC!Null
  <2>3. JC!Gets(IF n \in DOMAIN MembersOf THEN MembersOf[n] ELSE JC!Null)
    BY <2>1, <2>2, GetsIsSeen
  <2> QED BY <1>1, <1>3, <2>3 DEF JC!ReadMember
<1> QED BY <1>2, <1>3

LEMMA GetAtIsSeen ==
  ASSUME ShapeOK, NEW i \in Nat, GetAt(i)
  PROVE  JC!GetAt(i)
<1>1. JC!Calls("get", i)
  BY DEF GetAt, GetOr, Calls, JC!Calls
<1>2. CASE type = "object"
  BY <1>1, <1>2, RefusesIsSeen DEF GetAt, GetOr, Is, Null, JC!GetAt
<1>3. CASE type # "object"
  <2>1. Gets(IF i \in DOMAIN map THEN map[i] ELSE other)
    BY <1>3 DEF GetAt, GetOr, Is, ShapeOK
  <2>2. CASE i \in DOMAIN map
    <3>1. i < Len(SequenceOf) /\ SequenceOf[i + 1] = map[i]
      BY <1>3, <2>2, FoundAt DEF At
    <3>2. JC!Gets(SequenceOf[i + 1])
      BY <2>1, <2>2, <3>1, GetsIsSeen
    <3> QED BY <1>1, <1>3, <3>1, <3>2 DEF JC!GetAt
  <2>3. CASE i \notin DOMAIN map
    <3>1. i < Len(SequenceOf) => SequenceOf[i + 1] = JC!Null
      BY <1>3, <2>3, FoundAt DEF At, Null, JC!Null
    <3>2. JC!Gets(other)
      BY <2>1, <2>3, GetsIsSeen
    <3> QED BY <1>1, <1>3, <3>1, <3>2 DEF JC!GetAt
  <2> QED BY <2>2, <2>3
<1> QED BY <1>2, <1>3

LEMMA GetMemberIsSeen ==
  ASSUME ShapeOK, NEW n, GetMember(n)
  PROVE  JC!GetMember(n)
<1>1. JC!Calls("getMember", n)
  BY DEF GetMember, GetOr, Calls, JC!Calls
<1>2. CASE type = "array"
  BY <1>1, <1>2, RefusesIsSeen DEF GetMember, GetOr, Is, Null, JC!GetMember
<1>3. CASE type # "array"
  <2>1. Gets(IF n \in DOMAIN map THEN map[n] ELSE other)
    BY <1>3 DEF GetMember, GetOr, Is, ShapeOK
  <2>2. (IF n \in DOMAIN map THEN map[n] ELSE other) = IF n \in DOMAIN MembersOf THEN MembersOf[n] ELSE other
    BY <1>3, FoundAt
  <2>3. JC!Gets(IF n \in DOMAIN MembersOf THEN MembersOf[n] ELSE other)
    BY <2>1, <2>2, GetsIsSeen
  <2> QED BY <1>1, <1>3, <2>3 DEF JC!GetMember
<1> QED BY <1>2, <1>3

LEMMA AnswersAreSeen ==
  ASSUME ShapeOK
  PROVE  /\ \A i \in Nat : IsValidIndex(i) => JC!IsValidIndex(i)
         /\ \A n : IsMember(n) => JC!IsMember(n)
         /\ IsEmpty => JC!IsEmpty
<1>1. Size = Len(SequenceOf) + Cardinality(DOMAIN MembersOf)
  <2>1. CASE type = "array"
    <3>1. Len(SequenceOf) = Size /\ Size \in Nat /\ DOMAIN MembersOf = {}
      BY <2>1, ViewOf, MaxSizeAssumption DEF View
    <3> QED BY <3>1, FS_EmptySet
  <2>2. CASE type # "array"
    <3>1. Len(SequenceOf) = 0 /\ Size = Cardinality(DOMAIN map) /\ Size \in Nat /\ DOMAIN MembersOf = DOMAIN map
      BY <2>2, ViewOf DEF View, ShapeOK
    <3> QED BY <3>1
  <2> QED BY <2>1, <2>2
<1>2. Size = 0 <=> SequenceOf = <<>> /\ DOMAIN MembersOf = {}
  <2>1. CASE type = "array"
    <3>1. Len(SequenceOf) = Size /\ SequenceOf = [i \in 1 .. Size |-> At(map, i - 1)] /\ DOMAIN MembersOf = {}
      BY <2>1, ViewOf DEF View
    <3>2. Size = 0 => SequenceOf = <<>>
      BY <3>1
    <3> QED BY <3>1, <3>2
  <2>2. CASE type # "array"
    <3>1. SequenceOf = <<>> /\ Size = Cardinality(DOMAIN map) /\ DOMAIN MembersOf = DOMAIN map
      BY <2>2, ViewOf DEF View, ShapeOK
    <3> QED BY <3>1, FS_EmptySet DEF ShapeOK
  <2> QED BY <2>1, <2>2
<1>3. ASSUME NEW i \in Nat, IsValidIndex(i) PROVE JC!IsValidIndex(i)
  <2>1. Refuses(IF i < Size THEN "ok" ELSE "false")
    BY <1>3 DEF IsValidIndex, Says
  <2>2. JC!Refuses(IF i < Len(SequenceOf) + Cardinality(DOMAIN MembersOf) THEN "ok" ELSE "false")
    BY <1>1, <2>1, RefusesIsSeen
  <2> QED BY <1>3, <2>2, SameCount DEF IsValidIndex, JC!IsValidIndex, Calls, JC!Calls, JC!Says
<1>4. ASSUME NEW n, IsMember(n) PROVE JC!IsMember(n)
  <2>1. JC!Calls("isMember", n)
    BY <1>4 DEF IsMember, Calls, JC!Calls
  <2>2. CASE type = "array"
    BY <1>4, <2>1, <2>2, RefusesIsSeen DEF IsMember, Is, Null, JC!IsMember
  <2>3. CASE type # "array"
    <3>1. Refuses(IF n \in DOMAIN map THEN "ok" ELSE "false")
      BY <1>4, <2>3 DEF IsMember, Is, ShapeOK, Says
    <3>2. JC!Refuses(IF n \in DOMAIN MembersOf THEN "ok" ELSE "false")
      BY <2>3, <3>1, FoundAt, RefusesIsSeen
    <3> QED BY <2>1, <2>3, <3>2 DEF JC!IsMember, JC!Says
  <2> QED BY <2>2, <2>3
<1>5. ASSUME IsEmpty PROVE JC!IsEmpty
  <2>1. Refuses(IF Size = 0 THEN "ok" ELSE "false")
    BY <1>5 DEF IsEmpty, Says
  <2>2. JC!Refuses(IF SequenceOf = <<>> /\ DOMAIN MembersOf = {} THEN "ok" ELSE "false")
    BY <1>2, <2>1, RefusesIsSeen
  <2> QED BY <1>5, <2>2 DEF IsEmpty, JC!IsEmpty, Calls, JC!Calls, JC!Says
<1> QED BY <1>3, <1>4, <1>5

\* Each element that is not null is in the map, and an index below i is one of i.
LEMMA VisitIsSeen ==
  ASSUME ShapeOK, NEW i \in Nat, Visit(i)
  PROVE  JC!Visit(i)
<1> DEFINE s == SequenceOf
           behind == {k \in DOMAIN map : k < i}
           known == {k \in 1 .. i : s[k] # JC!Null}
<1>1. /\ type = "array" /\ i \in DOMAIN map /\ asked' = <<"visit", <<i, Cardinality(behind)>>>> /\ Gets(map[i])
  BY DEF Visit, Calls
<1>2. i < Len(s) /\ s[i + 1] = map[i] /\ Len(s) \in Nat /\ DOMAIN map \subseteq 0 .. Len(s) - 1
  BY <1>1, FoundAt, ViewOf, MaxSizeAssumption DEF At, View
<1>3. IsFiniteSet(behind) /\ Cardinality(behind) \in Nat /\ Cardinality(behind) <= i
  <2>1. behind \subseteq 0 .. i - 1
    BY <1>2
  <2>2. IsFiniteSet(0 .. i - 1) /\ Cardinality(0 .. i - 1) = i
    <3>1. i - 1 \in Int /\ (0 > i - 1 <=> i = 0) /\ (i - 1) - 0 + 1 = i
      OBVIOUS
    <3>2. /\ IsFiniteSet(0 .. i - 1)
          /\ Cardinality(0 .. i - 1) = IF 0 > i - 1 THEN 0 ELSE (i - 1) - 0 + 1
      BY <3>1, FS_Interval
    <3> QED BY <3>1, <3>2
  <2> HIDE DEF behind
  <2>3. IsFiniteSet(behind) /\ Cardinality(behind) <= Cardinality(0 .. i - 1)
    BY <2>1, <2>2, FS_Subset
  <2> QED BY <2>2, <2>3, FS_CardinalityType
<1>4. \A k \in known : k - 1 \in behind
  <2>1. ASSUME NEW k \in known PROVE k - 1 \in behind
    <3>1. k \in 1 .. i /\ s[k] # JC!Null /\ k - 1 \in Nat /\ k - 1 < Len(s) /\ k - 1 < i /\ (k - 1) + 1 = k
      BY <1>2
    <3>2. s[(k - 1) + 1] = At(map, k - 1)
      BY <1>1, <3>1, FoundAt
    <3> QED BY <3>1, <3>2 DEF At, Null, JC!Null
  <2> QED BY <2>1
<1>5. Cardinality(known) \in Nat /\ Cardinality(known) <= Cardinality(behind)
  <2>1. known \subseteq Int
    OBVIOUS
  <2> HIDE DEF known, behind
  <2> DEFINE f == [k \in known |-> k - 1]
  <2>2. f \in [known -> behind] /\ \A j, k \in known : f[j] = f[k] => j = k
    BY <1>4, <2>1
  <2>3. f \in Injection(known, behind)
    BY <2>2 DEF Injection, IsInjective
  <2> HIDE DEF f
  <2> QED BY <1>3, <2>3, FS_Injection, FS_CardinalityType
<1>6. JC!Gets(s[i + 1])
  BY <1>1, <1>2, GetsIsSeen
<1>7. Cardinality(behind) \in Cardinality(known) .. i
  BY <1>3, <1>5
<1>8. JC!Calls("visit", <<i, Cardinality(behind)>>)
  BY <1>1 DEF JC!Calls
<1> QED BY <1>2, <1>6, <1>7, <1>8, SameCount DEF JC!Visit

LEMMA VisitMemberIsSeen ==
  ASSUME ShapeOK, NEW n, VisitMember(n)
  PROVE  JC!VisitMember(n)
<1>1. n \in DOMAIN MembersOf /\ MembersOf[n] = map[n]
  BY FoundAt DEF VisitMember
<1> QED BY <1>1, GetsIsSeen DEF VisitMember, JC!VisitMember, Calls, JC!Calls

-----------------------------------------------------------------------------

LEMMA ContainerInit == ValueInit => JC!Init
<1> SUFFICES ASSUME ValueInit PROVE JC!Init
  OBVIOUS
<1>1. SequenceOf = <<>> /\ MembersOf = <<>>
  BY ShapeInit, ViewOf DEF View, ValueInit, Null
<1> QED BY <1>1 DEF ValueInit, JC!Init, Null, JC!Null

LEMMA ContainerStep == ShapeOK /\ ShapeOK' /\ [ValueNext]_valueVars => [JC!Next]_JC!vars
<1> SUFFICES ASSUME ShapeOK, ShapeOK', [ValueNext]_valueVars PROVE [JC!Next]_JC!vars
  OBVIOUS
<1>1. CASE UNCHANGED valueVars
  BY <1>1, Same DEF valueVars, JC!vars
<1>2. ASSUME NEW i \in 0 .. MaxSize - 1, SetAt(i) \/ RemoveIndex(i) \/ ReadAt(i) \/ GetAt(i) \/ IsValidIndex(i) \/ Visit(i)
      PROVE  JC!Next
  <2>1. i \in Nat
    OBVIOUS
  <2>2. JC!SetAt(i) \/ JC!RemoveIndex(i) \/ JC!ReadAt(i) \/ JC!GetAt(i) \/ JC!IsValidIndex(i) \/ JC!Visit(i)
    BY <1>2, <2>1, SetAtIsSeen, RemoveIndexIsSeen, ReadAtIsSeen, GetAtIsSeen, AnswersAreSeen, VisitIsSeen
  <2> QED BY <2>2 DEF JC!Next
<1>3. ASSUME NEW n \in Names, \/ SetMember(n) \/ RemoveMember(n) \/ TakeMember(n)
                              \/ ReadMember(n) \/ GetMember(n) \/ IsMember(n) \/ VisitMember(n)
      PROVE  JC!Next
  <2>1. \/ JC!SetMember(n) \/ JC!RemoveMember(n) \/ JC!TakeMember(n)
        \/ JC!ReadMember(n) \/ JC!GetMember(n) \/ JC!IsMember(n) \/ JC!VisitMember(n)
    BY <1>3, SetMemberIsSeen, RemoveMemberIsSeen, TakeMemberIsSeen, ReadMemberIsSeen, GetMemberIsSeen,
       AnswersAreSeen, VisitMemberIsSeen
  <2> QED BY <2>1 DEF JC!Next
<1>4. ASSUME NEW n \in 0 .. MaxSize, Resize(n) PROVE JC!Next
  BY <1>4, ResizeIsSeen DEF JC!Next
<1>5. CASE AppendOther
  <2>1. Size \in 0 .. MaxSize - 1 /\ Size \in Nat /\ SetAt(Size)
    BY <1>5, ViewOf, MaxSizeAssumption DEF AppendOther, View
  <2>2. JC!SetAt(Size)
    BY <2>1, SetAtIsSeen
  <2> QED BY <2>1, <2>2 DEF JC!Next
<1>6. CASE Clear
  BY <1>6, ClearIsSeen DEF JC!Next
<1>7. CASE IsEmpty
  BY <1>7, AnswersAreSeen DEF JC!Next
<1>8. CASE Give
  BY <1>8, Same DEF Give, JC!Give, JC!Next
<1> QED BY <1>1, <1>2, <1>3, <1>4, <1>5, <1>6, <1>7, <1>8 DEF ValueNext

\* Whatever the values and the names, and whatever calls are made of a
\* Json::Value in whatever order: its users see a sequence or a set of members,
\* whichever it is first used as; only nulls may be taken for what is not there.
THEOREM ValuesAreContainers == ValueSpec => ValueIsContainer
<1>1. ValueSpec => []ShapeOK
  BY ShapeInit, ShapeStep, PTL DEF ValueSpec
<1> QED BY <1>1, ContainerInit, ContainerStep, PTL DEF ValueSpec, ValueIsContainer, JC!Spec
===============================================================================
