------------------------------- MODULE Handlers -------------------------------
(***************************************************************************)
(* What becomes of one request body: the poll loop's tests, the handler    *)
(* that the body's interface selects, and the reply with its code and its  *)
(* request id.  Every Worker thread has a handler of its own, but all of   *)
(* them draw request ids from one generator that no lock guards.           *)
(***************************************************************************)
EXTENDS Naturals, Sequences, FiniteSets

CONSTANTS
  Workers,      \* the Worker threads
  InterfaceOf,  \* InterfaceOf[w]: the interface whose handler w runs
  Bodies,       \* the bodies clients send
  KeyIsEmpty,   \* whether apiKey is configured empty, as it is by default
  MaxRequests   \* bound on the requests

\* INTERFACEID, and the largest number a client writes in interface.
MONITOR == 0
YOLO == 1
SHIP == 2
SAR == 3
INTERFACEID_COUNT == 4
MaxInterface == 7

\* A body is described by what the program asks of it.  Its text is an object
\* (or null, which [] makes one), has a syntax error, has a root of another type
\* ("other"), has an array or object as interface ("list"), or nests deeper
\* than the reader goes ("deep").  interface is what atoi makes of the member.
\* An api_key "null" is a JSON null, which reads as the empty string; "list" is
\* an array or object.  A "narrow" image decodes, but its shorter side vanishes
\* when the longer one is scaled to ShipDetector's maximum.
Body == [text : {"object", "syntax", "other", "list", "deep"}, interface : 0 .. MaxInterface,
         key : {"right", "wrong", "missing", "null", "list"},
         image : {"good", "narrow", "bad", "number", "missing"}]

ASSUME BodiesAssumption == Bodies \subseteq Body
ASSUME WorkersAssumption == InterfaceOf \in [Workers -> {YOLO, SHIP, SAR}]
ASSUME OtherAssumption == MaxRequests \in Nat /\ KeyIsEmpty \in BOOLEAN

Success(i) == CASE i = SHIP -> "201" [] i = SAR -> "301" [] OTHER -> "101"

RightKey(b) == b.key = "right" \/ (KeyIsEmpty /\ b.key = "null")

VARIABLES
  licensed,  \* FALSE in a build with USE_LICENSE: super_switch is never set
  received,  \* the number of requests read so far
  work,      \* work[w]: the request w has, NoWork if none
  pc,        \* pc[w]: the step w is at
  code,      \* code[w]: the code of the reply w prepares
  generator, \* the position of the generator
  read,      \* read[w]: the position w has read
  drawn,     \* drawn[w]: the words w has drawn
  raced,     \* whether two workers have been inside the generator at once
  replies,   \* the replies sent
  thrown     \* the body over which an exception left its thread, if one has

vars == <<licensed, received, work, pc, code, generator, read, drawn, raced, replies, thrown>>

WordsPerId == 2
None == "none"
NoWork == [n |-> 0]

\* An exception that leaves its thread ends the process.
alive == thrown = {}

Init ==
  /\ licensed \in BOOLEAN
  /\ received = 0 /\ generator = 0
  /\ work = [w \in Workers |-> NoWork] /\ pc = [w \in Workers |-> "idle"]
  /\ code = [w \in Workers |-> None]
  /\ read = [w \in Workers |-> 0] /\ drawn = [w \in Workers |-> <<>>]
  /\ raced = FALSE /\ replies = {} /\ thrown = {}

-----------------------------------------------------------------------------
(* The poll loop. *)

Reject(b, c) ==
  /\ received' = received + 1
  /\ replies' = replies \cup {[n |-> received', body |-> b, code |-> c,
                               id |-> <<>>]}
  /\ UNCHANGED <<licensed, work, pc, code, generator, read, drawn, raced, thrown>>

\* The poll loop answers a body that is not JSON, and one whose interface is
\* no number in range, with a code and an empty request id.
PollRejects(b) ==
  /\ alive /\ received < MaxRequests
  /\ b.text = "syntax" \/ (b.text = "object" /\ b.interface >= INTERFACEID_COUNT)
  /\ Reject(b, "005")

\* parse throws for a text that nests too deep, [] for a root that is neither an
\* object nor null, asString for an interface that is an array or object.
PollThrows(b) ==
  /\ alive /\ received < MaxRequests
  /\ b.text \in {"other", "list", "deep"}
  /\ received' = received + 1
  /\ thrown' = {b}
  /\ UNCHANGED <<licensed, work, pc, code, generator, read, drawn, raced, replies>>

\* Nobody registered a queue for the interface.
NoService(b) ==
  /\ alive /\ received < MaxRequests
  /\ b.text = "object" /\ b.interface < INTERFACEID_COUNT
  /\ \A w \in Workers : InterfaceOf[w] # b.interface
  /\ Reject(b, "10002")

Handle(w, b) ==
  /\ alive /\ received < MaxRequests
  /\ b.text = "object" /\ b.interface = InterfaceOf[w]
  /\ pc[w] = "idle"
  /\ received' = received + 1
  /\ work' = [work EXCEPT ![w] = [n |-> received', body |-> b]]
  /\ pc' = [pc EXCEPT ![w] = "licence"]
  /\ UNCHANGED <<licensed, code, generator, read, drawn, raced, replies, thrown>>

-----------------------------------------------------------------------------
(* The handler: each test answers with its own code or goes on. *)

\* w is at step s; the next step is t, or the reply with code c if bad.
Test(w, s, bad, c, t) ==
  /\ alive /\ pc[w] = s
  /\ pc' = [pc EXCEPT ![w] = IF bad THEN "draw" ELSE t]
  /\ code' = [code EXCEPT ![w] = IF bad THEN c ELSE @]
  /\ UNCHANGED <<licensed, received, work, generator, read, drawn, raced, replies, thrown>>

Licence(w) == Test(w, "licence", ~licensed, "10010", "validate")

\* Mutant: a present key is as good as a right one.
ValidateKeyPresent(w) ==
  /\ work[w] # NoWork
  /\ Test(w, "validate", work[w].body.key = "missing", "10001", "image")

Validate(w) ==
  /\ work[w] # NoWork /\ work[w].body.key # "list"
  /\ Test(w, "validate", ~RightKey(work[w].body), "10001", "image")

\* asString throws for an array or an object; nothing catches it in a Worker.
ValidateThrows(w) ==
  /\ alive /\ pc[w] = "validate" /\ work[w].body.key = "list"
  /\ thrown' = {work[w].body}
  /\ UNCHANGED <<licensed, received, work, pc, code, generator, read, drawn, raced, replies>>

CheckImage(w) ==
  /\ work[w] # NoWork
  /\ Test(w, "image", work[w].body.image \in {"missing", "number"}, "10005", "decode")

DecodeImage(w) ==
  /\ work[w] # NoWork
  /\ Test(w, "decode", work[w].body.image = "bad", "10007", "detect")

\* cv::resize throws for an empty size; only ShipDetector scales by the sides
\* of the image.
Vanishes(w) == InterfaceOf[w] = SHIP /\ work[w].body.image = "narrow"

Detect(w) ==
  /\ work[w] # NoWork /\ ~Vanishes(w)
  /\ Test(w, "detect", TRUE, Success(InterfaceOf[w]), "draw")

DetectThrows(w) ==
  /\ alive /\ pc[w] = "detect" /\ Vanishes(w)
  /\ thrown' = {work[w].body}
  /\ UNCHANGED <<licensed, received, work, pc, code, generator, read, drawn, raced, replies>>

-----------------------------------------------------------------------------
(* The reply: generateRequestID, then the response goes to the sender. *)

Inside(w) == pc[w] = "advance" \/ (pc[w] = "draw" /\ drawn[w] # <<>>)

DrawRead(w) ==
  /\ alive /\ pc[w] = "draw"
  /\ read' = [read EXCEPT ![w] = generator]
  /\ pc' = [pc EXCEPT ![w] = "advance"]
  /\ raced' = (raced \/ \E v \in Workers \ {w} : Inside(v))
  /\ UNCHANGED <<licensed, received, work, code, generator, drawn, replies, thrown>>

\* Mutant: the position is not moved on.
DrawSame(w) ==
  /\ alive /\ pc[w] = "advance"
  /\ drawn' = [drawn EXCEPT ![w] = Append(@, read[w])]
  /\ pc' = [pc EXCEPT ![w] = IF Len(drawn'[w]) = WordsPerId THEN "reply" ELSE "draw"]
  /\ UNCHANGED <<licensed, received, work, code, generator, read, raced, replies, thrown>>

DrawAdvance(w) ==
  /\ alive /\ pc[w] = "advance"
  /\ generator' = read[w] + 1
  /\ drawn' = [drawn EXCEPT ![w] = Append(@, read[w])]
  /\ pc' = [pc EXCEPT ![w] = IF Len(drawn'[w]) = WordsPerId THEN "reply" ELSE "draw"]
  /\ UNCHANGED <<licensed, received, work, code, read, raced, replies, thrown>>

\* Mutant: the reply is not handed on.
ReplyDropped(w) ==
  /\ alive /\ pc[w] = "reply"
  /\ pc' = [pc EXCEPT ![w] = "idle"] /\ work' = [work EXCEPT ![w] = NoWork]
  /\ code' = [code EXCEPT ![w] = None] /\ drawn' = [drawn EXCEPT ![w] = <<>>]
  /\ UNCHANGED <<licensed, received, generator, read, raced, replies, thrown>>

Reply(w) ==
  /\ alive /\ pc[w] = "reply"
  /\ replies' = replies \cup
       {[n |-> work[w].n, body |-> work[w].body, code |-> code[w], id |-> drawn[w]]}
  /\ pc' = [pc EXCEPT ![w] = "idle"] /\ work' = [work EXCEPT ![w] = NoWork]
  /\ code' = [code EXCEPT ![w] = None] /\ drawn' = [drawn EXCEPT ![w] = <<>>]
  /\ read' = [read EXCEPT ![w] = 0]
  /\ UNCHANGED <<licensed, received, generator, raced, thrown>>

-----------------------------------------------------------------------------
PollStep == \E b \in Bodies :
  \/ PollRejects(b) \/ PollThrows(b) \/ NoService(b) \/ \E w \in Workers : Handle(w, b)
HandlerStep(w) ==
  \/ Licence(w) \/ Validate(w) \/ ValidateThrows(w) \/ CheckImage(w) \/ DecodeImage(w)
  \/ Detect(w) \/ DetectThrows(w) \/ DrawRead(w) \/ DrawAdvance(w) \/ Reply(w)

Next == PollStep \/ \E w \in Workers : HandlerStep(w)

Spec == Init /\ [][Next]_vars

\* Every Worker thread keeps running, and a detector returns.
FairSpec == Spec /\ \A w \in Workers : WF_vars(HandlerStep(w))

-----------------------------------------------------------------------------
(* Properties. *)

Defects(b) ==
  (IF b.text = "syntax" \/ b.interface >= INTERFACEID_COUNT THEN {"005"} ELSE {})
  \cup (IF b.interface \notin {InterfaceOf[w] : w \in Workers} THEN {"10002"} ELSE {})
  \cup (IF licensed THEN {} ELSE {"10010"})
  \cup (IF ~RightKey(b) THEN {"10001"} ELSE {})
  \cup (IF b.image \in {"missing", "number"} THEN {"10005"} ELSE {})
  \cup (IF b.image = "bad" THEN {"10007"} ELSE {})

\* A reply names a defect the body has, and reports the success of its own
\* interface only if the body has none, however the tests are spread over
\* the poll loop and the handlers.
CodeTellsTheTruth ==
  \A r \in replies :
    IF Defects(r.body) = {} THEN r.code = Success(r.body.interface)
                            ELSE r.code \in Defects(r.body)

\* The bodies the program does not survive: those the poll loop throws over,
\* and, when a licensed handler of their interface gets them, an api_key that is
\* an array or an object, and a narrow image with a right key for the ship
\* detector.
Fatal(b) ==
  \/ b.text \in {"other", "list", "deep"}
  \/ /\ b.text = "object" /\ licensed /\ \E w \in Workers : InterfaceOf[w] = b.interface
     /\ b.key = "list" \/ (RightKey(b) /\ b.interface = SHIP /\ b.image = "narrow")

\* Only such a body ends the process, and none of them is ever answered, however
\* far the other requests have come.
FatalBodiesEndIt ==
  [](/\ \A b \in thrown : Fatal(b)
     /\ \A r \in replies : ~Fatal(r.body))

\* Every request that a worker takes is answered or the process ends, and it
\* ends over the bodies that are fatal and over no other.
AnsweredOrEnded ==
  /\ \A n \in 1 .. MaxRequests :
       (\E w \in Workers : work[w] # NoWork /\ work[w].n = n)
         ~> ((\E r \in replies : r.n = n) \/ ~alive)
  /\ FatalBodiesEndIt

\* Two replies of workers have the same request id only if two workers have
\* been inside the generator at the same time.
SameIdOnlyAfterARace ==
  \A r, s \in replies : r.id # <<>> /\ r.id = s.id /\ r.n # s.n => raced

\* docs/API.md and docs/API-zmq.md: request_id is a unique string that tells
\* the requests apart.
RequestIdsDiffer == \A r, s \in replies : r.n # s.n => r.id # s.id

=============================================================================
