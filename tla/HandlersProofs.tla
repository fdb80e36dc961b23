---------------------------- MODULE HandlersProofs ----------------------------
(***************************************************************************)
(* For every set of workers, interfaces and bodies: the code of a reply is *)
(* true of its body, request ids repeat only after a race, and the process *)
(* ends over the bodies that are fatal and over no other.                  *)
(*                                                                         *)
(* The first needs what a request has been through: a worker that has come *)
(* to a step has seen each earlier test pass (Passed).  The second needs   *)
(* that without a race at most one worker is inside the generator (Alone); *)
(* then every first word drawn is below the generator's position and no    *)
(* two ids, drawn or sent, begin with the same word (Fresh).               *)
(***************************************************************************)
EXTENDS Handlers, TLAPS

Pcs == {"idle", "licence", "validate", "image", "decode", "detect", "draw", "advance", "reply"}
Codes == {None, "005", "10002", "10010", "10001", "10005", "10007", "101", "201", "301"}

TypeOK ==
  /\ licensed \in BOOLEAN /\ raced \in BOOLEAN /\ thrown \subseteq Bodies
  /\ received \in Nat /\ generator \in Nat
  /\ work \in [Workers -> {NoWork} \cup [n : Nat, body : Bodies]]
  /\ pc \in [Workers -> Pcs]
  /\ code \in [Workers -> Codes]
  /\ read \in [Workers -> Nat]
  /\ drawn \in [Workers -> Seq(Nat)]
  /\ replies \subseteq [n : Nat, body : Bodies, code : Codes, id : Seq(Nat)]

Truthful(b, c) == IF Defects(b) = {} THEN c = Success(b.interface) ELSE c \in Defects(b)

\* What is known of the body of a worker at each step.
Passed(w) ==
  LET b == work[w].body IN
    /\ pc[w] # "idle" => work[w] \in [n : Nat, body : Bodies] /\ b.text = "object" /\ b.interface = InterfaceOf[w]
    /\ pc[w] \in {"validate", "image", "decode", "detect"} => licensed
    /\ pc[w] \in {"image", "decode", "detect"} => RightKey(b)
    /\ pc[w] \in {"decode", "detect"} => b.image \notin {"missing", "number"}
    /\ pc[w] = "detect" => b.image \in {"good", "narrow"}
    /\ pc[w] \in {"draw", "advance", "reply"} => Truthful(b, code[w])

TruthInv == /\ TypeOK
            /\ \A w \in Workers : Passed(w)
            /\ \A r \in replies : Truthful(r.body, r.code)

(* The codes of the poll loop and of each handler test name a defect of the  *)
(* body, and a body that passed them all has none.                           *)
LEMMA CodesAreTrue ==
  ASSUME NEW b \in Body
  PROVE  /\ b.text = "syntax" \/ b.interface >= INTERFACEID_COUNT => Truthful(b, "005")
         /\ (\A w \in Workers : InterfaceOf[w] # b.interface) => Truthful(b, "10002")
         /\ ~licensed => Truthful(b, "10010")
         /\ ~RightKey(b) => Truthful(b, "10001")
         /\ b.image \in {"missing", "number"} => Truthful(b, "10005")
         /\ b.image = "bad" => Truthful(b, "10007")
         /\ \A w \in Workers : /\ b.text = "object" /\ b.interface = InterfaceOf[w] /\ licensed
                               /\ RightKey(b) /\ b.image \in {"good", "narrow"}
              => Truthful(b, Success(InterfaceOf[w]))
  <1>1. b.image \in {"good", "narrow", "bad", "number", "missing"} /\ b.interface \in Nat
    BY DEF Body
  <1>2. ASSUME NEW w \in Workers, b.text = "object", b.interface = InterfaceOf[w], licensed,
               RightKey(b), b.image \in {"good", "narrow"}
        PROVE  Truthful(b, Success(InterfaceOf[w]))
    <2>1. ~ (b.interface >= INTERFACEID_COUNT)
      BY <1>2, WorkersAssumption DEF YOLO, SHIP, SAR, INTERFACEID_COUNT
    <2>2. Defects(b) = {}
      BY <1>2, <2>1 DEF Defects
    <2>. QED
      BY <1>2, <2>2 DEF Truthful
  <1>3. \A c : c \in Defects(b) => Truthful(b, c)
    BY DEF Truthful
  <1>4. /\ b.text = "syntax" \/ b.interface >= INTERFACEID_COUNT => "005" \in Defects(b)
        /\ (\A w \in Workers : InterfaceOf[w] # b.interface) => "10002" \in Defects(b)
        /\ ~licensed => "10010" \in Defects(b)
        /\ ~RightKey(b) => "10001" \in Defects(b)
    BY DEF Defects
  <1>5. /\ b.image \in {"missing", "number"} => "10005" \in Defects(b)
        /\ b.image = "bad" => "10007" \in Defects(b)
    BY <1>1 DEF Defects
  <1>. QED
    BY <1>2, <1>3, <1>4, <1>5

(* What is true of a body stays true: the licence does not change.           *)
LEMMA TruthStays ==
  ASSUME licensed' = licensed, NEW b, NEW c
  PROVE  Truthful(b, c)' <=> Truthful(b, c)
  BY DEF Truthful, Defects

-----------------------------------------------------------------------------
LEMMA TruthInit == Init => TruthInv
  <1>. SUFFICES ASSUME Init PROVE TruthInv
    OBVIOUS
  <1>1. TypeOK
    <2>1. code \in [Workers -> Codes] /\ pc \in [Workers -> Pcs]
      BY DEF Init, Codes, Pcs
    <2>2. drawn \in [Workers -> Seq(Nat)] /\ read \in [Workers -> Nat]
      BY DEF Init
    <2>. QED
      BY <2>1, <2>2 DEF Init, TypeOK
  <1>2. \A w \in Workers : Passed(w)
    BY DEF Init, Passed
  <1>. QED
    BY <1>1, <1>2 DEF Init, TruthInv

\* The steps of w that leave every other worker and the replies alone.
Others(w) == \A v \in Workers \ {w} : work'[v] = work[v] /\ pc'[v] = pc[v] /\ code'[v] = code[v]

LEMMA OthersPassed ==
  ASSUME TruthInv, NEW w \in Workers, Others(w), licensed' = licensed, Passed(w)'
  PROVE  \A v \in Workers : Passed(v)'
  BY TruthStays DEF TruthInv, Others, Passed, RightKey

(* A test of the handler: its own code or the next step.                     *)
LEMMA TestStep ==
  ASSUME TruthInv, NEW w \in Workers, NEW s \in Pcs, NEW c \in Codes, NEW t \in Pcs
  PROVE  /\ Test(w, s, TRUE, c, t) \/ Test(w, s, FALSE, c, t) =>
              /\ TypeOK' /\ Others(w) /\ licensed' = licensed /\ replies' = replies
              /\ work' = work /\ pc[w] = s
         /\ Test(w, s, TRUE, c, t) => pc'[w] = "draw" /\ code'[w] = c
         /\ Test(w, s, FALSE, c, t) => pc'[w] = t
  BY DEF TruthInv, TypeOK, Test, Others, Pcs

LEMMA TruthStep == TruthInv /\ [Next]_vars => TruthInv'
  <1>. SUFFICES ASSUME TruthInv, [Next]_vars PROVE TruthInv'
    OBVIOUS
  <1>0. /\ TypeOK /\ \A w \in Workers : Passed(w)
        /\ \A r \in replies : Truthful(r.body, r.code)
    BY DEF TruthInv
  <1>a. ASSUME TypeOK', NEW w \in Workers, Others(w), Passed(w)', licensed' = licensed, replies' = replies
        PROVE  TruthInv'
    BY <1>0, <1>a, OthersPassed, TruthStays DEF TruthInv
  <1>b. ASSUME NEW b \in Bodies, NEW c \in Codes, Reject(b, c), Truthful(b, c) PROVE TruthInv'
    <2>0. [n |-> received', body |-> b, code |-> c, id |-> <<>>]
            \in [n : Nat, body : Bodies, code : Codes, id : Seq(Nat)]
      BY <1>0, <1>b DEF TypeOK, Reject
    <2>1. TypeOK'
      BY <1>0, <1>b, <2>0 DEF TypeOK, Reject
    <2>2. \A w \in Workers : Passed(w)'
      BY <1>0, <1>b, TruthStays DEF Passed, Reject, RightKey
    <2>3. \A r \in replies' : Truthful(r.body, r.code)
      BY <1>0, <1>b DEF Reject
    <2>4. \A r \in replies' : Truthful(r.body, r.code)'
      BY <1>b, <2>3, TruthStays DEF Reject
    <2>. QED
      BY <2>1, <2>2, <2>4 DEF TruthInv
  <1>1. ASSUME NEW b \in Bodies, PollRejects(b) PROVE TruthInv'
    BY <1>1, <1>b, CodesAreTrue, BodiesAssumption DEF PollRejects, Codes
  <1>2. ASSUME NEW b \in Bodies, NoService(b) PROVE TruthInv'
    BY <1>2, <1>b, CodesAreTrue, BodiesAssumption DEF NoService, Codes
  <1>6. ASSUME NEW b \in Bodies, PollThrows(b) PROVE TruthInv'
    <2>1. TypeOK'
      BY <1>0, <1>6 DEF TypeOK, PollThrows
    <2>2. \A w \in Workers : Passed(w)'
      BY <1>0, <1>6, TruthStays DEF Passed, PollThrows, RightKey
    <2>3. \A r \in replies' : Truthful(r.body, r.code)'
      BY <1>0, <1>6, TruthStays DEF PollThrows
    <2>. QED
      BY <2>1, <2>2, <2>3 DEF TruthInv
  <1>3. ASSUME NEW b \in Bodies, NEW w \in Workers, Handle(w, b) PROVE TruthInv'
    <2>1. TypeOK'
      BY <1>0, <1>3 DEF TypeOK, Handle, Pcs
    <2>2. /\ Others(w) /\ replies' = replies /\ licensed' = licensed
          /\ pc'[w] = "licence" /\ work'[w] = [n |-> received', body |-> b]
      BY <1>0, <1>3 DEF TypeOK, Handle, Others
    <2>3. Passed(w)'
      BY <1>3, <2>1, <2>2 DEF Passed, Handle, TypeOK
    <2>. QED
      BY <1>a, <2>1, <2>2, <2>3
  <1>4. ASSUME NEW w \in Workers, HandlerStep(w) PROVE TruthInv'
    <2>. DEFINE b == work[w].body
    <2>0. Passed(w) /\ TypeOK
      BY <1>0
    <2>a. pc[w] # "idle" => b \in Body
      BY <2>0, BodiesAssumption DEF Passed
    <2>b. ASSUME NEW s \in Pcs \ {"idle"}, NEW c \in Codes, NEW t \in Pcs,
                 Test(w, s, TRUE, c, t), Truthful(b, c)
          PROVE  TruthInv'
      <3>1. /\ TypeOK' /\ Others(w) /\ licensed' = licensed /\ replies' = replies
            /\ work' = work /\ pc[w] = s /\ pc'[w] = "draw" /\ code'[w] = c
        BY <2>b, TestStep
      <3>2. Truthful(work[w].body, code[w])'
        BY <2>b, <3>1, TruthStays
      <3>3. Passed(w)'
        BY <2>0, <2>b, <3>1, <3>2 DEF Passed
      <3>. QED
        BY <1>a, <3>1, <3>3
    <2>c. ASSUME NEW s \in Pcs \ {"idle"}, NEW c \in Codes, NEW t \in {"validate", "image", "decode", "detect"},
                 Test(w, s, FALSE, c, t),
                 licensed,
                 t \in {"image", "decode", "detect"} => RightKey(b),
                 t \in {"decode", "detect"} => b.image \notin {"missing", "number"},
                 t = "detect" => b.image \in {"good", "narrow"}
          PROVE  TruthInv'
      <3>1. t \in Pcs
        BY DEF Pcs
      <3>2. /\ TypeOK' /\ Others(w) /\ licensed' = licensed /\ replies' = replies
            /\ work' = work /\ pc[w] = s /\ pc'[w] = t
        BY <2>c, <3>1, TestStep
      <3>3. Passed(w)'
        BY <2>0, <2>c, <3>2 DEF Passed, RightKey
      <3>. QED
        BY <1>a, <3>2, <3>3
    <2>1. CASE Licence(w)
      <3>1. pc[w] = "licence" /\ b \in Body
        BY <2>0, <2>a, <2>1 DEF Licence, Test, Passed
      <3>2. CASE ~licensed
        <4>1. Test(w, "licence", TRUE, "10010", "validate")
          BY <2>1, <3>2 DEF Licence, Test
        <4>2. Truthful(b, "10010")
          BY <3>1, <3>2, CodesAreTrue
        <4>. QED
          BY <2>b, <4>1, <4>2 DEF Pcs, Codes
      <3>3. CASE ~ (~licensed)
        <4>1. Test(w, "licence", FALSE, "10010", "validate")
          BY <2>1, <3>3 DEF Licence, Test
        <4>. QED
          BY <2>c, <3>1, <3>3, <4>1 DEF Pcs, Codes
      <3>. QED
        BY <3>2, <3>3
    <2>2. CASE Validate(w)
      <3>1. pc[w] = "validate" /\ b \in Body /\ licensed
        BY <2>0, <2>a, <2>2 DEF Validate, Test, Passed
      <3>2. CASE ~RightKey(b)
        <4>1. Test(w, "validate", TRUE, "10001", "image")
          BY <2>2, <3>2 DEF Validate, Test
        <4>2. Truthful(b, "10001")
          BY <3>1, <3>2, CodesAreTrue
        <4>. QED
          BY <2>b, <4>1, <4>2 DEF Pcs, Codes
      <3>3. CASE ~ (~RightKey(b))
        <4>1. Test(w, "validate", FALSE, "10001", "image")
          BY <2>2, <3>3 DEF Validate, Test
        <4>. QED
          BY <2>c, <3>1, <3>3, <4>1 DEF Pcs, Codes
      <3>. QED
        BY <3>2, <3>3
    <2>3. CASE ValidateThrows(w) \/ DetectThrows(w)
      <3>1. work[w].body \in Bodies
        BY <2>0, <2>3 DEF ValidateThrows, DetectThrows, Passed
      <3>2. TypeOK' /\ Others(w) /\ licensed' = licensed /\ replies' = replies
        BY <2>0, <2>3, <3>1 DEF ValidateThrows, DetectThrows, TypeOK, Others
      <3>3. Passed(w)'
        BY <2>0, <2>3 DEF ValidateThrows, DetectThrows, Passed, RightKey
      <3>. QED
        BY <1>a, <3>2, <3>3
    <2>4. CASE CheckImage(w)
      <3>1. pc[w] = "image" /\ b \in Body /\ licensed /\ RightKey(b)
        BY <2>0, <2>a, <2>4 DEF CheckImage, Test, Passed
      <3>2. CASE b.image \in {"missing", "number"}
        <4>1. Test(w, "image", TRUE, "10005", "decode")
          BY <2>4, <3>2 DEF CheckImage, Test
        <4>2. Truthful(b, "10005")
          BY <3>1, <3>2, CodesAreTrue
        <4>. QED
          BY <2>b, <4>1, <4>2 DEF Pcs, Codes
      <3>3. CASE ~ (b.image \in {"missing", "number"})
        <4>1. Test(w, "image", FALSE, "10005", "decode")
          BY <2>4, <3>3 DEF CheckImage, Test
        <4>. QED
          BY <2>c, <3>1, <3>3, <4>1 DEF Pcs, Codes
      <3>. QED
        BY <3>2, <3>3
    <2>5. CASE DecodeImage(w)
      <3>1. pc[w] = "decode" /\ b \in Body /\ licensed /\ RightKey(b) /\ b.image \notin {"missing", "number"}
        BY <2>0, <2>a, <2>5 DEF DecodeImage, Test, Passed
      <3>2. CASE b.image = "bad"
        <4>1. Test(w, "decode", TRUE, "10007", "detect")
          BY <2>5, <3>2 DEF DecodeImage, Test
        <4>2. Truthful(b, "10007")
          BY <3>1, <3>2, CodesAreTrue
        <4>. QED
          BY <2>b, <4>1, <4>2 DEF Pcs, Codes
      <3>3. CASE ~ (b.image = "bad")
        <4>1. Test(w, "decode", FALSE, "10007", "detect")
          BY <2>5, <3>3 DEF DecodeImage, Test
        <4>2. b.image \in {"good", "narrow"}
          BY <3>1, <3>3 DEF Body
        <4>. QED
          BY <2>c, <3>1, <4>1, <4>2 DEF Pcs, Codes
      <3>. QED
        BY <3>2, <3>3
    <2>6. CASE Detect(w)
      <3>1. /\ pc[w] = "detect" /\ b \in Body /\ b.text = "object" /\ b.interface = InterfaceOf[w]
            /\ licensed /\ RightKey(b) /\ b.image \in {"good", "narrow"}
        BY <2>0, <2>a, <2>6 DEF Detect, Test, Passed
      <3>2. Truthful(b, Success(InterfaceOf[w]))
        BY <3>1, CodesAreTrue
      <3>3. Success(InterfaceOf[w]) \in Codes
        BY DEF Success, Codes
      <3>. QED
        BY <2>6, <2>b, <3>2, <3>3 DEF Detect, Pcs
    <2>7. CASE DrawRead(w)
      <3>1. TypeOK' /\ Others(w) /\ licensed' = licensed /\ replies' = replies
        BY <2>0, <2>7 DEF DrawRead, TypeOK, Others, Pcs
      <3>2. work' = work /\ code' = code /\ pc[w] = "draw" /\ pc'[w] = "advance"
        BY <2>0, <2>7 DEF DrawRead, TypeOK
      <3>3. Passed(w)'
        BY <2>0, <3>1, <3>2, TruthStays DEF Passed
      <3>. QED
        BY <1>a, <3>1, <3>3
    <2>8. CASE DrawAdvance(w)
      <3>0. drawn' \in [Workers -> Seq(Nat)]
        BY <2>0, <2>8 DEF DrawAdvance, TypeOK
      <3>1. TypeOK' /\ Others(w) /\ licensed' = licensed /\ replies' = replies
        BY <2>0, <2>8, <3>0 DEF DrawAdvance, TypeOK, Others, Pcs
      <3>2. work' = work /\ code' = code /\ pc[w] = "advance" /\ pc'[w] \in {"reply", "draw"}
        BY <2>0, <2>8 DEF DrawAdvance, TypeOK
      <3>3. Passed(w)'
        BY <2>0, <3>1, <3>2, TruthStays DEF Passed
      <3>. QED
        BY <1>a, <3>1, <3>3
    <2>9. CASE Reply(w)
      <3>. DEFINE new == [n |-> work[w].n, body |-> b, code |-> code[w], id |-> drawn[w]]
      <3>0. /\ work[w] \in [n : Nat, body : Bodies] /\ Truthful(b, code[w])
            /\ replies' = replies \cup {new}
        BY <2>0, <2>9 DEF Reply, Passed
      <3>1. new \in [n : Nat, body : Bodies, code : Codes, id : Seq(Nat)]
        BY <2>0, <3>0 DEF TypeOK
      <3>2. TypeOK' /\ Others(w) /\ licensed' = licensed /\ pc'[w] = "idle"
        BY <2>0, <2>9, <3>0, <3>1 DEF Reply, TypeOK, Others, Pcs, Codes
      <3>3. \A v \in Workers : Passed(v)'
        BY <3>2, OthersPassed DEF Passed
      <3>4. \A r \in replies' : Truthful(r.body, r.code)
        BY <1>0, <3>0
      <3>5. \A r \in replies' : Truthful(r.body, r.code)'
        BY <3>2, <3>4, TruthStays
      <3>. QED
        BY <3>2, <3>3, <3>5 DEF TruthInv
    <2>. QED
      BY <1>4, <2>1, <2>2, <2>3, <2>4, <2>5, <2>6, <2>7, <2>8, <2>9 DEF HandlerStep
  <1>5. CASE UNCHANGED vars
    BY <1>0, <1>5, TruthStays DEF vars, TruthInv, TypeOK, Passed, RightKey
  <1>. QED
    BY <1>1, <1>2, <1>3, <1>4, <1>5, <1>6 DEF Next, PollStep

LEMMA TruthInvariant == Spec => []TruthInv
  BY TruthInit, TruthStep, PTL DEF Spec

(* Whatever bodies arrive, however many workers: every reply names a defect  *)
(* of the body it answers, and success only when there is none.              *)
THEOREM RepliesTellTheTruth == Spec => []CodeTellsTheTruth
  <1>1. TruthInv => CodeTellsTheTruth
    BY DEF TruthInv, CodeTellsTheTruth, Truthful
  <1>. QED
    BY <1>1, TruthInvariant, PTL

-----------------------------------------------------------------------------
EmptyHanded == \A w \in Workers : pc[w] \notin {"draw", "advance", "reply"} => drawn[w] = <<>>

\* Without a race: who is inside the generator, and what it has read there.
Alone == \A v, w \in Workers : Inside(v) /\ Inside(w) => v = w
Current == \A w \in Workers : pc[w] = "advance" => read[w] = generator

\* Without a race: the first words of the ids begun and of the ids sent.
Begun(w) == drawn[w] # <<>>
Fresh ==
  /\ \A w \in Workers : Begun(w) => drawn[w][1] < generator
  /\ \A v, w \in Workers : Begun(v) /\ Begun(w) /\ v # w => drawn[v][1] # drawn[w][1]
  /\ \A r \in replies : r.id # <<>> =>
       r.id[1] < generator /\ \A w \in Workers : Begun(w) => drawn[w][1] # r.id[1]
  /\ \A r, s \in replies : r.id # <<>> /\ s.id # <<>> /\ r.n # s.n => r.id[1] # s.id[1]

IdInv == EmptyHanded /\ (~raced => Alone /\ Current /\ Fresh)

LEMMA IdInit == Init => IdInv
  BY DEF Init, IdInv, EmptyHanded, Alone, Current, Fresh, Begun, Inside

(* The steps that touch neither the generator, nor an id, nor a worker that  *)
(* is inside the generator.                                                  *)
LEMMA IdQuiet ==
  ASSUME IdInv, raced' = raced, UNCHANGED <<generator, read, drawn>>,
         \A w \in Workers : pc'[w] = pc[w] \/ (pc[w] \notin {"draw", "advance", "reply"} /\ pc'[w] # "advance"),
         \A r \in replies' : r \in replies \/ r.id = <<>>
  PROVE  IdInv'
  <1>1. EmptyHanded'
    BY DEF IdInv, EmptyHanded
  <1>2. \A w \in Workers : Inside(w)' => Inside(w)
    BY DEF IdInv, EmptyHanded, Inside
  <1>3. ~raced => Alone' /\ Current'
    BY <1>2 DEF IdInv, Alone, Current
  <1>4. ~raced => Fresh'
    BY DEF IdInv, Fresh, Begun
  <1>. QED
    BY <1>1, <1>3, <1>4 DEF IdInv

LEMMA Below == \A x, y \in Nat : x < y => x < y + 1 /\ x # y
  OBVIOUS

LEMMA FirstWord ==
  ASSUME NEW s \in Seq(Nat), NEW x \in Nat
  PROVE  Append(s, x) # <<>> /\ Append(s, x)[1] = IF s = <<>> THEN x ELSE s[1]
  <1>1. CASE s = <<>>
    BY <1>1
  <1>2. CASE s # <<>>
    <2>1. Len(s) \in Nat \ {0} /\ Len(Append(s, x)) = Len(s) + 1
      BY <1>2
    <2>2. 1 \in 1 .. Len(s)
      BY <2>1
    <2>. QED
      BY <1>2, <2>1, <2>2
  <1>. QED
    BY <1>1, <1>2

LEMMA IdStep == TypeOK /\ IdInv /\ [Next]_vars => IdInv'
  <1>. SUFFICES ASSUME TypeOK, IdInv, [Next]_vars PROVE IdInv'
    OBVIOUS
  <1>1. ASSUME NEW b \in Bodies, PollRejects(b) \/ PollThrows(b) \/ NoService(b) PROVE IdInv'
    BY <1>1, IdQuiet DEF PollRejects, PollThrows, NoService, Reject
  <1>2. ASSUME NEW b \in Bodies, NEW w \in Workers, Handle(w, b) PROVE IdInv'
    BY <1>2, IdQuiet DEF Handle, TypeOK
  <1>3. ASSUME NEW w \in Workers,
               \/ Licence(w) \/ Validate(w) \/ CheckImage(w)
               \/ DecodeImage(w) \/ Detect(w) \/ ValidateThrows(w) \/ DetectThrows(w)
        PROVE  IdInv'
    <2>1. /\ raced' = raced /\ replies' = replies /\ UNCHANGED <<generator, read, drawn>>
          /\ \A v \in Workers :
               pc'[v] = pc[v] \/ (pc[v] \notin {"draw", "advance", "reply"} /\ pc'[v] # "advance")
      BY <1>3 DEF TypeOK, Licence, Validate, CheckImage, DecodeImage, Detect, ValidateThrows, DetectThrows, Test
    <2>. QED
      BY <2>1, IdQuiet
  <1>4. ASSUME NEW w \in Workers, DrawRead(w) PROVE IdInv'
    <2>1. /\ pc[w] = "draw" /\ pc'[w] = "advance" /\ read'[w] = generator
          /\ \A v \in Workers \ {w} : pc'[v] = pc[v] /\ read'[v] = read[v]
          /\ UNCHANGED <<generator, drawn, replies>>
      BY <1>4 DEF TypeOK, DrawRead
    <2>2. EmptyHanded'
      BY <2>1 DEF IdInv, EmptyHanded
    <2>3. ASSUME ~raced' PROVE Alone' /\ Current' /\ Fresh'
      <3>1. ~raced /\ \A v \in Workers \ {w} : ~Inside(v)
        BY <1>4, <2>3 DEF DrawRead
      <3>2. \A v \in Workers \ {w} : ~Inside(v)'
        BY <2>1, <3>1 DEF Inside
      <3>3. Fresh'
        BY <2>1, <3>1 DEF IdInv, Fresh, Begun
      <3>. QED
        BY <2>1, <3>2, <3>3, <3>1 DEF IdInv, Alone, Current
    <2>. QED
      BY <2>2, <2>3 DEF IdInv
  <1>5. ASSUME NEW w \in Workers, DrawAdvance(w) PROVE IdInv'
    <2>1. /\ pc[w] = "advance" /\ pc'[w] \in {"draw", "reply"}
          /\ drawn'[w] = Append(drawn[w], read[w]) /\ generator' = read[w] + 1
          /\ \A v \in Workers \ {w} : pc'[v] = pc[v] /\ drawn'[v] = drawn[v]
          /\ UNCHANGED <<read, replies, raced>>
      BY <1>5 DEF TypeOK, DrawAdvance
    <2>0. drawn[w] \in Seq(Nat) /\ read[w] \in Nat /\ generator \in Nat
      BY DEF TypeOK
    <2>2. /\ drawn'[w] # <<>>
          /\ drawn'[w][1] = IF drawn[w] = <<>> THEN read[w] ELSE drawn[w][1]
      BY <2>0, <2>1, FirstWord
    <2>3. EmptyHanded'
      BY <2>1 DEF IdInv, EmptyHanded
    <2>4. ASSUME ~raced PROVE Alone' /\ Current' /\ Fresh'
      <3>1. Inside(w) /\ read[w] = generator /\ Alone /\ Fresh
        BY <2>1, <2>4 DEF IdInv, Current, Inside
      <3>2. \A v \in Workers \ {w} : ~Inside(v) /\ ~Inside(v)'
        BY <2>1, <3>1 DEF Alone, Inside
      <3>3. Alone' /\ Current'
        BY <2>1, <3>2 DEF Alone, Current, Inside
      <3>4. \A x \in Nat : x < generator => x < generator' /\ x # generator
        BY <2>0, <2>1, <2>2, <3>1, Below
      <3>5. generator < generator'
        BY <2>0, <2>1, <2>2, <3>1
      <3>6. /\ \A v \in Workers : Begun(v) => drawn[v][1] \in Nat
            /\ \A r \in replies : r.id # <<>> => r.id[1] \in Nat
        BY DEF TypeOK, Begun
      <3>7. /\ \A v \in Workers : Begun(v)' => drawn'[v][1] < generator'
            /\ \A v \in Workers \ {w} : Begun(v)' <=> Begun(v)
        BY <2>0, <2>1, <2>2, <3>1, <3>4, <3>5, <3>6 DEF Fresh, Begun
      <3>8. \A v \in Workers \ {w} : Begun(v) => drawn'[w][1] # drawn[v][1]
        BY <2>0, <2>2, <3>1, <3>4, <3>6 DEF Fresh, Begun
      <3>9. \A r \in replies : r.id # <<>> => r.id[1] < generator' /\ drawn'[w][1] # r.id[1]
        BY <2>0, <2>2, <3>1, <3>4, <3>6 DEF Fresh, Begun
      <3>10. Fresh'
        BY <2>1, <3>1, <3>7, <3>8, <3>9 DEF Fresh
      <3>. QED
        BY <3>3, <3>10
    <2>. QED
      BY <2>1, <2>3, <2>4 DEF IdInv
  <1>6. ASSUME NEW w \in Workers, Reply(w) PROVE IdInv'
    <2>. DEFINE new == [n |-> work[w].n, body |-> work[w].body, code |-> code[w], id |-> drawn[w]]
    <2>1. /\ pc'[w] = "idle" /\ drawn'[w] = <<>> /\ replies' = replies \cup {new}
          /\ \A v \in Workers \ {w} : pc'[v] = pc[v] /\ drawn'[v] = drawn[v] /\ read'[v] = read[v]
          /\ UNCHANGED <<generator, raced>>
      BY <1>6 DEF TypeOK, Reply
    <2>2. EmptyHanded'
      BY <2>1 DEF IdInv, EmptyHanded
    <2>3. ASSUME ~raced PROVE Alone' /\ Current' /\ Fresh'
      <3>1. Alone /\ Current /\ Fresh
        BY <2>3 DEF IdInv
      <3>2. Alone' /\ Current'
        BY <2>1, <3>1 DEF Alone, Current, Inside
      <3>3. /\ \A v \in Workers : Begun(v)' => v # w /\ Begun(v)
            /\ new.id = drawn[w] /\ (new.id # <<>> => Begun(w))
        BY <2>1 DEF Begun
      <3>4. Fresh'
        <4>1. /\ \A v \in Workers : Begun(v)' => drawn'[v][1] < generator'
              /\ \A u, v \in Workers : Begun(u)' /\ Begun(v)' /\ u # v => drawn'[u][1] # drawn'[v][1]
          BY <2>1, <3>1, <3>3 DEF Fresh
        <4>2. \A r \in replies' : r.id # <<>> =>
                r.id[1] < generator' /\ \A v \in Workers : Begun(v)' => drawn'[v][1] # r.id[1]
          BY <2>1, <3>1, <3>3 DEF Fresh
        <4>3. \A r, s \in replies' : r.id # <<>> /\ s.id # <<>> /\ r.n # s.n => r.id[1] # s.id[1]
          BY <2>1, <3>1, <3>3 DEF Fresh
        <4>. QED
          BY <4>1, <4>2, <4>3 DEF Fresh
      <3>. QED
        BY <3>2, <3>4
    <2>. QED
      BY <2>1, <2>2, <2>3 DEF IdInv
  <1>7. CASE UNCHANGED vars
    BY <1>7, IdQuiet DEF vars
  <1>. QED
    BY <1>1, <1>2, <1>3, <1>4, <1>5, <1>6, <1>7 DEF Next, PollStep, HandlerStep

(* However many workers share the generator and whatever their requests:     *)
(* two replies carry the same request id only if two workers have been       *)
(* inside generateRequestID at the same time.                                *)
THEOREM IdsRepeatOnlyAfterARace == Spec => []SameIdOnlyAfterARace
  <1>1. TruthInv => TypeOK
    BY DEF TruthInv
  <1>2. IdInv => SameIdOnlyAfterARace
    BY DEF IdInv, Fresh, SameIdOnlyAfterARace
  <1>. QED
    BY <1>1, <1>2, IdInit, IdStep, TruthInvariant, PTL DEF Spec

-----------------------------------------------------------------------------
\* Who has come to the reply has been found not to be fatal.
Spared == \A w \in Workers : pc[w] \in {"draw", "advance", "reply"} => ~Fatal(work[w].body)

EndedInv ==
  /\ Spared
  /\ \A b \in thrown : Fatal(b)
  /\ \A r \in replies : ~Fatal(r.body)

LEMMA FatalStays ==
  ASSUME licensed' = licensed, NEW b
  PROVE  Fatal(b)' <=> Fatal(b)
  BY DEF Fatal, RightKey

(* A body that fails a test of its handler before the one that throws over   *)
(* it, or has passed them all, is not fatal.                                 *)
LEMMA TestSpares ==
  ASSUME TruthInv, EndedInv, NEW w \in Workers, NEW s \in Pcs, NEW c, NEW t,
         NEW bad \in BOOLEAN, Test(w, s, bad, c, t),
         bad \/ t \in {"draw", "advance", "reply"} => ~Fatal(work[w].body)
  PROVE  EndedInv'
  <1>1. /\ licensed' = licensed /\ work' = work /\ thrown' = thrown /\ replies' = replies
        /\ \A v \in Workers \ {w} : pc'[v] = pc[v]
        /\ pc'[w] = IF bad THEN "draw" ELSE t
    BY DEF Test, TruthInv, TypeOK
  <1>2. Spared'
    BY <1>1, FatalStays DEF EndedInv, Spared
  <1>. QED
    BY <1>1, <1>2, FatalStays DEF EndedInv

LEMMA EndedStep == TruthInv /\ EndedInv /\ [Next]_vars => EndedInv'
  <1>. SUFFICES ASSUME TruthInv, EndedInv, [Next]_vars PROVE EndedInv'
    OBVIOUS
  <1>0. TypeOK /\ \A w \in Workers : Passed(w)
    BY DEF TruthInv
  <1>1. ASSUME NEW b \in Bodies, PollRejects(b) \/ NoService(b) PROVE EndedInv'
    <2>1. ~Fatal(b)
      BY <1>1, WorkersAssumption
      DEF PollRejects, NoService, Fatal, YOLO, SHIP, SAR, INTERFACEID_COUNT
    <2>2. PICK c : Reject(b, c)
      BY <1>1 DEF PollRejects, NoService
    <2>3. /\ licensed' = licensed /\ UNCHANGED <<pc, work, thrown>>
          /\ \A r \in replies' : r \in replies \/ r.body = b
      BY <2>2 DEF Reject
    <2>. QED
      BY <2>1, <2>3, FatalStays DEF EndedInv, Spared
  <1>2. ASSUME NEW b \in Bodies, PollThrows(b) PROVE EndedInv'
    BY <1>2, FatalStays DEF EndedInv, Spared, PollThrows, Fatal
  <1>3. ASSUME NEW b \in Bodies, NEW w \in Workers, Handle(w, b) PROVE EndedInv'
    <2>1. /\ licensed' = licensed /\ UNCHANGED <<thrown, replies>> /\ pc'[w] = "licence"
          /\ \A v \in Workers \ {w} : pc'[v] = pc[v] /\ work'[v] = work[v]
      BY <1>0, <1>3 DEF Handle, TypeOK
    <2>. QED
      BY <2>1, FatalStays DEF EndedInv, Spared
  <1>4. ASSUME NEW w \in Workers, HandlerStep(w) PROVE EndedInv'
    <2>. DEFINE b == work[w].body
    <2>0. Passed(w)
      BY <1>0
    <2>1. CASE Licence(w)
      <3>1. pc[w] = "licence" /\ b.text = "object"
        BY <2>0, <2>1 DEF Licence, Test, Passed
      <3>2. ~licensed => ~Fatal(b)
        BY <3>1 DEF Fatal
      <3>. QED
        BY <2>1, <3>2, TestSpares DEF Licence, Pcs
    <2>2. CASE Validate(w)
      <3>1. pc[w] = "validate" /\ b.text = "object" /\ b.key # "list"
        BY <2>0, <2>2 DEF Validate, Test, Passed
      <3>2. ~RightKey(b) => ~Fatal(b)
        BY <3>1 DEF Fatal
      <3>. QED
        BY <2>2, <3>2, TestSpares DEF Validate, Pcs, RightKey
    <2>3. CASE CheckImage(w)
      <3>1. pc[w] = "image" /\ b.text = "object" /\ RightKey(b)
        BY <2>0, <2>3 DEF CheckImage, Test, Passed
      <3>2. b.image \in {"missing", "number"} => ~Fatal(b)
        BY <3>1 DEF Fatal, RightKey
      <3>. DEFINE absent == b.image \in {"missing", "number"}
      <3>3. absent \in BOOLEAN /\ Test(w, "image", absent, "10005", "decode") /\ (absent => ~Fatal(b))
        BY <2>3, <3>2 DEF CheckImage
      <3>. HIDE DEF absent
      <3>. QED
        BY <3>3, TestSpares DEF Pcs
    <2>4. CASE DecodeImage(w)
      <3>1. pc[w] = "decode" /\ b.text = "object" /\ RightKey(b)
        BY <2>0, <2>4 DEF DecodeImage, Test, Passed
      <3>2. b.image = "bad" => ~Fatal(b)
        BY <3>1 DEF Fatal, RightKey
      <3>. QED
        BY <2>4, <3>2, TestSpares DEF DecodeImage, Pcs
    <2>5. CASE Detect(w)
      <3>1. /\ pc[w] = "detect" /\ b.text = "object" /\ RightKey(b)
            /\ b.interface = InterfaceOf[w] /\ ~Vanishes(w)
        BY <2>0, <2>5 DEF Detect, Test, Passed
      <3>2. ~Fatal(b)
        BY <3>1 DEF Fatal, RightKey, Vanishes
      <3>. QED
        BY <2>5, <3>2, TestSpares DEF Detect, Pcs
    <2>6. CASE ValidateThrows(w) \/ DetectThrows(w)
      <3>0. /\ b.text = "object" /\ b.interface = InterfaceOf[w] /\ licensed
            /\ b.key = "list" \/ (RightKey(b) /\ b.interface = SHIP /\ b.image = "narrow")
        <4>1. CASE ValidateThrows(w)
          BY <2>0, <4>1 DEF ValidateThrows, Passed
        <4>2. CASE DetectThrows(w)
          BY <2>0, <4>2 DEF DetectThrows, Passed, Vanishes
        <4>. QED
          BY <2>6, <4>1, <4>2
      <3>1. Fatal(b)
        BY <3>0 DEF Fatal
      <3>2. thrown' = {b} /\ UNCHANGED <<licensed, pc, work, replies>>
        BY <2>6 DEF ValidateThrows, DetectThrows
      <3>. QED
        BY <3>1, <3>2, FatalStays DEF EndedInv, Spared
    <2>7. CASE DrawRead(w) \/ DrawAdvance(w)
      <3>1. /\ UNCHANGED <<licensed, work, thrown, replies>> /\ pc[w] \in {"draw", "advance", "reply"}
            /\ \A v \in Workers \ {w} : pc'[v] = pc[v]
        BY <1>0, <2>7 DEF DrawRead, DrawAdvance, TypeOK
      <3>. QED
        BY <3>1, FatalStays DEF EndedInv, Spared
    <2>8. CASE Reply(w)
      <3>1. /\ UNCHANGED <<licensed, thrown>> /\ pc'[w] = "idle" /\ ~Fatal(b)
            /\ \A v \in Workers \ {w} : pc'[v] = pc[v] /\ work'[v] = work[v]
            /\ \A r \in replies' : r \in replies \/ r.body = b
        BY <1>0, <2>8 DEF Reply, TypeOK, EndedInv, Spared
      <3>. QED
        BY <3>1, FatalStays DEF EndedInv, Spared
    <2>. QED
      BY <1>4, <2>1, <2>2, <2>3, <2>4, <2>5, <2>6, <2>7, <2>8 DEF HandlerStep
  <1>5. CASE UNCHANGED vars
    BY <1>5, FatalStays DEF vars, EndedInv, Spared
  <1>. QED
    BY <1>1, <1>2, <1>3, <1>4, <1>5 DEF Next, PollStep

(* However many workers and whatever the bodies: the process ends only over  *)
(* a fatal body (one the poll loop throws over, an api_key that is a         *)
(* container, a narrow image for the ship detector), and none is answered.   *)
THEOREM FatalBodiesEndTheProcess == Spec => FatalBodiesEndIt
  <1>1. Init => EndedInv
    BY DEF Init, EndedInv, Spared
  <1>2. EndedInv => (/\ \A b \in thrown : Fatal(b)
                     /\ \A r \in replies : ~Fatal(r.body))
    BY DEF EndedInv
  <1>. QED
    BY <1>1, <1>2, EndedStep, TruthInvariant, PTL DEF Spec, FatalBodiesEndIt
=============================================================================
