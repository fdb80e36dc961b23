-------------------------------- MODULE MCBoot --------------------------------
(* A small instance of Boot for TLC. *)
EXTENDS Boot, TLC

MCInterfaces == <<"SHIP", "SAR">>
MCPoolOf == [SHIP |-> "ship", SAR |-> "sar"]

\* Number and Word of ConfigParams, whose constants are being made here.
Number(n) == [is |-> "int", n |-> n]
Word(w) == [is |-> w, n |-> 0]

Switched(w) == [l \in LogKeys |-> w]
NotAFile(w) == [is |-> w, log |-> Switched("absent")]

Complete ==
  [is |-> "object", http |-> "complete", bucket |-> "complete", zmq |-> "complete",
   auth |-> Number(0), caffe |-> "complete",
   ship |-> Number(1), sar |-> Number(0), yolo |-> Number(1), log |-> Switched("false")]

\* Each pool of every kind of number, with the other of another size.
PoolFiles ==
  {[Complete EXCEPT !.ship = s, !.sar = r] :
     s \in {Number(n) : n \in {-1, 1, 3}} \cup {Word("absent")},
     r \in {Number(n) : n \in {-1, 1, 2000}} \cup {Word(w) : w \in {"absent", "true", "string"}}}

\* Every setting of four switches, and some that are no switches; no pools.
LogFiles ==
  {[Complete EXCEPT !.ship = Number(0), !.log = g @@ Switched("absent")] :
     g \in [{"trace", "debug", "error", "info"} -> {"true", "false"}]
             \cup {Switched("absent"), Switched("string")}}

\* Every section in every state, one at a time.
SectionFiles ==
  {[Complete EXCEPT ![s] = w] : s \in {"http", "bucket", "caffe", "zmq"},
                                w \in {"incomplete", "ill-typed", "missing"}}
    \cup {[Complete EXCEPT !.auth = Word(w)] : w \in {"incomplete", "ill-typed", "missing"}}
    \cup {[Complete EXCEPT !.caffe = "ill-typed batch"], [Complete EXCEPT !.log = Switched("missing")]}

MCFiles == {NotAFile(w) : w \in {"none", "closed", "broken"}} \cup PoolFiles \cup LogFiles \cup SectionFiles
==============================================================================
