------------------------------ MODULE MCHandlers ------------------------------
(* Small instances of Handlers for TLC. *)
EXTENDS Handlers, TLC

CONSTANTS w1, w2

MCInterfaceOf == (w1 :> SHIP @@ w2 :> SAR)
MCShips == (w1 :> SHIP @@ w2 :> SHIP)

Sound(i) == [text |-> "object", interface |-> i, key |-> "right", image |-> "good"]

\* A sound body, bodies with one or two defects, and bodies over which the poll
\* loop or a handler throws.
MCBodies ==
  {b \in Body : b.text = "object" /\ b.interface = SHIP /\ b.image \in {"good", "bad", "number"}}
  \cup {[Sound(SHIP) EXCEPT !.text = t] : t \in {"syntax", "other", "list", "deep"}}
  \cup {[Sound(i) EXCEPT !.image = "narrow"] : i \in {SHIP, SAR}}
  \cup {Sound(SAR), Sound(MONITOR), Sound(4), [Sound(SAR) EXCEPT !.image = "missing"]}

MCSound == {Sound(SHIP)}
=============================================================================
