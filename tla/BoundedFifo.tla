---------------------------- MODULE BoundedFifo ----------------------------
(***************************************************************************)
(* What a bounded blocking queue promises: a first-in first-out queue of   *)
(* at most Bound messages.  A message that was put is taken once, by one   *)
(* consumer, after all messages put before it.                             *)
(***************************************************************************)
EXTENDS Naturals, Sequences

CONSTANTS Consumers, Items, Bound, NoItem

VARIABLES fifo,    \* the messages put and not yet taken
          hand     \* hand[c]: the message consumer c took last

vars == <<fifo, hand>>

Init == fifo = <<>> /\ hand = [c \in Consumers |-> NoItem]

Put(x) == /\ Len(fifo) < Bound
          /\ fifo' = Append(fifo, x)
          /\ UNCHANGED hand

Take(c) == /\ fifo # <<>>
           /\ hand' = [hand EXCEPT ![c] = Head(fifo)]
           /\ fifo' = Tail(fifo)

Next == (\E x \in Items : Put(x)) \/ (\E c \in Consumers : Take(c))

Spec == Init /\ [][Next]_vars
=============================================================================
