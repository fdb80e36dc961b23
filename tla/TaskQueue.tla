------------------------------ MODULE TaskQueue ------------------------------
(***************************************************************************)
(* What DQueue promises: an unbounded first-in first-out queue of tasks.   *)
(* A task is taken once, by one worker.  Closing the queue forsakes what   *)
(* is in it: only a worker that was already inside get may still take one  *)
(* task, and nobody enters get to take one later.                          *)
(***************************************************************************)
EXTENDS Sequences

CONSTANTS Workers, Items, NoItem

VARIABLES tasks,   \* the tasks put and not yet taken
          hand,    \* hand[w]: the task worker w has in hand
          open,    \* the queue is not closed
          late     \* the workers that may still take a task once it is closed

vars == <<tasks, hand, open, late>>

Init == /\ tasks = <<>>
        /\ hand = [w \in Workers |-> NoItem]
        /\ open = TRUE
        /\ late = {}

Put(x) == /\ tasks' = Append(tasks, x)
          /\ UNCHANGED <<hand, open, late>>

Take(w) == /\ open \/ w \in late
           /\ tasks # <<>>
           /\ hand[w] = NoItem
           /\ hand' = [hand EXCEPT ![w] = Head(tasks)]
           /\ tasks' = Tail(tasks)
           /\ late' = late \ {w}
           /\ UNCHANGED open

Finish(w) == /\ hand[w] # NoItem
             /\ hand' = [hand EXCEPT ![w] = NoItem]
             /\ UNCHANGED <<tasks, open, late>>

\* A worker inside get when the queue is closed has nothing in hand.
Close == /\ open
         /\ open' = FALSE
         /\ \E S \in SUBSET {w \in Workers : hand[w] = NoItem} : late' = S
         /\ UNCHANGED <<tasks, hand>>

\* A worker leaves get without a task.
GiveUp(w) == /\ w \in late
             /\ late' = late \ {w}
             /\ UNCHANGED <<tasks, hand, open>>

Next == \/ \E x \in Items : Put(x)
        \/ \E w \in Workers : Take(w) \/ Finish(w) \/ GiveUp(w)
        \/ Close

Spec == Init /\ [][Next]_vars
=============================================================================
