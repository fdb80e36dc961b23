---------------------------- MODULE RequestReply ----------------------------
(***************************************************************************)
(* What the detection service promises its clients, with the router, the   *)
(* queues and the threads left out: a client asks, and every request gets  *)
(* at most one reply, which goes to the client that asked and says what    *)
(* that request deserves.  A request may also stay without a reply: the    *)
(* service answers nothing to an empty body, and a crash of the verifier   *)
(* process loses what it had accepted.                                     *)
(***************************************************************************)
EXTENDS Sequences

CONSTANTS Requests,  \* the requests clients may send
          Clients,   \* the clients (ROUTER identities)
          Owner,     \* Owner[r]: the client that sends r
          Verdict    \* Verdict[r]: what a reply to r has to say

VARIABLES asked,     \* the requests sent so far
          mailbox    \* mailbox[c]: the replies client c received, in order

vars == <<asked, mailbox>>

Received(r) == \E c \in Clients : \E i \in DOMAIN mailbox[c] : mailbox[c][i].req = r

Init == /\ asked = {}
        /\ mailbox = [c \in Clients |-> <<>>]

Ask(r) == /\ r \in Requests \ asked
          /\ asked' = asked \cup {r}
          /\ UNCHANGED mailbox

Answer(r) ==
  /\ r \in asked
  /\ ~ Received(r)
  /\ mailbox' = [mailbox EXCEPT ![Owner[r]] =
                   Append(@, [req |-> r, result |-> Verdict[r]])]
  /\ UNCHANGED asked

Next == \E r \in Requests : Ask(r) \/ Answer(r)

Spec == Init /\ [][Next]_vars
=============================================================================
