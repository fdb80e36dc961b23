------------------------------- MODULE MCDealer -------------------------------
(* Small instances of Dealer for TLC. *)
EXTENDS Dealer, TLC

CONSTANTS c1, c2, r1, r2, r3, r4, w1, w2, w3

MCClients == {c1, c2}

\* Two requests for a pool of two workers, one for another service, one with
\* an empty body.
PoolRequests == {r1, r2, r3, r4}
PoolOwner == r1 :> c1 @@ r2 :> c1 @@ r3 :> c2 @@ r4 :> c1
PoolBody == r1 :> "SHIP" @@ r2 :> "SHIP" @@ r3 :> "SAR" @@ r4 :> "empty"
PoolWorkers == {w1, w2, w3}
PoolServes == w1 :> "SHIP" @@ w2 :> "SHIP" @@ w3 :> "SAR"

\* The instances with faults: a pool of one worker, a body that is not JSON,
\* one of a service that is not registered.
FewRequests == {r1, r2, r3, r4}
FewOwner == r1 :> c1 @@ r2 :> c1 @@ r3 :> c2 @@ r4 :> c2
FewBody == r1 :> "SHIP" @@ r2 :> "SHIP" @@ r3 :> "syntax" @@ r4 :> "MONITOR"
FewWorkers == {w1}
FewServes == w1 :> "SHIP"
=============================================================================
