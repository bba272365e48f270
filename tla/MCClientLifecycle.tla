-------------------------- MODULE MCClientLifecycle --------------------------
(* Requests for TLC, named by endpoint and number.                           *)
EXTENDS ClientLifecycle

CONSTANTS r1, r2, u1, i1, i2, i3, w1, w2, a, b

OneId  == [r \in Requests |-> a]
\* The second request of each kind names the other client.
TwoIds == [r \in Requests |-> IF r \in {r2, i2, i3, w2} THEN b ELSE a]
===============================================================================
