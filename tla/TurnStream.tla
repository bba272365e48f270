------------------------------ MODULE TurnStream ------------------------------
(***************************************************************************)
(* What one client's pipeline promises about turn identity: the stamps of  *)
(* the content handed to the client are stamps the client itself sent      *)
(* (they are propagated, never minted), and they never go back to an older *)
(* turn.                                                                   *)
(***************************************************************************)
EXTENDS Naturals

CONSTANT Stamps    \* the timestamps clients may send, a set of numbers

VARIABLES
    accepted,    \* the stamps the entry has let in
    lastOut      \* the stamp of the latest content handed to the client

Init == accepted = {} /\ lastOut = 0

Accept(t) ==
    /\ \A a \in accepted : a <= t
    /\ accepted' = accepted \cup {t}
    /\ UNCHANGED lastOut

Hand(t) ==
    /\ t \in accepted /\ t >= lastOut
    /\ lastOut' = t
    /\ UNCHANGED accepted

Next == \E t \in Stamps : Accept(t) \/ Hand(t)

Spec == Init /\ [][Next]_<<accepted, lastOut>>
===============================================================================
