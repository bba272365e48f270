------------------------------ MODULE Transcript ------------------------------
(***************************************************************************)
(* What the conversation history promises: each turn is written once, with *)
(* exactly the sentences the client was sent, in the order of the turns;   *)
(* afterwards only the newest written turn may be repaired, once, to a     *)
(* shorter prefix, and old turns may only fade.                            *)
(***************************************************************************)
EXTENDS Naturals

CONSTANT Turns    \* turn numbers, a set of numbers

VARIABLES
    sent,       \* sent[t]: how many sentences of turn t the client was sent
    written,    \* the turns that have been written
    told,       \* told[t]: the sentences of turn t that the history holds
    repairable  \* the turn a playback report may still repair, or none: {}

Init ==
    /\ sent = [t \in Turns |-> 0] /\ told = [t \in Turns |-> {}]
    /\ written = {} /\ repairable = {}

Newest(t) == \A u \in Turns : u > t => u \notin written /\ sent[u] = 0

Say(t) ==
    /\ t \notin written /\ Newest(t) /\ repairable = {}
    /\ sent' = [sent EXCEPT ![t] = @ + 1]
    /\ UNCHANGED <<written, told, repairable>>

\* The turn is written, whole; what older turns hold may fade.
Write(t) ==
    /\ t \notin written /\ Newest(t)
    /\ written' = written \cup {t} /\ repairable' = {t}
    /\ told'[t] = 1..sent[t]
    /\ \A u \in Turns \ {t} : told'[u] \subseteq told[u]
    /\ UNCHANGED sent

Repair(t, kept) ==
    /\ repairable = {t} /\ Newest(t) /\ kept <= sent[t]
    /\ told' = [told EXCEPT ![t] = 1..kept]
    /\ repairable' = {}
    /\ UNCHANGED <<sent, written>>

\* The next turn begins.
Expire == repairable' = {} /\ UNCHANGED <<sent, written, told>>

Next ==
    \/ \E t \in Turns :
         \/ Say(t) \/ Write(t)
         \/ \E kept \in 0..sent[t] : Repair(t, kept)
    \/ Expire

Spec == Init /\ [][Next]_<<sent, written, told, repairable>>
===============================================================================
