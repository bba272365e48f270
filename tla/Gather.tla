-------------------------------- MODULE Gather --------------------------------
(***************************************************************************)
(* What a parallel region promises to the nodes behind it: every message   *)
(* that enters leaves at most once, in the order of entry, with the        *)
(* answers of all its branches and of no other message; only an excused    *)
(* message (voided by a cancel, or a branch had nothing to say) may leave  *)
(* with fewer answers, or not at all.                                      *)
(***************************************************************************)
EXTENDS Naturals, Sequences

CONSTANT Branch    \* the branches of the region

VARIABLES
    asked,      \* asked[i]: the branches the i-th message is split over
    excused,    \* the messages that may leave incomplete
    left        \* what has left, in order: records [id, answers]

Init == asked = <<>> /\ excused = {} /\ left = <<>>

Ask(branches) ==
    /\ asked' = Append(asked, branches)
    /\ excused \subseteq excused'    \* it may be void when it enters
    /\ UNCHANGED left

Excuse == excused \subseteq excused' /\ UNCHANGED <<asked, left>>

\* Later than everything that has left.
InTurn(i) == left = <<>> \/ left[Len(left)].id < i

Leave(i, answers) ==
    /\ i \in DOMAIN asked /\ InTurn(i)
    /\ answers \subseteq {i} \X asked[i]
    /\ answers = {i} \X asked[i] \/ i \in excused
    /\ left' = Append(left, [id |-> i, answers |-> answers])
    /\ UNCHANGED <<asked, excused>>

Next ==
    \/ \E branches \in SUBSET Branch : Ask(branches)
    \/ Excuse
    \/ \E i \in DOMAIN asked : \E answers \in SUBSET ({i} \X asked[i]) : Leave(i, answers)

Spec == Init /\ [][Next]_<<asked, excused, left>>
===============================================================================
