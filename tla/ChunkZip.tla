------------------------------- MODULE ChunkZip -------------------------------
(***************************************************************************)
(* What a joint stream promises to the nodes behind it: per input one      *)
(* envelope, the inputs in their order, in it the packs: the k-th pack     *)
(* holds the k-th chunk of every stream that has one, and of an ended      *)
(* stream that is extended its last.  The envelope is closed exactly at    *)
(* the boundary the mode names, and nothing is sent for a void input.      *)
(***************************************************************************)
EXTENDS Integers, FiniteSets, Sequences

CONSTANTS Streams, Extend, Anchor

VARIABLES
    mode,    \* "longest", "shortest" or "anchor"
    active,  \* active[i]: the streams the i-th input has arguments for
    made,    \* made[i][s]: chunks that stream s has produced for it
    ended,   \* pairs <<i, s>>: stream s produces no more for input i
    void,    \* inputs known to be void
    out      \* what has left: records [kind, input, pack]

Init ==
    /\ active = <<>> /\ ended = {} /\ void = {} /\ out = <<>>
    /\ \A i \in DOMAIN made : \A s \in Streams : made[i][s] = 0

\* The world moves: inputs, chunks and cancels only come.
Come ==
    /\ Len(active) <= Len(active') /\ SubSeq(active', 1, Len(active)) = active
    /\ \A i \in DOMAIN made : \A s \in Streams :
         made'[i][s] >= made[i][s] /\ (<<i, s>> \in ended => made'[i][s] = made[i][s])
    /\ ended \subseteq ended' /\ void \subseteq void'
    /\ UNCHANGED <<mode, out>>

Emit(m) == out' = Append(out, m) /\ UNCHANGED <<mode, active, made, ended, void>>

Nothing == [s \in Streams |-> 0]

Begin(i) ==
    /\ \A k \in DOMAIN out : out[k].input < i
    /\ Emit([kind |-> "SoS", input |-> i, pack |-> Nothing])

Within(i) == out # <<>> /\ out[Len(out)].input = i /\ out[Len(out)].kind # "EoS"

Packs(i) == Cardinality({k \in DOMAIN out : out[k].input = i /\ out[k].kind = "pack"})

Pack(i, k) ==
    /\ Within(i) /\ i \notin void /\ k = Packs(i) + 1
    /\ \E s \in active[i] : k <= made[i][s]
    /\ \A s \in active[i] : k <= made[i][s] \/ <<i, s>> \in ended
    /\ Emit([kind |-> "pack", input |-> i,
             pack |-> [s \in Streams |->
                IF s \notin active[i] THEN 0
                ELSE IF k <= made[i][s] THEN k
                ELSE IF s \in Extend THEN made[i][s] ELSE 0]])

\* An anchor without arguments leaves the input to the longest stream.
Boundary(i) ==
    LET Done(s) == <<i, s>> \in ended /\ made[i][s] <= Packs(i) IN
    CASE mode = "shortest" /\ active[i] # {} -> \E s \in active[i] : Done(s)
      [] mode = "anchor" /\ Anchor \in active[i] -> Done(Anchor)
      [] OTHER -> \A s \in active[i] : Done(s)

End(i) ==
    /\ Within(i) /\ i \notin void /\ Boundary(i)
    /\ Emit([kind |-> "EoS", input |-> i, pack |-> Nothing])

Next ==
    \/ Come
    \/ \E i \in DOMAIN active : Begin(i) \/ Pack(i, Packs(i) + 1) \/ End(i)

Spec == Init /\ [][Next]_<<mode, active, made, ended, void, out>>
===============================================================================
