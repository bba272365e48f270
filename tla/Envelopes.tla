------------------------------- MODULE Envelopes -------------------------------
(***************************************************************************)
(* What a chunk generator promises to the nodes behind it: per stream one  *)
(* envelope, the streams in their order, in it the stream's own chunks in  *)
(* the order of their inputs.  A closed envelope holds a chunk for every   *)
(* input unless the stream failed or a cancel voided it, and nothing is    *)
(* generated for a stream once it is void.                                 *)
(***************************************************************************)
EXTENDS Naturals, FiniteSets, Sequences

VARIABLES
    given,      \* given[s]: inputs of stream s
    void,       \* streams known to be void
    failed,     \* streams whose generator failed
    out         \* what has left: records [kind, stream, input, content]

Init == given = <<>> /\ void = {} /\ failed = {} /\ out = <<>>

Give ==
    /\ \/ given' = Append(given, 0)
       \/ \E s \in DOMAIN given : given' = [given EXCEPT ![s] = @ + 1]
    /\ void \subseteq void' /\ UNCHANGED <<failed, out>>

Break == void \subseteq void' /\ failed \subseteq failed' /\ UNCHANGED <<given, out>>

Newer(s) == \A i \in DOMAIN out : out[i].stream < s

Emit(m) == out' = Append(out, m) /\ UNCHANGED <<given, void>> /\ failed \subseteq failed'

Begin(s) == Newer(s) /\ Emit([kind |-> "SoS", stream |-> s, input |-> 0, content |-> <<>>])

\* The chunks of s that have left.
Count(s) == Cardinality({i \in DOMAIN out : out[i].stream = s /\ out[i].kind = "chunk"})

Within(s) == out # <<>> /\ out[Len(out)].stream = s /\ out[Len(out)].kind # "EoS"

\* The next chunk is the next input's own.
Chunk(s) ==
    /\ Within(s) /\ s \notin void \cup failed /\ Count(s) < given[s]
    /\ Emit([kind |-> "chunk", stream |-> s, input |-> Count(s) + 1,
             content |-> <<s, Count(s) + 1>>])

End(s) ==
    /\ Within(s)
    /\ Count(s) = given[s] \/ s \in void \cup failed'
    /\ Emit([kind |-> "EoS", stream |-> s, input |-> 0, content |-> <<>>])

Next == Give \/ Break \/ \E s \in DOMAIN given : Begin(s) \/ Chunk(s) \/ End(s)

Spec == Init /\ [][Next]_<<given, void, failed, out>>
===============================================================================
