------------------------------ MODULE FrameProofs ------------------------------
(***************************************************************************)
(* Proofs about the frame splitter, for every set of message shapes, every *)
(* set of stamps and every bound: its types, and that its output is a      *)
(* sequence of whole messages in stamp order.  Behind them the proofs      *)
(* about the joint stream, for every number of streams, every mode and     *)
(* every bound: its types, that no pump is forgotten, and ChunkZip.        *)
(***************************************************************************)
EXTENDS FrameSplitter, JointStream, SequenceTheorems, FiniteSetTheorems,
        WellFoundedInduction, TLAPS

Incoming == [id : 1..MaxSent, ts : Stamps, shape : Shapes]

\* Each group is the next part of the message that the entry before it belongs to.
Consecutive(b) ==
    \A i \in DOMAIN b : i + 1 \in DOMAIN b =>
        /\ b[i + 1].what = "group" /\ b[i + 1].part = b[i].part + 1
        /\ b[i + 1].id = b[i].id /\ b[i + 1].of = b[i].of

\* Before the clock starts nothing is played.
PausedPart == pc \in {"top", "get"} => buffer = <<>>

\* What is played is not void.
FreshPart == buffer # <<>> => current >= watermark

\* The buffer goes on where the output has stopped, to the message's last group.
RunPart ==
    /\ Consecutive(buffer)
    /\ buffer # <<>> =>
         /\ buffer[1].what = "group" /\ buffer[1].part > 1
              => last.id = buffer[1].id /\ last.part = buffer[1].part - 1
         /\ buffer[Len(buffer)].part >= buffer[Len(buffer)].of

\* A message begun is in the buffer with all that is left of it, or it is void.
UnfinishedPart ==
    last.part < last.of =>
        \/ last.ts < watermark
        \/ /\ buffer # <<>> /\ buffer[1] # Default /\ buffer[1].id = last.id
           /\ buffer[1].ts = last.ts /\ buffer[1].of = last.of
           /\ buffer[1].part = last.part + 1

\* Stamps rise from the output through the buffer to the end of the queue.
OrderPart ==
    /\ \A i \in DOMAIN inputQ :
         /\ inputQ[i].ts <= lastTs
         /\ \A j \in DOMAIN inputQ : i < j => inputQ[i].ts <= inputQ[j].ts
    /\ last # Default => /\ last.ts <= lastTs
                         /\ \A i \in DOMAIN inputQ : last.ts <= inputQ[i].ts
    /\ \A k \in DOMAIN buffer : buffer[k] # Default =>
         /\ buffer[k].ts <= lastTs
         /\ \A i \in DOMAIN inputQ : buffer[k].ts <= inputQ[i].ts
         /\ last # Default => last.ts <= buffer[k].ts

FrameInv == TypeOK /\ PausedPart /\ FreshPart /\ RunPart /\ UnfinishedPart /\ OrderPart

-------------------------------------------------------------------------------
(* Stamps, cancels and the sequences that are read from the front.           *)

Less == {p \in Nat \X Nat : p[1] < p[2]}

\* Every set of naturals that is not empty has a least element.
LEMMA LeastNumber ==
    ASSUME NEW T \in SUBSET Nat, T # {}
    PROVE  \E m \in T : \A k \in T : m <= k
<1>1. IsWellFoundedOn(Less, Nat)
  <2>1. IsWellFoundedOn(OpToRel(<, Nat), Nat)
    BY NatLessThanWellFounded
  <2>2. OpToRel(<, Nat) = Less
    BY DEF OpToRel, Less
  <2>. QED  BY <2>1, <2>2
<1>2. \E x \in T : \A y \in T : <<y, x>> \notin Less
  BY <1>1, WFMin
<1>3. PICK m \in T : \A k \in T : <<k, m>> \notin Less
  BY <1>2
<1>4. ASSUME NEW k \in T PROVE m <= k
  <2>1. m \in Nat /\ k \in Nat
    OBVIOUS
  <2>2. ~(k < m)
    BY <1>3, <2>1 DEF Less
  <2>. QED  BY <2>1, <2>2
<1>. QED  BY <1>4

\* A set of numbers up to n that is not empty has a greatest element.
LEMMA MaxExists ==
    ASSUME NEW n \in Nat, NEW S \in SUBSET (0..n), S # {}
    PROVE  Max(S) \in S /\ \A y \in S : Max(S) >= y
<1>. DEFINE T == {n - x : x \in S}
<1>1. T \in SUBSET Nat /\ T # {}
  <2>1. \A x \in S : n - x \in Nat
    OBVIOUS
  <2>2. PICK x \in S : TRUE
    OBVIOUS
  <2>3. n - x \in T
    OBVIOUS
  <2>. QED  BY <2>1, <2>3
<1>2. PICK k \in T : \A l \in T : k <= l
  <2>. HIDE DEF T
  <2>. QED  BY <1>1, LeastNumber
<1>3. PICK x \in S : k = n - x
  OBVIOUS
<1>4. \A y \in S : x >= y
  <2>. SUFFICES ASSUME NEW y \in S PROVE x >= y
    OBVIOUS
  <2>1. n - y \in T
    OBVIOUS
  <2>2. n - x <= n - y
    BY <1>2, <1>3, <2>1
  <2>. QED  BY <2>2
<1>. QED  BY <1>4 DEF Max

\* The cancels that are read are stamps, and the watermark rises with them.
LEMMA RaisedFacts ==
    ASSUME TypeOK
    PROVE  /\ Raised \in Stamps \cup {0, Infinity} /\ Raised >= watermark
           /\ Read = {} => Raised = watermark
<1>1. Stamps \cup {0, Infinity} \subseteq 0..Infinity /\ Infinity \in Nat
  BY StampAssumption
<1>2. Read \subseteq Stamps \cup {0, Infinity}
  <2>. DEFINE C == [verb : {"cancel", "start", "kill"}, ts : Stamps \cup {0, Infinity}]
  <2>1. control \in Seq(C)
    BY DEF TypeOK
  <2>2. \A i \in DOMAIN control : control[i] \in C
    <3>. HIDE DEF C
    <3>. QED  BY <2>1
  <2>3. \A i \in DOMAIN control : control[i].ts \in Stamps \cup {0, Infinity}
    BY <2>2
  <2>. QED  BY <2>3 DEF Read
<1>3. watermark \in Stamps \cup {0, Infinity}
  BY DEF TypeOK
<1>. DEFINE S == Read \cup {watermark}
<1>4. S \in SUBSET (0..Infinity) /\ S # {}
  BY <1>1, <1>2, <1>3
<1>5. Max(S) \in S /\ \A y \in S : Max(S) >= y
  BY <1>1, <1>4, MaxExists
<1>. QED  BY <1>2, <1>3, <1>5 DEF Raised

\* What check_cancel leaves behind.
LEMMA CheckControlTypes ==
    ASSUME TypeOK, CheckControl
    PROVE  /\ control' \in Seq([verb : {"cancel", "start", "kill"},
                                ts : Stamps \cup {0, Infinity}])
           /\ running' \in BOOLEAN /\ killed' \in BOOLEAN
           /\ watermark' \in Stamps \cup {0, Infinity} /\ watermark' >= watermark
<1>1. watermark' \in Stamps \cup {0, Infinity} /\ watermark' >= watermark
  BY RaisedFacts DEF CheckControl
<1>2. running' \in BOOLEAN /\ killed' \in BOOLEAN
  BY DEF CheckControl, TypeOK
<1>3. control' = <<>>
  BY DEF CheckControl
<1>. QED  BY <1>1, <1>2, <1>3

\* A sequence without its first entry.
LEMMA TailAt ==
    ASSUME NEW S, NEW s \in Seq(S), s # <<>>
    PROVE  /\ DOMAIN s = 1..Len(s) /\ Len(s) \in Nat \ {0} /\ Head(s) = s[1]
           /\ s[1] \in S
           /\ Tail(s) \in Seq(S) /\ DOMAIN Tail(s) = 1..(Len(s) - 1)
           /\ Len(Tail(s)) = Len(s) - 1
           /\ \A i \in 1..(Len(s) - 1) : Tail(s)[i] = s[i + 1]
  OBVIOUS

\* What an entry is.
LEMMA EntryFacts ==
    /\ Default \in Entries
    /\ Default.what = "default" /\ Default.part = 1 /\ Default.of = 1 /\ Default.id = 0
    /\ Default.ts = NoStamp /\ NoStamp \in Nat /\ Infinity \in Nat
    /\ \A t \in Stamps \cup {0, Infinity} : t \in Nat /\ t < NoStamp
    /\ \A e \in Entries :
         /\ e.part \in Nat /\ e.of \in Nat /\ e.ts \in Nat /\ e.id \in Nat
         /\ e # Default => /\ e.what \in {"group", "signal", "foreign"}
                           /\ e.ts \in Stamps /\ e.id \in 1..MaxSent
<1>1. /\ NoStamp \in Nat /\ Infinity \in Nat /\ MaxSent \in Nat
      /\ \A t \in Stamps \cup {0, Infinity} : t \in Nat /\ t < NoStamp
  BY StampAssumption, BoundAssumption DEF NoStamp
<1>2. /\ Default \in Entries
      /\ Default.what = "default" /\ Default.part = 1 /\ Default.of = 1 /\ Default.id = 0
      /\ Default.ts = NoStamp
  BY DEF Entries, Default, Entry
<1>3. ASSUME NEW e \in Entries
      PROVE  /\ e.part \in Nat /\ e.of \in Nat /\ e.ts \in Nat /\ e.id \in Nat
             /\ e # Default => /\ e.what \in {"group", "signal", "foreign"}
                               /\ e.ts \in Stamps /\ e.id \in 1..MaxSent
  <2>1. CASE e = Default
    BY <1>1, <1>2, <2>1
  <2>2. CASE e # Default
    <3>1. e \in [what : {"group", "signal", "foreign"}, id : 1..MaxSent, ts : Stamps,
                 part : Nat, of : Nat]
      BY <2>2 DEF Entries
    <3>. QED  BY <1>1, <2>2, <3>1
  <2>. QED  BY <2>1, <2>2
<1>. QED  BY <1>1, <1>2, <1>3

-------------------------------------------------------------------------------
(* What a message fills the buffer with.                                     *)

\* Entries of message m that begin with its first part and end with its last.
WholeOf(b, m) ==
    /\ b \in Seq(Entries) /\ Consecutive(b)
    /\ \A i \in DOMAIN b : b[i] # Default /\ b[i].ts = m.ts /\ b[i].id = m.id
    /\ b # <<>> => /\ b[1].what = "group" => b[1].part = 1
                   /\ b[Len(b)].part >= b[Len(b)].of

\* Content is split into its groups, the signal of its pass_vars before them.
LEMMA SplitIsWhole ==
    ASSUME NEW m \in Incoming
    PROVE  WholeOf(Split(m), m)
<1>. DEFINE h == m.shape
            S == [what : {"group", "signal", "foreign"}, id : 1..MaxSent, ts : Stamps,
                  part : Nat, of : Nat]
            s == Entry("signal", m.id, m.ts, 0, h.good)
            G(g) == Entry("group", m.id, m.ts, g, h.good)
            gs == [g \in 1..h.size |-> G(g)]
            b == Split(m)
<1>1. /\ h.size \in Nat /\ h.good \in Nat /\ h.good <= h.size /\ h.meta \in BOOLEAN
      /\ m.id \in 1..MaxSent /\ m.ts \in Stamps
  BY ShapeAssumption DEF Incoming, Shape
<1>2. /\ s \in S /\ s.what = "signal" /\ s.part = 0 /\ s.of = h.good
      /\ s.id = m.id /\ s.ts = m.ts
  BY <1>1 DEF Entry
<1>3. \A g \in Nat : /\ G(g) \in S /\ G(g).what = "group" /\ G(g).part = g
                     /\ G(g).of = h.good /\ G(g).id = m.id /\ G(g).ts = m.ts
  BY <1>1 DEF Entry
<1>4. \A e \in S : e \in Entries /\ e # Default
  <2>1. \A e \in S : e.what # "default"
    OBVIOUS
  <2>. QED  BY <2>1, EntryFacts DEF Entries
<1>. HIDE DEF S, s, G
<1>5. gs \in Seq(S) /\ Len(gs) = h.size /\ \A g \in 1..h.size : gs[g] = G(g)
  BY <1>1, <1>3
<1>6. CASE h.meta
  <2>1. b = <<s>> \o gs
    BY <1>6 DEF Split, s, G
  <2>2. <<s>> \in Seq(S) /\ Len(<<s>>) = 1 /\ <<s>>[1] = s
    BY <1>2
  <2>. HIDE DEF gs, h, b
  <2>3. b \in Seq(S) /\ Len(b) = h.size + 1
    <3>1. Len(b) = 1 + h.size
      BY <1>5, <2>1, <2>2, ConcatProperties
    <3>2. b \in Seq(S)
      BY <1>5, <2>1, <2>2, ConcatProperties
    <3>. QED  BY <3>1, <3>2, <1>1
  <2>4. b[1] = s /\ \A i \in 2..(h.size + 1) : b[i] = G(i - 1)
    BY <1>1, <1>5, <2>1, <2>2
  <2>5. DOMAIN b = 1..(h.size + 1) /\ \A i \in DOMAIN b : b[i] \in S
    BY <2>3
  <2>6. b \in Seq(Entries)
    BY <2>3, <2>5, <1>4
  <2>7. \A i \in DOMAIN b : /\ b[i] # Default /\ b[i].ts = m.ts /\ b[i].id = m.id
                            /\ b[i].of = h.good /\ b[i].part = i - 1
                            /\ i > 1 => b[i].what = "group"
    <3>. SUFFICES ASSUME NEW i \in DOMAIN b
                  PROVE  /\ b[i] # Default /\ b[i].ts = m.ts /\ b[i].id = m.id
                         /\ b[i].of = h.good /\ b[i].part = i - 1
                         /\ i > 1 => b[i].what = "group"
      OBVIOUS
    <3>1. CASE i = 1
      BY <3>1, <2>4, <2>5, <1>2, <1>4
    <3>2. CASE i # 1
      <4>1. i \in 2..(h.size + 1) /\ i - 1 \in Nat
        BY <3>2, <2>5, <1>1
      <4>. QED  BY <4>1, <2>4, <2>5, <1>3, <1>4
    <3>. QED  BY <3>1, <3>2
  <2>8. Consecutive(b)
    BY <2>5, <2>7, <1>1 DEF Consecutive
  <2>9. /\ b[1].what = "group" => b[1].part = 1
        /\ b[Len(b)].part >= b[Len(b)].of
    <3>1. Len(b) \in DOMAIN b
      BY <2>3, <2>5, <1>1
    <3>2. b[Len(b)].part = h.size /\ b[Len(b)].of = h.good
      BY <3>1, <2>3, <2>7, <1>1
    <3>3. b[1].what = "signal"
      BY <2>4, <1>2
    <3>. QED  BY <3>2, <3>3, <1>1
  <2>10. WholeOf(b, m)
    BY <2>6, <2>7, <2>8, <2>9 DEF WholeOf
  <2>. QED  BY <2>10 DEF b
<1>7. CASE ~h.meta
  <2>1. b = <<>> \o gs
    BY <1>7 DEF Split, G
  <2>. HIDE DEF gs, h, b
  <2>2. b \in Seq(S) /\ Len(b) = h.size
    BY <1>1, <1>5, <2>1
  <2>3. DOMAIN b = 1..h.size /\ \A i \in DOMAIN b : b[i] \in S
    BY <2>2
  <2>4. \A i \in 1..h.size : b[i] = G(i)
    BY <1>1, <1>5, <2>1
  <2>5. b \in Seq(Entries)
    BY <2>2, <2>3, <1>4
  <2>6. \A i \in DOMAIN b : /\ b[i] # Default /\ b[i].ts = m.ts /\ b[i].id = m.id
                            /\ b[i].of = h.good /\ b[i].part = i
                            /\ b[i].what = "group"
    <3>1. \A i \in DOMAIN b : i \in Nat
      BY <2>3
    <3>. QED  BY <3>1, <2>3, <2>4, <1>3, <1>4
  <2>7. Consecutive(b)
    BY <2>3, <2>6, <1>1 DEF Consecutive
  <2>8. b # <<>> => /\ b[1].part = 1 /\ b[Len(b)].part >= b[Len(b)].of
    <3>. SUFFICES ASSUME b # <<>> PROVE b[1].part = 1 /\ b[Len(b)].part >= b[Len(b)].of
      OBVIOUS
    <3>1. 1 \in DOMAIN b /\ Len(b) \in DOMAIN b
      BY <2>2, <2>3, <1>1
    <3>. QED  BY <3>1, <2>2, <2>6, <1>1
  <2>9. WholeOf(b, m)
    BY <2>5, <2>6, <2>7, <2>8 DEF WholeOf
  <2>. QED  BY <2>9 DEF b
<1>. QED  BY <1>1, <1>6, <1>7

\* What goes into the buffer is a whole message that is not void, or nothing.
LEMMA FilledIsWhole ==
    ASSUME NEW m \in Incoming
    PROVE  WholeOf(Filled(m), m) /\ (Filled(m) # <<>> => ~(m.ts < watermark))
<1>1. WholeOf(<<>>, m)
  BY DEF WholeOf, Consecutive
<1>2. m.id \in 1..MaxSent /\ m.ts \in Stamps
  BY DEF Incoming
<1>3. CASE m.ts < watermark
  <2>1. Filled(m) = <<>>
    BY <1>3 DEF Filled
  <2>. QED  BY <1>1, <2>1
<1>4. CASE ~(m.ts < watermark) /\ m.shape.kind = "signal"
  <2>. DEFINE e == Entry("signal", m.id, m.ts, 0, 0)
  <2>1. e \in Entries /\ e.what = "signal" /\ e.ts = m.ts /\ e.id = m.id
           /\ e.part = 0 /\ e.of = 0
    BY <1>2 DEF Entries, Entry
  <2>2. e # Default
    BY <2>1, EntryFacts
  <2>3. Filled(m) = <<e>>
    BY <1>4 DEF Filled
  <2>. HIDE DEF e
  <2>4. <<e>> \in Seq(Entries) /\ DOMAIN <<e>> = {1} /\ <<e>>[1] = e /\ Len(<<e>>) = 1
    BY <2>1
  <2>5. Consecutive(<<e>>)
    BY <2>4 DEF Consecutive
  <2>6. WholeOf(<<e>>, m)
    BY <2>1, <2>2, <2>4, <2>5 DEF WholeOf
  <2>. QED  BY <1>4, <2>3, <2>6
<1>5. CASE ~(m.ts < watermark) /\ m.shape.kind = "content"
  BY <1>5, SplitIsWhole DEF Filled
<1>6. CASE ~(m.ts < watermark) /\ m.shape.kind \notin {"signal", "content"}
  <2>1. Filled(m) = <<>>
    BY <1>6 DEF Filled
  <2>. QED  BY <1>1, <2>1
<1>. QED  BY <1>3, <1>4, <1>5, <1>6

-------------------------------------------------------------------------------
(* The splitter's steps.                                                     *)

\* The buffer holds what is left of one message.
OfOneMessage ==
    \A i \in DOMAIN buffer :
        buffer[i] = Default \/ (buffer[i].ts = current /\ buffer[i].id = buffer[Len(buffer)].id)

QueueType == inputQ \in Seq(Incoming)
ControlType ==
    control \in Seq([verb : {"cancel", "start", "kill"}, ts : Stamps \cup {0, Infinity}])
PlayTypes ==
    /\ buffer \in Seq(Entries) /\ current \in Stamps \cup {NoStamp} /\ last \in Entries
    /\ OfOneMessage
CountTypes ==
    /\ sent \in 0..MaxSent /\ lastTs \in Nat /\ cancels \in 0..(MaxCancels + 1)
FlagTypes ==
    /\ running \in BOOLEAN /\ killed \in BOOLEAN
    /\ watermark \in Stamps \cup {0, Infinity}
    /\ pc \in {"top", "get", "tick", "fill", "sleep", "exited"}

\* TypeOK in parts.
LEMMA Types == TypeOK <=> /\ QueueType /\ ControlType /\ PlayTypes
                          /\ CountTypes /\ FlagTypes
<1>1. ASSUME buffer \in Seq(Entries)
      PROVE  (\A e \in ToSet(buffer) :
                e = Default \/ (e.ts = current /\ e.id = Last(buffer).id)) <=> OfOneMessage
  BY DEF ToSet, Last, OfOneMessage
<1>. QED
  BY <1>1 DEF TypeOK, QueueType, ControlType, PlayTypes, CountTypes, FlagTypes, Incoming

LEMMA TypesNext == TypeOK' <=> /\ QueueType' /\ ControlType' /\ PlayTypes'
                               /\ CountTypes' /\ FlagTypes'
  BY Types, PTL

\* What a step keeps that leaves the buffer, the output and the input queue
\* alone, and lets the watermark rise.
LEMMA NothingMoves ==
    ASSUME FrameInv, buffer' = buffer, last' = last, inputQ' = inputQ, lastTs' = lastTs,
           watermark' \in Nat, watermark' >= watermark
    PROVE  RunPart' /\ UnfinishedPart' /\ OrderPart'
<1>1. RunPart'
  BY DEF FrameInv, RunPart, Consecutive
<1>2. OrderPart'
  BY DEF FrameInv, OrderPart
<1>3. UnfinishedPart'
  <2>1. last.ts \in Nat /\ watermark \in Nat
    BY Types, EntryFacts DEF FrameInv, PlayTypes, FlagTypes
  <2>2. last.ts < watermark => last.ts < watermark'
    BY <2>1
  <2>3. UnfinishedPart
    BY DEF FrameInv
  <2>. QED  BY <2>2, <2>3 DEF UnfinishedPart
<1>. QED  BY <1>1, <1>2, <1>3

\* The types of a state that the invariant holds of.
LEMMA TypesNow ==
    ASSUME FrameInv
    PROVE  /\ QueueType /\ ControlType /\ PlayTypes /\ CountTypes /\ FlagTypes
           /\ watermark \in Nat /\ watermark < NoStamp
  BY Types, EntryFacts DEF FrameInv, FlagTypes

\* The neighbours' steps, and the thread's sleep.
LEMMA SendStep ==
    ASSUME FrameInv, NEW h \in Shapes, NEW t \in Stamps, Send(h, t)
    PROVE  FrameInv'
<1>. DEFINE m == [id |-> sent', ts |-> t, shape |-> h]
<1>1. /\ QueueType /\ ControlType /\ PlayTypes /\ CountTypes /\ FlagTypes
  BY TypesNow
<1>2. t \in Nat /\ MaxSent \in Nat
  BY StampAssumption, BoundAssumption
<1>3. /\ sent' = sent + 1 /\ sent < MaxSent /\ t >= lastTs /\ lastTs' = t
      /\ UNCHANGED <<cancels, control, controlVars, pc, buffer, current, last>>
  BY DEF Send
<1>4. inputQ' = Append(inputQ, m)
  BY DEF Send
<1>5. CountTypes'
  BY <1>1, <1>2, <1>3 DEF CountTypes
<1>6. ControlType' /\ PlayTypes' /\ FlagTypes'
  BY <1>1, <1>3 DEF ControlType, PlayTypes, OfOneMessage, FlagTypes, controlVars
<1>7. m \in Incoming /\ m.ts = t
  BY <1>1, <1>2, <1>3 DEF Incoming, CountTypes
<1>. HIDE DEF m
<1>8. /\ QueueType' /\ DOMAIN inputQ = 1..Len(inputQ) /\ Len(inputQ) \in Nat
      /\ DOMAIN inputQ' = 1..(Len(inputQ) + 1) /\ inputQ'[Len(inputQ) + 1] = m
      /\ \A i \in 1..Len(inputQ) : inputQ'[i] = inputQ[i]
  BY <1>1, <1>4, <1>7 DEF QueueType
<1>9. TypeOK'
  BY <1>5, <1>6, <1>8, TypesNext
<1>10. PausedPart' /\ FreshPart' /\ RunPart' /\ UnfinishedPart'
  BY <1>3 DEF FrameInv, PausedPart, FreshPart, RunPart, Consecutive, UnfinishedPart,
     controlVars
<1>11. OrderPart'
  <2>. DEFINE n == Len(inputQ) + 1
  <2>1. OrderPart
    BY DEF FrameInv
  <2>2. lastTs \in Nat /\ last.ts \in Nat
    BY <1>1, EntryFacts DEF CountTypes, PlayTypes
  <2>3. \A i \in DOMAIN inputQ' : i = n \/ i \in DOMAIN inputQ
    BY <1>8
  <2>4. \A i \in DOMAIN inputQ : /\ i \in Nat /\ i < n /\ inputQ'[i] = inputQ[i]
                                 /\ inputQ[i].ts \in Nat
    <3>1. \A i \in DOMAIN inputQ : inputQ[i] \in Incoming
      BY <1>1 DEF QueueType
    <3>2. \A i \in DOMAIN inputQ : inputQ[i].ts \in Nat
      BY <3>1, StampAssumption DEF Incoming
    <3>. QED  BY <3>2, <1>8
  <2>5. inputQ'[n].ts = t /\ n \in Nat
    BY <1>7, <1>8
  <2>. HIDE DEF n
  <2>6. \A i \in DOMAIN inputQ' : inputQ'[i].ts <= t
    BY <2>1, <2>2, <2>3, <2>4, <2>5, <1>2, <1>3 DEF OrderPart
  <2>7. \A i, j \in DOMAIN inputQ' : i < j => inputQ'[i].ts <= inputQ'[j].ts
    <3>. SUFFICES ASSUME NEW i \in DOMAIN inputQ', NEW j \in DOMAIN inputQ', i < j
                  PROVE  inputQ'[i].ts <= inputQ'[j].ts
      OBVIOUS
    <3>1. i \in DOMAIN inputQ
      BY <2>3, <2>4, <2>5
    <3>2. CASE j = n
      BY <3>2, <2>5, <2>6
    <3>3. CASE j \in DOMAIN inputQ
      BY <3>1, <3>3, <2>1, <2>4 DEF OrderPart
    <3>. QED  BY <3>2, <3>3, <2>3
  <2>8. last # Default => /\ last.ts <= t
                          /\ \A i \in DOMAIN inputQ' : last.ts <= inputQ'[i].ts
    BY <2>1, <2>2, <2>3, <2>4, <2>5, <1>2, <1>3 DEF OrderPart
  <2>9. ASSUME NEW k \in DOMAIN buffer, buffer[k] # Default
        PROVE  /\ buffer[k].ts <= t /\ \A i \in DOMAIN inputQ' : buffer[k].ts <= inputQ'[i].ts
               /\ last # Default => last.ts <= buffer[k].ts
    <3>1. buffer[k].ts \in Nat
      <4>1. buffer[k] \in Entries
        BY <1>1 DEF PlayTypes
      <4>. QED  BY <4>1, EntryFacts
    <3>. QED  BY <3>1, <2>1, <2>2, <2>3, <2>4, <2>5, <2>9, <1>2, <1>3 DEF OrderPart
  <2>. QED  BY <1>3, <2>6, <2>7, <2>8, <2>9 DEF OrderPart
<1>. QED  BY <1>9, <1>10, <1>11 DEF FrameInv

\* A cancel, a start or a teardown is only queued.
LEMMA SubmitStep ==
    ASSUME FrameInv, (\E t \in Stamps : Cancel(t)) \/ Start \/ Teardown
    PROVE  FrameInv'
<1>. DEFINE C == [verb : {"cancel", "start", "kill"}, ts : Stamps \cup {0, Infinity}]
<1>1. /\ QueueType /\ ControlType /\ PlayTypes /\ CountTypes /\ FlagTypes
      /\ watermark \in Nat
  BY TypesNow
<1>2. UNCHANGED <<sent, lastTs, inputQ, controlVars, pc, buffer, current, last>>
  BY DEF Cancel, Start, Teardown
<1>3. ControlType' /\ cancels' \in 0..(MaxCancels + 1)
  <2>1. control \in Seq(C) /\ cancels \in 0..(MaxCancels + 1) /\ MaxCancels \in Nat
    BY <1>1, BoundAssumption DEF ControlType, CountTypes
  <2>2. /\ \A t \in Stamps : Control("cancel", t) \in C
        /\ Control("start", 0) \in C /\ Control("kill", 0) \in C
        /\ Control("cancel", Infinity) \in C
    BY DEF Control
  <2>. HIDE DEF C
  <2>3. CASE \E t \in Stamps : Cancel(t)
    <3>1. PICK t \in Stamps : Cancel(t)
      BY <2>3
    <3>2. control' \in Seq(C) /\ cancels' \in 0..(MaxCancels + 1)
      BY <2>1, <2>2, <3>1 DEF Cancel
    <3>. QED  BY <3>2 DEF ControlType, C
  <2>4. CASE Start
    <3>1. control' \in Seq(C) /\ cancels' \in 0..(MaxCancels + 1)
      BY <2>1, <2>2, <2>4 DEF Start
    <3>. QED  BY <3>1 DEF ControlType, C
  <2>5. CASE Teardown
    <3>1. <<Control("cancel", Infinity), Control("kill", 0)>> \in Seq(C)
      BY <2>2
    <3>2. control' \in Seq(C)
      BY <2>1, <2>5, <3>1, ConcatProperties DEF Teardown
    <3>3. cancels' \in 0..(MaxCancels + 1)
      BY <2>1, <2>5 DEF Teardown
    <3>. QED  BY <3>2, <3>3 DEF ControlType, C
  <2>. QED  BY <2>3, <2>4, <2>5
<1>4. TypeOK'
  <2>1. QueueType' /\ PlayTypes' /\ CountTypes' /\ FlagTypes'
    BY <1>1, <1>2, <1>3 DEF QueueType, PlayTypes, OfOneMessage, CountTypes, FlagTypes,
       controlVars
  <2>. QED  BY <2>1, <1>3, TypesNext
<1>5. PausedPart' /\ FreshPart'
  BY <1>2 DEF FrameInv, PausedPart, FreshPart, controlVars
<1>6. RunPart' /\ UnfinishedPart' /\ OrderPart'
  BY <1>1, <1>2, NothingMoves DEF controlVars
<1>. QED  BY <1>4, <1>5, <1>6 DEF FrameInv

\* The next period begins.
LEMMA SleepStep ==
    ASSUME FrameInv, Sleep
    PROVE  FrameInv'
<1>1. /\ QueueType /\ ControlType /\ PlayTypes /\ CountTypes /\ FlagTypes
      /\ watermark \in Nat
  BY TypesNow
<1>2. /\ pc' = "tick"
      /\ UNCHANGED <<sent, lastTs, inputQ, cancels, control, controlVars, buffer, current,
                     last>>
  BY DEF Sleep
<1>3. TypeOK'
  <2>1. QueueType' /\ ControlType' /\ PlayTypes' /\ CountTypes' /\ FlagTypes'
    BY <1>1, <1>2 DEF QueueType, ControlType, PlayTypes, OfOneMessage, CountTypes,
       FlagTypes, controlVars
  <2>. QED  BY <2>1, TypesNext
<1>4. PausedPart' /\ FreshPart'
  BY <1>2 DEF FrameInv, PausedPart, FreshPart, controlVars
<1>5. RunPart' /\ UnfinishedPart' /\ OrderPart'
  BY <1>1, <1>2, NothingMoves DEF controlVars
<1>. QED  BY <1>3, <1>4, <1>5 DEF FrameInv

\* The message at the head of the input queue is the oldest one in it.
LEMMA QueueTaken ==
    ASSUME FrameInv, inputQ # <<>>, inputQ' = Tail(inputQ), lastTs' = lastTs
    PROVE  LET m == Head(inputQ) IN
           /\ QueueType' /\ m \in Incoming /\ m = inputQ[1] /\ 1 \in DOMAIN inputQ
           /\ m.ts <= lastTs /\ m.ts \in Nat
           /\ \A i \in DOMAIN inputQ' :
                /\ inputQ'[i].ts <= lastTs /\ m.ts <= inputQ'[i].ts
                /\ inputQ'[i].ts \in Nat
                /\ \A j \in DOMAIN inputQ' : i < j => inputQ'[i].ts <= inputQ'[j].ts
           /\ \A x \in Nat : (\A i \in DOMAIN inputQ : x <= inputQ[i].ts)
                               => \A i \in DOMAIN inputQ' : x <= inputQ'[i].ts
<1>. DEFINE m == Head(inputQ)
            n == Len(inputQ)
<1>1. QueueType /\ OrderPart
  BY TypesNow DEF FrameInv
<1>2. /\ DOMAIN inputQ = 1..n /\ n \in Nat \ {0} /\ m = inputQ[1] /\ m \in Incoming
      /\ inputQ' \in Seq(Incoming) /\ DOMAIN inputQ' = 1..(n - 1)
      /\ \A i \in 1..(n - 1) : inputQ'[i] = inputQ[i + 1]
  BY <1>1, TailAt DEF QueueType
<1>3. \A i \in DOMAIN inputQ' : /\ i \in Nat /\ i + 1 \in DOMAIN inputQ /\ 1 < i + 1
                                /\ inputQ'[i] = inputQ[i + 1]
                                /\ inputQ'[i] \in Incoming
  BY <1>2
<1>4. \A x \in Incoming : x.ts \in Nat
  BY EntryFacts DEF Incoming
<1>5. 1 \in DOMAIN inputQ
  BY <1>2
<1>. HIDE DEF m, n
<1>6. \A i \in DOMAIN inputQ' : /\ inputQ'[i].ts <= lastTs /\ m.ts <= inputQ'[i].ts
                                /\ inputQ'[i].ts \in Nat
  BY <1>1, <1>2, <1>3, <1>4, <1>5 DEF OrderPart
<1>7. ASSUME NEW i \in DOMAIN inputQ', NEW j \in DOMAIN inputQ', i < j
      PROVE  inputQ'[i].ts <= inputQ'[j].ts
  <2>1. i + 1 < j + 1
    BY <1>3, <1>7
  <2>. QED  BY <2>1, <1>1, <1>3 DEF OrderPart
<1>8. m.ts <= lastTs /\ m.ts \in Nat
  BY <1>1, <1>2, <1>4, <1>5 DEF OrderPart
<1>9. ASSUME NEW x \in Nat, \A i \in DOMAIN inputQ : x <= inputQ[i].ts
      PROVE  \A i \in DOMAIN inputQ' : x <= inputQ'[i].ts
  BY <1>3, <1>9
<1>10. QueueType'
  BY <1>2 DEF QueueType
<1>. QED  BY <1>2, <1>5, <1>6, <1>7, <1>8, <1>9, <1>10 DEF m

\* Nothing is left to send once the buffer is empty.
EmptyParts == OfOneMessage /\ FreshPart /\ RunPart /\ PausedPart

LEMMA EmptyBufferNext == buffer' = <<>> => EmptyParts'
  BY DEF EmptyParts, OfOneMessage, FreshPart, RunPart, Consecutive, PausedPart

\* With nothing in the buffer a message begun has been voided.
LEMMA BegunIsVoid ==
    ASSUME FrameInv, buffer = <<>>, last.part < last.of
    PROVE  last.ts < watermark
  BY DEF FrameInv, UnfinishedPart

\* Reading the control queue before the clock has started.
LEMMA PausedStep ==
    ASSUME FrameInv, Top \/ PausedEmpty
    PROVE  FrameInv' /\ last' = last
<1>1. /\ QueueType /\ ControlType /\ PlayTypes /\ CountTypes /\ FlagTypes
  BY TypesNow
<1>2. /\ CheckControl /\ pc' \in {"top", "get", "tick", "exited"}
      /\ UNCHANGED <<sent, lastTs, inputQ, cancels, buffer, current, last>>
  BY DEF Top, PausedEmpty
<1>3. buffer = <<>>
  BY DEF FrameInv, PausedPart, Top, PausedEmpty
<1>4. /\ ControlType' /\ FlagTypes' /\ watermark' >= watermark /\ watermark' \in Nat
  <2>1. /\ ControlType' /\ running' \in BOOLEAN /\ killed' \in BOOLEAN
        /\ watermark' \in Stamps \cup {0, Infinity} /\ watermark' >= watermark
    BY <1>2, CheckControlTypes DEF FrameInv, ControlType
  <2>2. watermark' \in Nat
    BY <2>1, EntryFacts
  <2>. QED  BY <1>2, <2>1, <2>2 DEF FlagTypes
<1>5. EmptyParts'
  BY <1>2, <1>3, EmptyBufferNext
<1>6. TypeOK'
  <2>1. QueueType' /\ CountTypes' /\ PlayTypes'
    BY <1>1, <1>2, <1>5 DEF QueueType, CountTypes, PlayTypes, EmptyParts
  <2>. QED  BY <2>1, <1>4, TypesNext
<1>7. RunPart' /\ UnfinishedPart' /\ OrderPart'
  BY <1>2, <1>4, NothingMoves
<1>. QED  BY <1>2, <1>5, <1>6, <1>7 DEF FrameInv, EmptyParts

\* An entry for a message that only passes through.
LEMMA RelayIsEntry ==
    ASSUME NEW m \in Incoming, m.shape.kind \in {"signal", "foreign"}
    PROVE  LET e == Entry(m.shape.kind, m.id, m.ts, 0, 0) IN
           /\ e \in Entries /\ e # Default /\ e.what # "group" /\ e.part = 0 /\ e.of = 0
           /\ e.ts = m.ts /\ e.what = m.shape.kind
<1>. DEFINE e == Entry(m.shape.kind, m.id, m.ts, 0, 0)
<1>1. /\ e \in Entries /\ e.what = m.shape.kind /\ e.part = 0 /\ e.of = 0 /\ e.ts = m.ts
  BY DEF Entries, Entry, Incoming
<1>2. e # Default
  BY <1>1, EntryFacts
<1>. QED  BY <1>1, <1>2

\* With nothing in the buffer, the output goes on with a message from the queue
\* that is no group, or with what was the last entry before.
LEMMA RelayedOrder ==
    ASSUME FrameInv, buffer = <<>>, buffer' = <<>>, inputQ # <<>>, inputQ' = Tail(inputQ),
           lastTs' = lastTs, watermark' \in Nat, watermark' >= watermark,
           \/ last' = last
           \/ /\ Head(inputQ).shape.kind \in {"signal", "foreign"}
              /\ Relay(Head(inputQ))
              /\ Head(inputQ).shape.kind = "signal" => Head(inputQ).ts >= watermark
    PROVE  /\ QueueType' /\ last' \in Entries /\ UnfinishedPart' /\ OrderPart'
           /\ last' # last => Follows(last, last')
<1>. DEFINE m == Head(inputQ)
            e == Entry(m.shape.kind, m.id, m.ts, 0, 0)
<1>1. last \in Entries /\ watermark \in Nat /\ OrderPart
  BY TypesNow DEF PlayTypes, FrameInv
<1>2. last.ts \in Nat /\ last.part \in Nat /\ last.of \in Nat
  BY <1>1, EntryFacts
<1>3. /\ QueueType' /\ m \in Incoming /\ m = inputQ[1] /\ 1 \in DOMAIN inputQ
      /\ m.ts <= lastTs /\ m.ts \in Nat
      /\ \A i \in DOMAIN inputQ' :
           /\ inputQ'[i].ts <= lastTs /\ m.ts <= inputQ'[i].ts
           /\ inputQ'[i].ts \in Nat
           /\ \A j \in DOMAIN inputQ' : i < j => inputQ'[i].ts <= inputQ'[j].ts
      /\ \A x \in Nat : (\A i \in DOMAIN inputQ : x <= inputQ[i].ts)
                          => \A i \in DOMAIN inputQ' : x <= inputQ'[i].ts
  BY QueueTaken
<1>4. last.part < last.of => last.ts < watermark
  BY BegunIsVoid
<1>5. last # Default => last.ts <= m.ts
  BY <1>1, <1>3 DEF OrderPart
<1>6. DOMAIN buffer' = {}
  OBVIOUS
<1>7. CASE last' = last
  <2>1. UnfinishedPart'
    BY <1>1, <1>2, <1>4, <1>7 DEF UnfinishedPart
  <2>2. last' # Default => /\ last'.ts <= lastTs'
                           /\ \A i \in DOMAIN inputQ' : last'.ts <= inputQ'[i].ts
    BY <1>1, <1>2, <1>3, <1>7 DEF OrderPart
  <2>3. OrderPart'
    BY <1>3, <1>6, <2>2 DEF OrderPart
  <2>. QED  BY <1>1, <1>3, <1>7, <2>1, <2>3
<1>8. CASE last' = e /\ m.shape.kind \in {"signal", "foreign"}
           /\ (m.shape.kind = "signal" => m.ts >= watermark)
  <2>1. /\ e \in Entries /\ e # Default /\ e.what # "group" /\ e.part = 0 /\ e.of = 0
        /\ e.ts = m.ts /\ e.what = m.shape.kind
    BY <1>3, <1>8, RelayIsEntry
  <2>. HIDE DEF e
  <2>2. UnfinishedPart'
    BY <1>8, <2>1 DEF UnfinishedPart
  <2>3. OrderPart'
    BY <1>3, <1>6, <1>8, <2>1 DEF OrderPart
  <2>4. Follows(last, last')
    BY <1>4, <1>5, <1>8, <2>1 DEF Follows
  <2>. QED  BY <1>3, <1>8, <2>1, <2>2, <2>3, <2>4
<1>. QED  BY <1>7, <1>8 DEF Relay, Emit

\* A message is taken before the clock has started.
LEMMA PausedTakeStep ==
    ASSUME FrameInv, PausedTake
    PROVE  FrameInv' /\ (last' # last => Follows(last, last'))
<1>. DEFINE m == Head(inputQ)
<1>1. /\ ControlType /\ CountTypes /\ FlagTypes /\ PlayTypes /\ watermark \in Nat
  BY TypesNow
<1>2. /\ CheckControl /\ pc' = "top" /\ inputQ # <<>> /\ inputQ' = Tail(inputQ)
      /\ UNCHANGED <<sent, lastTs, cancels, buffer, current>>
  BY DEF PausedTake
<1>3. buffer = <<>> /\ buffer' = <<>>
  BY DEF FrameInv, PausedPart, PausedTake
<1>4. /\ ControlType' /\ FlagTypes' /\ watermark' >= watermark /\ watermark' \in Nat
  <2>1. /\ ControlType' /\ running' \in BOOLEAN /\ killed' \in BOOLEAN
        /\ watermark' \in Stamps \cup {0, Infinity} /\ watermark' >= watermark
    BY <1>2, CheckControlTypes DEF FrameInv, ControlType
  <2>2. watermark' \in Nat
    BY <2>1, EntryFacts
  <2>. QED  BY <1>2, <2>1, <2>2 DEF FlagTypes
<1>5. \/ last' = last
      \/ /\ m.shape.kind \in {"signal", "foreign"} /\ Relay(m)
         /\ m.shape.kind = "signal" => m.ts >= watermark
  <2>1. m.ts \in Nat
    BY <1>2, QueueTaken
  <2>2. ~(m.ts < watermark') => m.ts >= watermark
    BY <1>1, <1>4, <2>1
  <2>. QED  BY <2>2 DEF PausedTake, Stale
<1>6. /\ QueueType' /\ last' \in Entries /\ UnfinishedPart' /\ OrderPart'
      /\ last' # last => Follows(last, last')
  <2>. HIDE DEF m
  <2>. QED  BY <1>2, <1>3, <1>4, <1>5, RelayedOrder DEF m
<1>7. EmptyParts'
  BY <1>3, EmptyBufferNext
<1>8. TypeOK'
  <2>1. CountTypes' /\ PlayTypes'
    BY <1>1, <1>2, <1>6, <1>7 DEF CountTypes, PlayTypes, EmptyParts
  <2>. QED  BY <2>1, <1>4, <1>6, TypesNext
<1>. QED  BY <1>6, <1>7, <1>8 DEF FrameInv, EmptyParts

\* A tick begins: what a cancel voids is dropped.
LEMMA TickStep ==
    ASSUME FrameInv, Tick
    PROVE  FrameInv' /\ last' = last
<1>1. /\ QueueType /\ ControlType /\ PlayTypes /\ CountTypes /\ FlagTypes
      /\ watermark \in Nat
  BY TypesNow
<1>2. /\ CheckControl /\ pc' \in {"fill", "exited"}
      /\ buffer' = (IF Voided THEN <<>> ELSE buffer)
      /\ UNCHANGED <<sent, lastTs, inputQ, cancels, current, last>>
  BY DEF Tick
<1>3. /\ ControlType' /\ FlagTypes' /\ watermark' >= watermark /\ watermark' \in Nat
  <2>1. /\ ControlType' /\ running' \in BOOLEAN /\ killed' \in BOOLEAN
        /\ watermark' \in Stamps \cup {0, Infinity} /\ watermark' >= watermark
    BY <1>2, CheckControlTypes DEF FrameInv, ControlType
  <2>2. watermark' \in Nat
    BY <2>1, EntryFacts
  <2>. QED  BY <1>2, <2>1, <2>2 DEF FlagTypes
<1>4. QueueType' /\ CountTypes'
  BY <1>1, <1>2 DEF QueueType, CountTypes
<1>5. current \in Nat
  BY <1>1, EntryFacts DEF PlayTypes
<1>6. PausedPart'
  BY <1>2 DEF PausedPart
<1>7. CASE ~Voided
  <2>1. buffer' = buffer
    BY <1>2, <1>7
  <2>2. RunPart' /\ UnfinishedPart' /\ OrderPart'
    BY <1>2, <1>3, <2>1, NothingMoves
  <2>3. FreshPart'
    <3>1. buffer # <<>> => current >= watermark
      BY DEF FrameInv, FreshPart
    <3>2. watermark' = Raised /\ (Read = {} => Raised = watermark)
      BY <1>2, RaisedFacts DEF CheckControl, FrameInv
    <3>3. Read = {} \/ ~(current < watermark')
      BY <1>7, <3>2 DEF Voided
    <3>4. buffer # <<>> => current >= watermark'
      BY <3>1, <3>2, <3>3, <1>3, <1>5
    <3>. QED  BY <1>2, <2>1, <3>4 DEF FreshPart
  <2>4. PlayTypes'
    BY <1>1, <1>2, <2>1 DEF PlayTypes, OfOneMessage
  <2>. QED  BY <1>2, <1>3, <1>4, <1>6, <2>2, <2>3, <2>4, TypesNext DEF FrameInv
<1>8. CASE Voided
  <2>1. buffer' = <<>> /\ current < watermark'
    BY <1>2, <1>8 DEF Voided, CheckControl
  <2>2. EmptyParts'
    BY <2>1, EmptyBufferNext
  <2>3. PlayTypes'
    BY <1>1, <1>2, <2>1, <2>2 DEF PlayTypes, EmptyParts
  <2>4. OrderPart'
    <3>1. OrderPart
      BY DEF FrameInv
    <3>. QED  BY <3>1, <1>2, <2>1 DEF OrderPart
  <2>5. UnfinishedPart'
    <3>. SUFFICES ASSUME last.part < last.of PROVE last.ts < watermark'
      BY <1>2 DEF UnfinishedPart
    <3>1. last.ts \in Nat
      BY <1>1, EntryFacts DEF PlayTypes
    <3>2. CASE last.ts < watermark
      BY <3>1, <3>2, <1>1, <1>3
    <3>3. CASE buffer # <<>> /\ buffer[1] # Default /\ buffer[1].ts = last.ts
      <4>1. 1 \in DOMAIN buffer
        BY <3>3, <1>1 DEF PlayTypes
      <4>2. buffer[1].ts = current
        BY <3>3, <4>1, <1>1 DEF PlayTypes, OfOneMessage
      <4>. QED  BY <3>3, <4>2, <2>1
    <3>. QED  BY <3>2, <3>3 DEF FrameInv, UnfinishedPart
  <2>. QED  BY <1>2, <1>3, <1>4, <2>2, <2>3, <2>4, <2>5, TypesNext DEF FrameInv, EmptyParts
<1>. QED  BY <1>2, <1>7, <1>8

\* With nothing to play, a default group.
LEMMA FillDefaultStep ==
    ASSUME FrameInv, FillDefault
    PROVE  FrameInv' /\ last' = last
<1>1. /\ QueueType /\ ControlType /\ PlayTypes /\ CountTypes /\ FlagTypes
      /\ watermark \in Nat /\ watermark < NoStamp
  BY TypesNow
<1>2. /\ pc = "fill" /\ buffer = <<>> /\ buffer' = <<Default>> /\ current' = NoStamp
      /\ UNCHANGED <<sent, lastTs, inputQ, cancels, control, controlVars, pc, last>>
  BY DEF FillDefault
<1>3. /\ Default \in Entries /\ Default.what = "default" /\ Default.part = 1
      /\ Default.of = 1 /\ NoStamp \in Nat
  BY EntryFacts
<1>4. /\ buffer' \in Seq(Entries) /\ DOMAIN buffer' = {1} /\ Len(buffer') = 1
      /\ buffer'[1] = Default
  BY <1>2, <1>3
<1>5. QueueType' /\ ControlType' /\ CountTypes' /\ FlagTypes'
  BY <1>1, <1>2 DEF QueueType, ControlType, CountTypes, FlagTypes, controlVars
<1>6. PlayTypes'
  BY <1>1, <1>2, <1>4 DEF PlayTypes, OfOneMessage
<1>7. PausedPart' /\ FreshPart'
  BY <1>1, <1>2, <1>3 DEF PausedPart, FreshPart, controlVars
<1>8. RunPart'
  BY <1>3, <1>4 DEF RunPart, Consecutive
<1>9. UnfinishedPart'
  BY <1>2, BegunIsVoid DEF UnfinishedPart, controlVars
<1>10. OrderPart'
  <2>1. OrderPart
    BY DEF FrameInv
  <2>. QED  BY <2>1, <1>2, <1>4 DEF OrderPart
<1>. QED  BY <1>2, <1>5, <1>6, <1>7, <1>8, <1>9, <1>10, TypesNext DEF FrameInv

\* A message from the queue is taken into the buffer, passed on or dropped.
LEMMA FillStep ==
    ASSUME FrameInv, Fill
    PROVE  FrameInv' /\ (last' # last => Follows(last, last'))
<1>. DEFINE m == Head(inputQ)
<1>1. /\ ControlType /\ PlayTypes /\ CountTypes /\ FlagTypes
      /\ watermark \in Nat /\ watermark < NoStamp
  BY TypesNow
<1>2. /\ pc = "fill" /\ buffer = <<>> /\ inputQ # <<>> /\ inputQ' = Tail(inputQ)
      /\ buffer' = Filled(m) /\ current' = (IF buffer' = <<>> THEN NoStamp ELSE m.ts)
      /\ UNCHANGED <<sent, lastTs, cancels, control, controlVars, pc>>
  BY DEF Fill
<1>3. /\ QueueType' /\ m \in Incoming /\ m = inputQ[1] /\ 1 \in DOMAIN inputQ
      /\ m.ts <= lastTs /\ m.ts \in Nat
      /\ \A i \in DOMAIN inputQ' :
           /\ inputQ'[i].ts <= lastTs /\ m.ts <= inputQ'[i].ts
           /\ inputQ'[i].ts \in Nat
           /\ \A j \in DOMAIN inputQ' : i < j => inputQ'[i].ts <= inputQ'[j].ts
      /\ \A x \in Nat : (\A i \in DOMAIN inputQ : x <= inputQ[i].ts)
                          => \A i \in DOMAIN inputQ' : x <= inputQ'[i].ts
  BY <1>2, QueueTaken
<1>4. ControlType' /\ CountTypes' /\ FlagTypes' /\ watermark' = watermark
  BY <1>1, <1>2 DEF ControlType, CountTypes, FlagTypes, controlVars
<1>5. PausedPart'
  BY <1>2 DEF PausedPart
<1>6. \/ last' = last
      \/ m.shape.kind = "foreign" /\ Relay(m)
  BY DEF Fill
<1>7. CASE buffer' = <<>>
  <2>1. /\ last' \in Entries /\ UnfinishedPart' /\ OrderPart'
        /\ last' # last => Follows(last, last')
    <3>1. watermark' \in Nat /\ watermark' >= watermark
      BY <1>1, <1>4
    <3>. HIDE DEF m
    <3>. QED  BY <3>1, <1>2, <1>6, <1>7, RelayedOrder DEF m
  <2>2. EmptyParts'
    BY <1>7, EmptyBufferNext
  <2>3. PlayTypes'
    <3>1. current' = NoStamp
      BY <1>2, <1>7
    <3>. QED  BY <3>1, <1>7, <2>1, <2>2 DEF PlayTypes, EmptyParts
  <2>. QED  BY <1>3, <1>4, <2>1, <2>2, <2>3, TypesNext DEF FrameInv, EmptyParts
<1>8. CASE buffer' # <<>>
  <2>1. WholeOf(buffer', m) /\ ~(m.ts < watermark)
    BY <1>2, <1>3, <1>8, FilledIsWhole
  <2>2. last' = last
    <3>1. m.shape.kind = "foreign" => Filled(m) = <<>>
      BY DEF Filled
    <3>. QED  BY <3>1, <1>2, <1>6, <1>8
  <2>3. m.ts \in Stamps /\ current' = m.ts
    BY <1>2, <1>3, <1>8 DEF Incoming
  <2>4. /\ buffer' \in Seq(Entries) /\ Consecutive(buffer')
        /\ \A i \in DOMAIN buffer' :
             buffer'[i] # Default /\ buffer'[i].ts = m.ts /\ buffer'[i].id = m.id
        /\ buffer'[1].what = "group" => buffer'[1].part = 1
        /\ buffer'[Len(buffer')].part >= buffer'[Len(buffer')].of
        /\ Len(buffer') \in DOMAIN buffer'
    BY <1>8, <2>1 DEF WholeOf
  <2>. HIDE DEF m
  <2>5. PlayTypes'
    BY <1>1, <2>2, <2>3, <2>4 DEF PlayTypes, OfOneMessage
  <2>6. FreshPart'
    BY <1>1, <1>3, <1>4, <2>1, <2>3 DEF FreshPart
  <2>7. RunPart'
    BY <2>4 DEF RunPart
  <2>8. UnfinishedPart'
    BY <1>2, <1>4, <2>2, BegunIsVoid DEF UnfinishedPart
  <2>9. OrderPart'
    <3>1. OrderPart /\ last.ts \in Nat
      BY <1>1, EntryFacts DEF FrameInv, PlayTypes
    <3>2. last # Default => /\ last.ts <= lastTs /\ last.ts <= m.ts
                            /\ \A i \in DOMAIN inputQ' : last.ts <= inputQ'[i].ts
      BY <3>1, <1>3 DEF OrderPart
    <3>. QED  BY <3>2, <1>2, <1>3, <2>2, <2>4 DEF OrderPart
  <2>. QED  BY <1>3, <1>4, <1>5, <2>2, <2>5, <2>6, <2>7, <2>8, <2>9, TypesNext DEF FrameInv
<1>. QED  BY <1>7, <1>8

\* A message that cannot be split: a default group goes out in its place.
LEMMA FillFailsStep ==
    ASSUME FrameInv, FillFails
    PROVE  FrameInv' /\ (last' # last => Follows(last, last'))
<1>1. /\ ControlType /\ PlayTypes /\ CountTypes /\ FlagTypes
      /\ watermark \in Nat
  BY TypesNow
<1>2. /\ pc = "fill" /\ buffer = <<>> /\ inputQ # <<>> /\ inputQ' = Tail(inputQ)
      /\ buffer' = <<>> /\ current' = NoStamp /\ last' = Default /\ pc' = "sleep"
      /\ UNCHANGED <<sent, lastTs, cancels, control, controlVars>>
  BY DEF FillFails, TickFails, Emit
<1>3. /\ QueueType'
      /\ \A i \in DOMAIN inputQ' :
           /\ inputQ'[i].ts <= lastTs
           /\ \A j \in DOMAIN inputQ' : i < j => inputQ'[i].ts <= inputQ'[j].ts
  BY <1>2, QueueTaken
<1>4. ControlType' /\ CountTypes' /\ FlagTypes'
  BY <1>1, <1>2 DEF ControlType, CountTypes, FlagTypes, controlVars
<1>5. EmptyParts'
  BY <1>2, EmptyBufferNext
<1>6. /\ Default \in Entries /\ Default.what = "default" /\ Default.part = 1
      /\ Default.of = 1
  BY EntryFacts
<1>7. PlayTypes'
  BY <1>2, <1>5, <1>6 DEF PlayTypes, EmptyParts
<1>8. UnfinishedPart'
  BY <1>2, <1>6 DEF UnfinishedPart
<1>9. OrderPart'
  BY <1>2, <1>3 DEF OrderPart
<1>10. Follows(last, last')
  BY <1>2, <1>6, BegunIsVoid DEF Follows
<1>. QED  BY <1>3, <1>4, <1>5, <1>7, <1>8, <1>9, <1>10, TypesNext DEF FrameInv, EmptyParts

\* The head of the buffer is sent.
LEMMA PopStep ==
    ASSUME FrameInv, PopSignal \/ PopGroup
    PROVE  FrameInv' /\ Follows(last, last')
<1>. DEFINE n == Len(buffer)
            b == buffer
            t == buffer'
            e == buffer[1]
<1>1. /\ QueueType /\ ControlType /\ PlayTypes /\ CountTypes /\ FlagTypes
      /\ watermark \in Nat /\ watermark < NoStamp
  BY TypesNow
<1>2. /\ pc = "fill" /\ b # <<>> /\ last' = Head(b) /\ t = Tail(b)
      /\ pc' \in {"fill", "sleep"}
      /\ UNCHANGED <<sent, lastTs, inputQ, cancels, control, controlVars, current>>
  BY DEF PopSignal, PopGroup, Emit
<1>3. /\ DOMAIN b = 1..n /\ n \in Nat \ {0} /\ last' = e /\ e \in Entries
      /\ t \in Seq(Entries) /\ DOMAIN t = 1..(n - 1) /\ Len(t) = n - 1
      /\ \A i \in 1..(n - 1) : t[i] = b[i + 1]
  BY <1>1, <1>2, TailAt DEF PlayTypes
<1>4. /\ 1 \in DOMAIN b /\ n \in DOMAIN b
      /\ \A i \in DOMAIN t : /\ i \in Nat /\ i \in DOMAIN b /\ i + 1 \in DOMAIN b
                             /\ t[i] = b[i + 1]
      /\ t # <<>> => /\ n - 1 \in DOMAIN t /\ 1 \in DOMAIN t /\ t[n - 1] = b[n]
                     /\ t[1] = b[2] /\ 2 \in DOMAIN b
  BY <1>3
<1>5. /\ \A i \in DOMAIN b : b[i] \in Entries
      /\ \A i \in DOMAIN b : b[i] = Default \/ (b[i].ts = current /\ b[i].id = b[n].id)
      /\ current \in Nat /\ last \in Entries
      /\ last.ts \in Nat /\ last.part \in Nat /\ last.of \in Nat
      /\ e.part \in Nat /\ e.of \in Nat
  BY <1>1, <1>3, EntryFacts DEF PlayTypes, OfOneMessage
<1>6. /\ Consecutive(b)
      /\ e.what = "group" /\ e.part > 1 => last.id = e.id /\ last.part = e.part - 1
      /\ b[n].part >= b[n].of
      /\ current >= watermark /\ OrderPart /\ UnfinishedPart
  BY <1>2 DEF FrameInv, RunPart, FreshPart
<1>7. /\ Default.what = "default" /\ Default.part = 1 /\ Default.of = 1
      /\ Default \in Entries
  BY EntryFacts
<1>8. \A i \in DOMAIN t : /\ b[i + 1].what = "group" /\ b[i + 1].part = b[i].part + 1
                          /\ b[i + 1].id = b[i].id /\ b[i + 1].of = b[i].of
  BY <1>4, <1>6 DEF Consecutive
<1>9. QueueType' /\ ControlType' /\ CountTypes' /\ FlagTypes'
  BY <1>1, <1>2 DEF QueueType, ControlType, CountTypes, FlagTypes, controlVars
<1>. HIDE DEF n, b, t, e
<1>10. PlayTypes'
  <2>1. ASSUME NEW i \in DOMAIN t
        PROVE  t[i] = Default \/ (t[i].ts = current /\ t[i].id = t[Len(t)].id)
    <3>1. t # <<>>
      BY <1>3 DEF t
    <3>. QED  BY <3>1, <1>3, <1>4, <1>5
  <2>2. OfOneMessage'
    BY <2>1, <1>2 DEF OfOneMessage, t
  <2>. QED  BY <2>2, <1>1, <1>2, <1>3, <1>5 DEF PlayTypes, t
<1>11. PausedPart'
  BY <1>2 DEF PausedPart
<1>12. FreshPart'
  BY <1>2, <1>6 DEF FreshPart, controlVars
<1>13. RunPart'
  <2>1. ASSUME NEW i \in DOMAIN t, i + 1 \in DOMAIN t
        PROVE  /\ t[i + 1].what = "group" /\ t[i + 1].part = t[i].part + 1
               /\ t[i + 1].id = t[i].id /\ t[i + 1].of = t[i].of
    BY <2>1, <1>4, <1>8
  <2>2. t # <<>> => /\ t[1].what = "group" /\ t[1].part > 1
                         => last'.id = t[1].id /\ last'.part = t[1].part - 1
                    /\ t[Len(t)].part >= t[Len(t)].of
    <3>. SUFFICES ASSUME t # <<>>
                  PROVE  /\ t[1].part > 1
                              => last'.id = t[1].id /\ last'.part = t[1].part - 1
                         /\ t[Len(t)].part >= t[Len(t)].of
      OBVIOUS
    <3>1. t[1].part = e.part + 1 /\ t[1].id = e.id
      BY <1>4, <1>8 DEF e, b
    <3>. QED  BY <3>1, <1>3, <1>4, <1>5, <1>6
  <2>. QED  BY <2>1, <2>2 DEF RunPart, Consecutive, t
<1>14. UnfinishedPart'
  <2>. SUFFICES ASSUME e.part < e.of
                PROVE  /\ t # <<>> /\ t[1] # Default /\ t[1].id = e.id
                       /\ t[1].ts = e.ts /\ t[1].of = e.of
                       /\ t[1].part = e.part + 1
    BY <1>3 DEF UnfinishedPart, t
  <2>1. n # 1
    BY <1>5, <1>6 DEF e, b
  <2>2. t # <<>>
    BY <2>1, <1>3 DEF t
  <2>3. /\ t[1].what = "group" /\ t[1].part = e.part + 1 /\ t[1].id = e.id
        /\ t[1].of = e.of
    BY <2>2, <1>4, <1>8 DEF e, b
  <2>4. t[1] # Default /\ e # Default
    BY <2>3, <1>5, <1>7
  <2>5. t[1].ts = current /\ e.ts = current
    BY <2>2, <2>4, <1>4, <1>5 DEF e, b
  <2>. QED  BY <2>2, <2>3, <2>4, <2>5
<1>15. OrderPart'
  <2>1. e # Default => /\ e.ts <= lastTs
                       /\ \A i \in DOMAIN inputQ : e.ts <= inputQ[i].ts
    BY <1>4, <1>6 DEF OrderPart, e, b
  <2>2. ASSUME NEW k \in DOMAIN t, t[k] # Default
        PROVE  /\ t[k].ts <= lastTs /\ \A i \in DOMAIN inputQ : t[k].ts <= inputQ[i].ts
               /\ e # Default => e.ts <= t[k].ts
    <3>1. b[k + 1] # Default /\ k + 1 \in DOMAIN b /\ t[k] = b[k + 1]
      BY <2>2, <1>4
    <3>2. t[k].ts <= lastTs /\ \A i \in DOMAIN inputQ : t[k].ts <= inputQ[i].ts
      BY <3>1, <1>6 DEF OrderPart, b
    <3>3. e # Default => e.ts <= t[k].ts
      BY <3>1, <1>4, <1>5 DEF e, b
    <3>. QED  BY <3>2, <3>3
  <2>3. \A i \in DOMAIN inputQ :
           /\ inputQ[i].ts <= lastTs
           /\ \A j \in DOMAIN inputQ : i < j => inputQ[i].ts <= inputQ[j].ts
    BY <1>6 DEF OrderPart
  <2>. QED  BY <2>1, <2>2, <2>3, <1>2, <1>3 DEF OrderPart, t
<1>16. Follows(last, last')
  <2>1. (e.what = "group" /\ e.part > 1) => e.id = last.id /\ e.part = last.part + 1
    BY <1>5, <1>6
  <2>2. (last.part < last.of /\ e.id # last.id) => last.ts < watermark
    BY <1>6 DEF UnfinishedPart, e
  <2>3. e.what \in {"group", "signal"} => e.ts >= watermark
    BY <1>4, <1>5, <1>6, <1>7 DEF e, b
  <2>4. (e # Default /\ last # Default) => e.ts >= last.ts
    <3>1. (e # Default /\ last # Default) => last.ts <= e.ts
      BY <1>4, <1>6 DEF OrderPart, e, b
    <3>2. e.ts \in Nat
      BY <1>3, EntryFacts
    <3>. QED  BY <3>1, <3>2, <1>5
  <2>. QED  BY <2>1, <2>2, <2>3, <2>4, <1>3 DEF Follows
<1>. QED  BY <1>9, <1>10, <1>11, <1>12, <1>13, <1>14, <1>15, <1>16, TypesNext DEF FrameInv

\* A group cannot be rendered: the rest of its message is dropped, and what was
\* sent of it is whole, or void.
LEMMA PopFailsStep ==
    ASSUME FrameInv, PopFails
    PROVE  FrameInv' /\ Follows(last, last')
<1>1. /\ QueueType /\ ControlType /\ PlayTypes /\ CountTypes /\ FlagTypes
      /\ watermark \in Nat
  BY TypesNow
<1>2. /\ buffer # <<>> /\ ~Rendered(Head(buffer))
      /\ buffer' = <<>> /\ current' = NoStamp /\ last' = Default /\ pc' = "sleep"
      /\ UNCHANGED <<sent, lastTs, inputQ, cancels, control, controlVars>>
  BY DEF PopFails, TickFails, Emit
<1>3. QueueType' /\ ControlType' /\ CountTypes' /\ FlagTypes'
  BY <1>1, <1>2 DEF QueueType, ControlType, CountTypes, FlagTypes, controlVars
<1>4. EmptyParts'
  BY <1>2, EmptyBufferNext
<1>5. /\ Default \in Entries /\ Default.what = "default" /\ Default.part = 1
      /\ Default.of = 1
  BY EntryFacts
<1>6. PlayTypes'
  BY <1>2, <1>4, <1>5 DEF PlayTypes, EmptyParts
<1>7. UnfinishedPart'
  BY <1>2, <1>5 DEF UnfinishedPart
<1>8. OrderPart'
  <2>1. OrderPart
    BY DEF FrameInv
  <2>. QED  BY <2>1, <1>2 DEF OrderPart
<1>9. last.part < last.of => last.ts < watermark
  <2>1. Head(buffer) = buffer[1] /\ buffer[1] \in Entries
    BY <1>1, <1>2, TailAt DEF PlayTypes
  <2>2. last.part \in Nat /\ last.of \in Nat /\ buffer[1].part \in Nat
           /\ buffer[1].of \in Nat
    BY <2>1, <1>1, EntryFacts DEF PlayTypes
  <2>3. ~(buffer[1].part <= buffer[1].of)
    BY <2>1, <1>2 DEF Rendered
  <2>4. ~(last.part < last.of /\ buffer[1].of = last.of /\ buffer[1].part = last.part + 1)
    BY <2>2, <2>3
  <2>. QED  BY <2>4 DEF FrameInv, UnfinishedPart
<1>10. Follows(last, last')
  BY <1>2, <1>5, <1>9 DEF Follows
<1>. QED  BY <1>3, <1>4, <1>6, <1>7, <1>8, <1>10, TypesNext DEF FrameInv, EmptyParts

-------------------------------------------------------------------------------
(* The theorems.                                                             *)

\* The splitter begins in its invariant.
LEMMA FrameInit == Init => FrameInv
<1>. SUFFICES ASSUME Init PROVE FrameInv
  OBVIOUS
<1>1. /\ sent = 0 /\ lastTs = 0 /\ inputQ = <<>> /\ cancels = 0 /\ control = <<>>
      /\ running = FALSE /\ killed = FALSE /\ watermark = 0
      /\ pc = "top" /\ buffer = <<>> /\ current = NoStamp /\ last = Default
  BY DEF Init
<1>2. /\ Default \in Entries /\ Default.part = 1 /\ Default.of = 1
  BY EntryFacts
<1>3. EmptyParts
  BY <1>1 DEF EmptyParts, OfOneMessage, FreshPart, RunPart, Consecutive, PausedPart
<1>4. QueueType /\ ControlType /\ PlayTypes /\ CountTypes /\ FlagTypes
  <2>1. QueueType /\ ControlType
    BY <1>1 DEF QueueType, ControlType
  <2>2. PlayTypes
    BY <1>1, <1>2, <1>3 DEF PlayTypes, EmptyParts
  <2>3. CountTypes
    BY <1>1, BoundAssumption DEF CountTypes
  <2>4. FlagTypes
    BY <1>1 DEF FlagTypes
  <2>. QED  BY <2>1, <2>2, <2>3, <2>4
<1>5. UnfinishedPart /\ OrderPart
  BY <1>1, <1>2 DEF UnfinishedPart, OrderPart
<1>. QED  BY <1>3, <1>4, <1>5, Types DEF FrameInv, EmptyParts

\* Every step keeps the invariant, and the output in runs.
LEMMA FrameStep ==
    ASSUME FrameInv, [Next]_vars
    PROVE  FrameInv' /\ (last' # last => Follows(last, last'))
<1>1. CASE \E h \in Shapes, t \in Stamps : Send(h, t)
  <2>1. last' = last
    BY <1>1 DEF Send
  <2>. QED  BY <1>1, <2>1, SendStep
<1>2. CASE (\E t \in Stamps : Cancel(t)) \/ Start \/ Teardown
  <2>1. last' = last
    BY <1>2 DEF Cancel, Start, Teardown
  <2>. QED  BY <1>2, <2>1, SubmitStep
<1>3. CASE Top \/ PausedEmpty
  BY <1>3, PausedStep
<1>4. CASE PausedTake
  BY <1>4, PausedTakeStep
<1>5. CASE Tick
  BY <1>5, TickStep
<1>6. CASE FillDefault
  BY <1>6, FillDefaultStep
<1>7. CASE Fill
  BY <1>7, FillStep
<1>8. CASE FillFails
  BY <1>8, FillFailsStep
<1>9. CASE PopSignal \/ PopGroup
  BY <1>9, PopStep
<1>10. CASE PopFails
  BY <1>10, PopFailsStep
<1>11. CASE Sleep
  <2>1. last' = last
    BY <1>11 DEF Sleep
  <2>. QED  BY <1>11, <2>1, SleepStep
<1>12. CASE UNCHANGED vars
  <2>1. UNCHANGED <<sent, lastTs, inputQ, cancels, control, running, killed, watermark, pc,
                    buffer, current, last>>
    BY <1>12 DEF vars, controlVars
  <2>2. FrameInv'
    BY <2>1 DEF FrameInv, TypeOK, Entries, PausedPart, FreshPart, RunPart, Consecutive,
       UnfinishedPart, OrderPart
  <2>. QED  BY <2>1, <2>2
<1>. QED  BY <1>1, <1>2, <1>3, <1>4, <1>5, <1>6, <1>7, <1>8, <1>9, <1>10, <1>11, <1>12
          DEF Next, Environment, Splitter, Clock

\* The invariant holds from the start to the end.
THEOREM SplitterInvariant == Spec => []FrameInv
<1>1. FrameInv /\ [Next]_vars => FrameInv'
  BY FrameStep
<1>. QED  BY FrameInit, <1>1, PTL DEF Spec

\* The types hold, and the buffer holds what is left of one message, whose
\* stamp is the one that a cancel is compared with (_group_buffer and
\* current_timestamp).
THEOREM SplitterTypes == Spec => []TypeOK
<1>1. FrameInv => TypeOK
  BY DEF FrameInv
<1>. QED  BY <1>1, SplitterInvariant, PTL

\* Whatever is read, cancelled or fails, at whichever tick: the output is a
\* sequence of whole messages in stamp order, each group the successor of the
\* one before, a message begun is only left when a cancel has voided it, and
\* nothing that is void is sent (_run_clock).
THEOREM RunsAreKept == Spec => KeepsRuns
<1>1. FrameInv /\ [Next]_vars => [last' # last => Follows(last, last')]_vars
  BY FrameStep
<1>. QED  BY <1>1, SplitterInvariant, PTL DEF Spec, KeepsRuns

-------------------------------------------------------------------------------
(* The joint stream: the invariant.  What it packs is what the splitter      *)
(* plays, and the proofs of the two stand side by side.                      *)

\* The sentences in the node's input queue, in the order they were sent: none
\* has been begun, and all are newer than what has left.
InboxPart ==
    \A k \in DOMAIN inbox : inbox[k].kind = "text" =>
        /\ inbox[k].input \in DOMAIN texts /\ inbox[k].turn = texts[inbox[k].input].turn
        /\ \A s \in Streams : pump[inbox[k].input][s] = "none" /\ made[inbox[k].input][s] = 0
        /\ \A j \in DOMAIN out : out[j].input < inbox[k].input
        /\ \A j \in DOMAIN inbox :
             j < k /\ inbox[j].kind = "text" => inbox[j].input < inbox[k].input

\* Nothing is of a sentence that was not sent.
SentPart ==
    /\ Len(texts) <= MaxInputs
    /\ \A i \in Inputs : i \notin DOMAIN texts =>
         \A s \in Streams : pump[i][s] = "none" /\ made[i][s] = 0
    /\ \A k \in DOMAIN out : out[k].input \in DOMAIN texts

\* The packs of sentence i in o, and those that have left.
PacksIn(o, i) == {k \in DOMAIN o : o[k].input = i /\ o[k].kind = "pack"}
Packed(i)     == Cardinality(PacksIn(out, i))

\* The envelope of sentence i is the open one.
Enclosed(i) == out # <<>> /\ out[Len(out)].input = i /\ out[Len(out)].kind # "EoS"

\* The sentence in process() is not void, and its envelope is open.
HeldPart ==
    /\ held = None <=> at \in {"top", "exited"}
    /\ held # None =>
         held \in DOMAIN texts /\ ~(StampOf(held) < cancel_timestamp) /\ Enclosed(held)
    /\ held = None => taken = Each(0) /\ took = {} /\ done = {}

\* Every stream has given a chunk for each pack, one more if the round has come
\* by it, or it has ended; the round goes through the streams in their order.
RoundPart ==
    at = "take" =>
        /\ next \in Started \ (took \cup done)
        /\ took \cup done \subseteq Started /\ took \cap done = {}
        /\ \A s \in took : /\ s < next
                           /\ taken[s] = Packed(held) + 1 /\ taken[s] <= made[held][s]
        /\ \A s \in done : /\ pump[held][s] = "ended"
                           /\ taken[s] = made[held][s] /\ taken[s] <= Packed(held)
        /\ \A s \in Started \ (took \cup done) : next <= s /\ taken[s] = Packed(held)

\* All that stream s has made for sentence i is packed.
Spent(i, s) == pump[i][s] = "ended" /\ made[i][s] <= Packed(i)

\* The envelope is closed at the mode's boundary.
EndPart ==
    at = "close" =>
        \/ \A s \in Started : Spent(held, s)
        \/ mode = "shortest" /\ \E s \in Started : Spent(held, s)
        \/ mode = "anchor" /\ Anchor \in Started /\ Spent(held, Anchor)

JointInv ==
    /\ JointTypes /\ NoPumpIsForgotten /\ InboxPart /\ SentPart /\ HeldPart /\ RoundPart /\ EndPart

-------------------------------------------------------------------------------
(* Streams, sequences and the packs of a sentence.                           *)

\* The stream a round begins or goes on with.
LEMMA FirstStream ==
    ASSUME NEW T \in SUBSET Streams, T # {}
    PROVE  Min(T) \in T /\ \A s \in T : Min(T) <= s
<1>1. T \in SUBSET Nat
  BY JointAssumption DEF Streams
<1>2. PICK m \in T : \A s \in T : m <= s
  BY <1>1, LeastNumber
<1>. QED  BY <1>2 DEF Min

LEMMA LaterOf ==
    ASSUME NEW a \in Nat, NEW b \in Nat
    PROVE  /\ Max({a, b}) \in {a, b} /\ Max({a, b}) >= a /\ Max({a, b}) >= b
<1>1. \E x \in {a, b} : \A y \in {a, b} : x >= y
  OBVIOUS
<1>. QED  BY <1>1 DEF Max

\* Append and Tail, entry by entry.
LEMMA Appended ==
    ASSUME NEW S, NEW q \in Seq(S), NEW m \in S
    PROVE  /\ Append(q, m) \in Seq(S) /\ Len(Append(q, m)) = Len(q) + 1 /\ Append(q, m) # <<>>
           /\ DOMAIN q = 1..Len(q) /\ DOMAIN Append(q, m) = 1..(Len(q) + 1)
           /\ Append(q, m)[Len(q) + 1] = m /\ \A k \in DOMAIN q : Append(q, m)[k] = q[k]
           /\ Len(q) \in Nat
<1>1. Append(q, m) \in Seq(S) /\ Len(Append(q, m)) = Len(q) + 1
  BY AppendProperties
<1>. QED  BY <1>1, AppendProperties, LenProperties

LEMMA Removed ==
    ASSUME NEW S, NEW q \in Seq(S), q # <<>>
    PROVE  /\ Tail(q) \in Seq(S) /\ Head(q) \in S /\ Head(q) = q[1] /\ 1 \in DOMAIN q
           /\ \A k \in DOMAIN Tail(q) :
                k \in Nat /\ k >= 1 /\ k + 1 \in DOMAIN q /\ Tail(q)[k] = q[k + 1]
<1>1. Len(q) \in Nat /\ Len(q) # 0 /\ DOMAIN q = 1..Len(q)
  BY LenProperties, EmptySeq
<1>2. /\ Tail(q) \in Seq(S) /\ Head(q) \in S /\ Len(Tail(q)) = Len(q) - 1
      /\ \A i \in 1..Len(Tail(q)) : Tail(q)[i] = q[i + 1]
  BY HeadTailProperties
<1>3. DOMAIN Tail(q) = 1..Len(Tail(q))
  BY <1>2, LenProperties
<1>. QED  BY <1>1, <1>2, <1>3

LEMMA PacksAreCounted ==
    ASSUME NEW o \in Seq(Output), NEW i
    PROVE  /\ IsFiniteSet(PacksIn(o, i)) /\ Cardinality(PacksIn(o, i)) \in Nat
<1>1. DOMAIN o = 1..Len(o) /\ Len(o) \in Int /\ 1 \in Int
  BY LenProperties
<1>2. IsFiniteSet(DOMAIN o)
  BY <1>1, FS_Interval
<1>3. PacksIn(o, i) \in SUBSET DOMAIN o
  BY DEF PacksIn
<1>. QED  BY <1>2, <1>3, FS_Subset, FS_CardinalityType

\* A pack is one more of its sentence, and nothing else counts.
LEMMA PacksGrow ==
    ASSUME NEW o \in Seq(Output), NEW m \in Output, NEW i
    PROVE  Cardinality(PacksIn(Append(o, m), i)) =
             IF m.kind = "pack" /\ m.input = i THEN Cardinality(PacksIn(o, i)) + 1
                                               ELSE Cardinality(PacksIn(o, i))
<1>1. PICK r : r = Append(o, m)
  OBVIOUS
<1>2. PICK n \in Nat : n = Len(o)
  BY LenProperties
<1>3. /\ DOMAIN o = 1..n /\ DOMAIN r = 1..(n + 1) /\ r[n + 1] = m
      /\ \A k \in 1..n : r[k] = o[k]
  BY <1>1, <1>2, Appended
<1>4. CASE m.kind = "pack" /\ m.input = i
  <2>1. PacksIn(r, i) = PacksIn(o, i) \cup {n + 1}
    BY <1>3, <1>4 DEF PacksIn
  <2>2. n + 1 \notin PacksIn(o, i)
    BY <1>3 DEF PacksIn
  <2>3. IsFiniteSet(PacksIn(o, i))
    BY PacksAreCounted
  <2>4. Cardinality(PacksIn(o, i) \cup {n + 1}) = Cardinality(PacksIn(o, i)) + 1
    BY <2>2, <2>3, FS_AddElement
  <2>. QED  BY <1>1, <1>4, <2>1, <2>4
<1>5. CASE ~(m.kind = "pack" /\ m.input = i)
  <2>1. PacksIn(r, i) = PacksIn(o, i)
    BY <1>3, <1>5 DEF PacksIn
  <2>. QED  BY <1>1, <1>5, <2>1
<1>. QED  BY <1>4, <1>5

LEMMA PackedType ==
    ASSUME JointTypes, NEW i
    PROVE  Packed(i) \in Nat
  BY PacksAreCounted DEF JointTypes, Packed

LEMMA PackedNext ==
    ASSUME JointTypes, NEW m \in Output, out' = Append(out, m), NEW i
    PROVE  Cardinality(PacksIn(out', i)) =
             IF m.kind = "pack" /\ m.input = i THEN Packed(i) + 1 ELSE Packed(i)
<1>1. out \in Seq(Output)
  BY DEF JointTypes
<1>. QED  BY <1>1, PacksGrow DEF Packed

\* A sentence of which nothing has left has no packs.
LEMMA NoPacks ==
    ASSUME NEW i, \A k \in DOMAIN out : out[k].input # i
    PROVE  Packed(i) = 0
<1>1. PacksIn(out, i) = {}
  BY DEF PacksIn
<1>. QED  BY <1>1, FS_EmptySet DEF Packed

LEMMA TextType ==
    ASSUME JointTypes
    PROVE  /\ Len(texts) \in Nat /\ DOMAIN texts = 1..Len(texts)
           /\ \A i \in DOMAIN texts :
                i \in Nat /\ i >= 1 /\ texts[i].turn \in Turns /\ texts[i].active \subseteq Streams
<1>1. texts \in Seq([turn : Turns, active : SUBSET Streams])
  BY DEF JointTypes
<1>2. Len(texts) \in Nat /\ DOMAIN texts = 1..Len(texts)
  BY <1>1, LenProperties
<1>3. \A i \in 1..Len(texts) : texts[i] \in [turn : Turns, active : SUBSET Streams]
  BY <1>1, ElementOfSeq
<1>. QED  BY <1>2, <1>3

LEMMA InboxEntry ==
    ASSUME JointTypes, NEW k \in DOMAIN inbox
    PROVE  /\ inbox[k] \in Message /\ inbox[k].turn \in Turns
           /\ inbox[k].kind = "text" => inbox[k].input \in Inputs
<1>1. inbox \in Seq(Message) /\ k \in 1..Len(inbox)
  BY LenProperties DEF JointTypes
<1>2. inbox[k] \in Message
  BY <1>1, ElementOfSeq
<1>. QED  BY <1>2 DEF Message

-------------------------------------------------------------------------------
(* What a step leaves as it is.                                              *)

\* Sentences are only added.
Grows == \A i \in DOMAIN texts : i \in DOMAIN texts' /\ texts'[i] = texts[i]

\* Pumps go on, and an ended one makes no more.
Runs ==
    \A i \in Inputs, s \in Streams :
        /\ made[i][s] <= made'[i][s]
        /\ pump[i][s] = "ended" => pump'[i][s] = "ended" /\ made'[i][s] = made[i][s]
        /\ pump[i][s] = "none" => pump'[i][s] = "none" /\ made'[i][s] = made[i][s]

\* The node stays where it is, or in its loop.
Quiet ==
    /\ UNCHANGED <<mode, held, roundVars, out>>
    /\ at' = at \/ (held = None /\ at' \in {"top", "exited"})

\* The round goes on where it was.
LEMMA RoundIsKept ==
    ASSUME JointInv, Quiet, Grows, Runs,
           made' \in [Inputs -> [Streams -> Nat]],
           held # None => ~(StampOf(held) < cancel_timestamp')
    PROVE  HeldPart' /\ RoundPart' /\ EndPart'
<1>1. /\ at' \in {"take", "close"} => at' = at
      /\ mode' = mode /\ held' = held /\ next' = next /\ taken' = taken
      /\ took' = took /\ done' = done /\ out' = out
  BY DEF Quiet, roundVars
<1>2. \A i : Packed(i)' = Cardinality(PacksIn(out, i)) /\ Packed(i) = Cardinality(PacksIn(out, i))
  BY <1>1 DEF Packed
<1>3. HeldPart /\ RoundPart /\ EndPart /\ JointTypes
  BY DEF JointInv
<1>4. at \in {"take", "close"} =>
        /\ held \in DOMAIN texts /\ held \in DOMAIN texts' /\ texts'[held] = texts[held]
        /\ held \in Inputs /\ Started' = Started /\ Started \subseteq Streams
  <2>1. SUFFICES ASSUME at \in {"take", "close"}
                 PROVE  /\ held \in DOMAIN texts /\ held \in Inputs
                        /\ held \in DOMAIN texts' /\ texts'[held] = texts[held]
                        /\ Started' = Started /\ Started \subseteq Streams
    OBVIOUS
  <2>2. held # None /\ held \in DOMAIN texts
    BY <1>3, <2>1 DEF HeldPart
  <2>3. texts[held].active \subseteq Streams
    BY <1>3, <2>2, TextType
  <2>4. held \in Inputs
    BY <1>3, <2>2 DEF JointTypes
  <2>. QED  BY <1>1, <2>2, <2>3, <2>4 DEF Grows, Started
<1>5. HeldPart'
  <2>1. held = None <=> at' \in {"top", "exited"}
    BY <1>3 DEF HeldPart, Quiet
  <2>. QED  BY <1>1, <1>3, <2>1 DEF HeldPart, Grows, StampOf, Enclosed
<1>6. RoundPart'
  <2>1. SUFFICES ASSUME at = "take", at' = "take" PROVE RoundPart'
    BY <1>1 DEF RoundPart
  <2>2. Packed(held) \in Nat /\ Packed(held)' = Packed(held)
    BY <1>1, <1>2, <1>3, PackedType DEF Packed
  <2>3. \A s \in Streams : /\ made[held][s] \in Nat
                           /\ made[held][s] <= made'[held][s]
                           /\ pump[held][s] = "ended" => /\ pump'[held][s] = "ended"
                                                         /\ made'[held][s] = made[held][s]
    BY <1>3, <1>4, <2>1 DEF Runs, JointTypes
  <2>4. Started' = Started /\ Started \subseteq Streams
    BY <1>4, <2>1
  <2>5. /\ next \in Started \ (took \cup done)
        /\ took \cup done \subseteq Started /\ took \cap done = {}
        /\ \A s \in took : /\ s < next
                           /\ taken[s] = Packed(held) + 1 /\ taken[s] <= made[held][s]
        /\ \A s \in done : /\ pump[held][s] = "ended"
                           /\ taken[s] = made[held][s] /\ taken[s] <= Packed(held)
        /\ \A s \in Started \ (took \cup done) : next <= s /\ taken[s] = Packed(held)
    BY <1>3, <2>1 DEF RoundPart
  <2>6. ASSUME NEW s \in took
        PROVE  taken[s] <= made'[held][s]
    <3>1. s \in Streams /\ taken[s] = Packed(held) + 1 /\ taken[s] <= made[held][s]
      BY <2>4, <2>5
    <3>2. made[held][s] \in Nat /\ made[held][s] <= made'[held][s]
      BY <2>3, <3>1, Zenon
    <3>3. made'[held][s] \in Nat
      BY <1>4, <2>1, <3>1
    <3>. QED  BY <2>2, <3>1, <3>2, <3>3
  <2>7. ASSUME NEW s \in done
        PROVE  pump'[held][s] = "ended" /\ taken[s] = made'[held][s]
    <3>1. s \in Streams /\ pump[held][s] = "ended" /\ taken[s] = made[held][s]
      BY <2>4, <2>5
    <3>2. pump'[held][s] = "ended" /\ made'[held][s] = made[held][s]
      BY <2>3, <3>1, Zenon
    <3>. QED  BY <3>1, <3>2
  <2>. QED  BY <1>1, <2>2, <2>4, <2>5, <2>6, <2>7 DEF RoundPart
<1>7. EndPart'
  <2>1. SUFFICES ASSUME at = "close", at' = "close" PROVE EndPart'
    BY <1>1 DEF EndPart
  <2>2. Packed(held)' = Packed(held)
    BY <1>1, <1>2 DEF Packed
  <2>3. \A s \in Streams : Spent(held, s) => Spent(held, s)'
    BY <1>1, <1>4, <2>1, <2>2 DEF Runs, Spent
  <2>4. Anchor \in Streams
    BY JointAssumption
  <2>. QED  BY <1>1, <1>3, <1>4, <2>1, <2>3, <2>4 DEF EndPart
<1>. QED  BY <1>5, <1>6, <1>7

\* The input queue without its first d messages.
LEMMA InboxIsKept ==
    ASSUME JointInv, Grows, NEW d \in {0, 1},
           \A k \in DOMAIN inbox' :
               /\ k \in Nat /\ k + d \in DOMAIN inbox /\ inbox'[k] = inbox[k + d]
               /\ inbox'[k].kind = "text" =>
                    /\ \A s \in Streams : /\ pump'[inbox'[k].input][s] = "none"
                                          /\ made'[inbox'[k].input][s] = 0
                    /\ \A j \in DOMAIN out' : \/ out'[j].input < inbox'[k].input
                                              \/ j \in DOMAIN out /\ out'[j] = out[j]
    PROVE  InboxPart'
<1>1. InboxPart
  BY DEF JointInv
<1>. SUFFICES ASSUME NEW k \in DOMAIN inbox', inbox'[k].kind = "text"
              PROVE  /\ inbox'[k].input \in DOMAIN texts'
                     /\ inbox'[k].turn = texts'[inbox'[k].input].turn
                     /\ \A s \in Streams : /\ pump'[inbox'[k].input][s] = "none"
                                           /\ made'[inbox'[k].input][s] = 0
                     /\ \A j \in DOMAIN out' : out'[j].input < inbox'[k].input
                     /\ \A j \in DOMAIN inbox' :
                          j < k /\ inbox'[j].kind = "text" => inbox'[j].input < inbox'[k].input
  BY DEF InboxPart
<1>2. k + d \in DOMAIN inbox /\ inbox'[k] = inbox[k + d]
  OBVIOUS
<1>3. /\ inbox'[k].input \in DOMAIN texts /\ inbox'[k].turn = texts[inbox'[k].input].turn
      /\ \A j \in DOMAIN out : out[j].input < inbox'[k].input
      /\ \A j \in DOMAIN inbox :
           j < k + d /\ inbox[j].kind = "text" => inbox[j].input < inbox'[k].input
  BY <1>1, <1>2 DEF InboxPart
<1>4. inbox'[k].input \in DOMAIN texts' /\ inbox'[k].turn = texts'[inbox'[k].input].turn
  BY <1>3 DEF Grows
<1>5. \A j \in DOMAIN out' : out'[j].input < inbox'[k].input
  BY <1>3
<1>6. ASSUME NEW j \in DOMAIN inbox', j < k, inbox'[j].kind = "text"
      PROVE  inbox'[j].input < inbox'[k].input
  <2>1. j + d \in DOMAIN inbox /\ inbox'[j] = inbox[j + d] /\ j \in Nat /\ k \in Nat
    OBVIOUS
  <2>2. j + d < k + d
    BY <1>6, <2>1
  <2>. QED  BY <1>3, <1>6, <2>1, <2>2
<1>. QED  BY <1>4, <1>5, <1>6

\* Sentences that were not sent, with no new output.
LEMMA SentIsKept ==
    ASSUME JointInv, Grows, Runs, out' = out, Len(texts') <= MaxInputs
    PROVE  SentPart'
<1>1. SentPart
  BY DEF JointInv
<1>2. \A i \in Inputs : i \notin DOMAIN texts' => i \notin DOMAIN texts
  BY DEF Grows
<1>. QED  BY <1>1, <1>2 DEF SentPart, Grows, Runs

-------------------------------------------------------------------------------
(* Upstream and the control plane.                                           *)

\* A message joins the input queue: a sentence is newer than every other and has
\* no pumps.
LEMMA InboxGrows ==
    ASSUME JointInv, Grows, NEW m \in Message, inbox' = Append(inbox, m),
           pump' = pump, made' = made, out' = out,
           m.kind = "text" =>
             /\ m.input \in DOMAIN texts' /\ m.turn = texts'[m.input].turn
             /\ \A i \in DOMAIN texts : i < m.input
             /\ \A s \in Streams : pump[m.input][s] = "none" /\ made[m.input][s] = 0
    PROVE  InboxPart'
<1>1. InboxPart /\ SentPart /\ inbox \in Seq(Message)
  BY DEF JointInv, JointTypes
<1>2. PICK n \in Nat : n = Len(inbox)
  BY <1>1, LenProperties
<1>3. /\ DOMAIN inbox = 1..n /\ DOMAIN inbox' = 1..(n + 1)
      /\ inbox'[n + 1] = m /\ \A k \in 1..n : inbox'[k] = inbox[k]
  BY <1>1, <1>2, Appended
<1>. SUFFICES ASSUME NEW k \in 1..(n + 1), inbox'[k].kind = "text"
              PROVE  /\ inbox'[k].input \in DOMAIN texts'
                     /\ inbox'[k].turn = texts'[inbox'[k].input].turn
                     /\ \A s \in Streams : /\ pump[inbox'[k].input][s] = "none"
                                           /\ made[inbox'[k].input][s] = 0
                     /\ \A j \in DOMAIN out : out[j].input < inbox'[k].input
                     /\ \A j \in 1..(n + 1) :
                          j < k /\ inbox'[j].kind = "text" => inbox'[j].input < inbox'[k].input
  BY <1>3 DEF InboxPart
<1>4. CASE k \in 1..n
  <2>1. \A j \in 1..(n + 1) : j < k => j \in 1..n
    BY <1>4
  <2>. QED  BY <1>1, <1>3, <1>4, <2>1 DEF InboxPart, Grows
<1>5. CASE k = n + 1
  <2>1. \A j \in 1..(n + 1) : j < k => j \in 1..n
    BY <1>5
  <2>2. \A j \in 1..n : inbox[j].kind = "text" => inbox[j].input \in DOMAIN texts
    BY <1>1, <1>3 DEF InboxPart
  <2>3. \A j \in DOMAIN out : out[j].input \in DOMAIN texts
    BY <1>1 DEF SentPart
  <2>. QED  BY <1>3, <1>5, <2>1, <2>2, <2>3
<1>6. k \in 1..n \/ k = n + 1
  OBVIOUS
<1>. QED  BY <1>4, <1>5, <1>6

\* What upstream and the control plane do leaves the node where it is.
LEMMA NodeIsLeft ==
    ASSUME JointInv, UNCHANGED nodeVars, Grows, Len(texts') <= MaxInputs,
           JointTypes', InboxPart'
    PROVE  JointInv'
<1>1. /\ Quiet /\ pump' = pump /\ made' = made /\ out' = out /\ stopped' = stopped
      /\ cancel_timestamp' = cancel_timestamp /\ held' = held
  BY DEF nodeVars, loopVars, pumpVars, Quiet
<1>2. Runs /\ made' \in [Inputs -> [Streams -> Nat]]
  <2>1. made \in [Inputs -> [Streams -> Nat]]
    BY DEF JointInv, JointTypes
  <2>. QED  BY <1>1, <2>1 DEF Runs
<1>3. held # None => ~(StampOf(held) < cancel_timestamp')
  BY <1>1 DEF JointInv, HeldPart
<1>4. HeldPart' /\ RoundPart' /\ EndPart'
  BY <1>1, <1>2, <1>3, RoundIsKept
<1>5. SentPart'
  BY <1>1, <1>2, SentIsKept
<1>6. NoPumpIsForgotten'
  BY <1>1 DEF JointInv, NoPumpIsForgotten, Running
<1>. QED  BY <1>4, <1>5, <1>6 DEF JointInv

LEMMA SendSoSStep ==
    ASSUME JointInv, SendSoS
    PROVE  JointInv'
<1>1. JointTypes /\ SentPart /\ texts' = texts /\ turn \in Nat
  <2>1. turn \in 0..MaxTurns /\ MaxTurns \in Nat
    BY JointAssumption DEF JointInv, JointTypes
  <2>. QED  BY <2>1 DEF JointInv, SendSoS
<1>2. PICK m \in Message : inbox' = Append(inbox, m) /\ m.kind = "SoS"
  <2>1. turn + 1 \in Turns
    BY <1>1, JointAssumption DEF SendSoS, Turns
  <2>. QED  BY <2>1 DEF SendSoS, Message
<1>3. JointTypes'
  <2>1. inbox' \in Seq(Message)
    BY <1>1, <1>2, AppendProperties DEF JointTypes
  <2>2. turn' \in 0..MaxTurns
    BY <1>1, JointAssumption DEF SendSoS
  <2>. QED  BY <1>1, <2>1, <2>2 DEF SendSoS, JointTypes, planeVars, nodeVars,
               loopVars, roundVars, pumpVars
<1>4. UNCHANGED nodeVars /\ pump' = pump /\ made' = made /\ out' = out
  BY DEF SendSoS, nodeVars, pumpVars
<1>5. Grows /\ Len(texts') <= MaxInputs
  BY <1>1 DEF Grows, SentPart
<1>6. InboxPart'
  BY <1>2, <1>4, <1>5, InboxGrows
<1>. QED  BY <1>3, <1>4, <1>5, <1>6, NodeIsLeft

LEMMA SendTextStep ==
    ASSUME JointInv, NEW active \in SUBSET Streams, SendText(active)
    PROVE  JointInv'
<1>1. JointTypes /\ SentPart
  BY DEF JointInv
<1>2. PICK n \in Nat : n = Len(texts)
  BY <1>1, TextType
<1>3. PICK t \in [turn : Turns, active : SUBSET Streams] :
        texts' = Append(texts, t) /\ t.turn = turn /\ turn \in Turns
  <2>1. turn \in Turns
    BY <1>1, JointAssumption DEF SendText, JointTypes, Turns
  <2>. QED  BY <2>1 DEF SendText
<1>4. /\ texts' \in Seq([turn : Turns, active : SUBSET Streams]) /\ Len(texts') = n + 1
      /\ DOMAIN texts = 1..n /\ DOMAIN texts' = 1..(n + 1)
      /\ texts'[n + 1] = t /\ \A i \in 1..n : texts'[i] = texts[i]
  BY <1>1, <1>2, <1>3, Appended DEF JointTypes
<1>5. n < MaxInputs /\ n + 1 \in Inputs
  BY <1>2, JointAssumption DEF SendText, Inputs
<1>6. PICK m \in Message : /\ inbox' = Append(inbox, m) /\ m.kind = "text"
                           /\ m.input = n + 1 /\ m.turn = turn
  <2>1. PICK m : m = [kind |-> "text", turn |-> turn, input |-> n + 1]
    OBVIOUS
  <2>2. m \in Message /\ m.kind = "text" /\ m.input = n + 1 /\ m.turn = turn
    BY <1>3, <1>5, <2>1 DEF Message
  <2>3. inbox' = Append(inbox, m)
    BY <1>2, <2>1 DEF SendText
  <2>. QED  BY <2>2, <2>3
<1>7. JointTypes'
  <2>1. inbox' \in Seq(Message)
    BY <1>1, <1>6, AppendProperties DEF JointTypes
  <2>. QED  BY <1>1, <1>4, <2>1 DEF SendText, JointTypes, planeVars, nodeVars,
               loopVars, roundVars, pumpVars
<1>8. UNCHANGED nodeVars /\ pump' = pump /\ made' = made /\ out' = out
  BY DEF SendText, nodeVars, pumpVars
<1>9. Grows /\ Len(texts') <= MaxInputs
  <2>1. 1..n \subseteq 1..(n + 1)
    OBVIOUS
  <2>. QED  BY <1>4, <1>5, <2>1, JointAssumption DEF Grows
<1>10. \A s \in Streams : pump[n + 1][s] = "none" /\ made[n + 1][s] = 0
  <2>1. n + 1 \notin DOMAIN texts
    BY <1>4
  <2>. QED  BY <1>1, <1>5, <2>1 DEF SentPart
<1>11. InboxPart'
  <2>1. n + 1 \in DOMAIN texts' /\ texts'[n + 1].turn = turn /\ \A i \in DOMAIN texts : i < n + 1
    BY <1>3, <1>4
  <2>. QED  BY <1>6, <1>8, <1>9, <1>10, <2>1, InboxGrows
<1>. QED  BY <1>7, <1>8, <1>9, <1>11, NodeIsLeft

\* Cancels and the teardown's cancel and kill touch nothing but the control queue.
LEMMA ControlStep ==
    ASSUME JointInv, Dispose \/ \E c \in Cancels : Interrupt(c)
    PROVE  JointInv'
<1>1. JointTypes /\ SentPart /\ InboxPart
  BY DEF JointInv
<1>2. turn' = turn /\ texts' = texts /\ inbox' = inbox /\ UNCHANGED nodeVars
  BY DEF Dispose, Interrupt, upstreamVars
<1>3. pump' = pump /\ made' = made /\ out' = out
  BY <1>2 DEF nodeVars, pumpVars
<1>4. cancel_queue' \in Seq(Cancels \cup {TeardownStamp, Kill}) /\ controls' \in Nat
  <2>1. CASE Dispose
    <3>1. <<TeardownStamp, Kill>> \in Seq(Cancels \cup {TeardownStamp, Kill})
      OBVIOUS
    <3>. QED  BY <1>1, <2>1, <3>1, ConcatProperties, JointAssumption DEF JointTypes, Dispose
  <2>2. ASSUME NEW c \in Cancels, Interrupt(c)
        PROVE  cancel_queue' \in Seq(Cancels \cup {TeardownStamp, Kill}) /\ controls' \in Nat
    BY <1>1, <2>2, AppendProperties DEF JointTypes, Interrupt
  <2>. QED  BY <2>1, <2>2
<1>5. JointTypes'
  BY <1>1, <1>2, <1>4 DEF JointTypes, nodeVars, loopVars, roundVars, pumpVars
<1>6. Grows /\ Len(texts') <= MaxInputs
  BY <1>1, <1>2 DEF Grows, SentPart
<1>7. InboxPart'
  BY <1>1, <1>2, <1>3 DEF InboxPart
<1>. QED  BY <1>2, <1>5, <1>6, <1>7, NodeIsLeft

-------------------------------------------------------------------------------
(* The pumps.                                                                *)

\* A pump of stream s for sentence i goes from p to q, with n chunks in its queue.
LEMMA PumpGoesOn ==
    ASSUME JointInv, NEW i \in Inputs, NEW s \in Streams,
           NEW q \in {"next", "ended"}, NEW n \in Nat,
           pump[i][s] \in {"new", "next"}, pump' = [pump EXCEPT ![i][s] = q],
           made' = [made EXCEPT ![i][s] = n], made[i][s] <= n,
           history' \in [Streams -> Turns \cup {None}],
           UNCHANGED <<upstreamVars, inbox, planeVars, at, loopVars, mode, held,
                       roundVars, stopped, out>>
    PROVE  JointInv' /\ Runs
<1>1. JointTypes /\ SentPart /\ InboxPart /\ NoPumpIsForgotten
  BY DEF JointInv
<1>2. /\ turn' = turn /\ texts' = texts /\ inbox' = inbox /\ out' = out /\ held' = held
      /\ stopped' = stopped /\ cancel_timestamp' = cancel_timestamp /\ Quiet
  BY DEF upstreamVars, loopVars, Quiet
<1>3. /\ pump \in [Inputs -> [Streams -> {"none", "new", "next", "ended"}]]
      /\ made \in [Inputs -> [Streams -> Nat]]
  BY <1>1 DEF JointTypes
<1>4. /\ pump' \in [Inputs -> [Streams -> {"none", "new", "next", "ended"}]]
      /\ made' \in [Inputs -> [Streams -> Nat]]
  BY <1>3
<1>5. \A j \in Inputs, t \in Streams :
        /\ (j # i \/ t # s) => pump'[j][t] = pump[j][t] /\ made'[j][t] = made[j][t]
        /\ pump'[i][s] = q /\ made'[i][s] = n
  BY <1>3
<1>6. Runs
  <2>1. \A j \in Inputs, t \in Streams : made[j][t] \in Nat
    BY <1>3
  <2>. QED  BY <1>5, <2>1 DEF Runs
<1>7. JointTypes'
  BY <1>1, <1>4 DEF JointTypes, upstreamVars, planeVars, loopVars, roundVars
<1>8. Grows /\ Len(texts') <= MaxInputs
  BY <1>1, <1>2 DEF Grows, SentPart
<1>9. HeldPart' /\ RoundPart' /\ EndPart'
  <2>1. held # None => ~(StampOf(held) < cancel_timestamp')
    BY <1>2 DEF JointInv, HeldPart
  <2>. QED  BY <1>2, <1>4, <1>6, <1>8, <2>1, RoundIsKept
<1>10. SentPart'
  BY <1>2, <1>6, <1>8, SentIsKept
<1>11. InboxPart'
  <2>1. \A k \in DOMAIN inbox : inbox[k].kind = "text" => inbox[k].input \in Inputs
    BY <1>1, InboxEntry
  <2>2. \A k \in DOMAIN inbox : inbox[k].kind = "text" =>
          \A t \in Streams : /\ pump'[inbox[k].input][t] = "none"
                             /\ made'[inbox[k].input][t] = 0
    BY <1>1, <1>6, <2>1 DEF InboxPart, Runs
  <2>. QED  BY <1>1, <1>2, <2>2 DEF InboxPart
<1>12. NoPumpIsForgotten'
  <2>1. \A j \in Inputs, t \in Streams : Running(j, t)' => Running(j, t)
    BY <1>5 DEF Running
  <2>. QED  BY <1>1, <1>2, <2>1 DEF NoPumpIsForgotten
<1>. QED  BY <1>6, <1>7, <1>9, <1>10, <1>11, <1>12 DEF JointInv

LEMMA PumpStep ==
    ASSUME JointInv, NEW i \in Inputs, NEW s \in Streams, Pump(i, s)
    PROVE  JointInv' /\ Runs
<1>1. /\ made \in [Inputs -> [Streams -> Nat]] /\ made[i][s] \in Nat
      /\ pump \in [Inputs -> [Streams -> {"none", "new", "next", "ended"}]]
      /\ history \in [Streams -> Turns \cup {None}]
  <2>1. /\ made \in [Inputs -> [Streams -> Nat]]
        /\ pump \in [Inputs -> [Streams -> {"none", "new", "next", "ended"}]]
        /\ history \in [Streams -> Turns \cup {None}]
    BY DEF JointInv, JointTypes
  <2>. QED  BY <2>1
<1>2. /\ made = [made EXCEPT ![i][s] = made[i][s]] /\ made[i][s] <= made[i][s]
      /\ pump = [pump EXCEPT ![i][s] = pump[i][s]]
  BY <1>1
<1>3. CASE PumpStart(i, s)
  <2>1. history' = history /\ made' = [made EXCEPT ![i][s] = made[i][s]]
    BY <1>2, <1>3 DEF PumpStart
  <2>. QED  BY <1>1, <1>2, <1>3, <2>1, PumpGoesOn DEF PumpStart
<1>4. CASE PumpNotStarted(i, s)
  <2>1. history' = history /\ made' = [made EXCEPT ![i][s] = made[i][s]]
    BY <1>2, <1>4 DEF PumpNotStarted
  <2>. QED  BY <1>1, <1>2, <1>4, <2>1, PumpGoesOn DEF PumpNotStarted
<1>5. CASE PumpYield(i, s)
  <2>1. history' = history /\ pump[i][s] = "next"
    BY <1>5 DEF PumpYield
  <2>2. CASE i \in stopped
    <3>1. made' = [made EXCEPT ![i][s] = made[i][s]] /\ pump' = [pump EXCEPT ![i][s] = "ended"]
      BY <1>2, <1>5, <2>2 DEF PumpYield
    <3>2. UNCHANGED <<upstreamVars, inbox, planeVars, at, loopVars, mode, held,
                      roundVars, stopped, out>>
      BY <1>5 DEF PumpYield
    <3>. QED  BY <1>1, <1>2, <2>1, <3>1, <3>2, PumpGoesOn
  <2>3. CASE i \notin stopped
    <3>1. pump' = [pump EXCEPT ![i][s] = "next"]
      BY <1>2, <1>5, <2>1, <2>3 DEF PumpYield
    <3>2. PICK n \in Nat : n = made[i][s] + 1 /\ made[i][s] <= n
      BY <1>1
    <3>3. made' = [made EXCEPT ![i][s] = n]
      BY <1>1, <1>5, <2>3, <3>2 DEF PumpYield
    <3>4. UNCHANGED <<upstreamVars, inbox, planeVars, at, loopVars, mode, held,
                      roundVars, stopped, out>>
      BY <1>5 DEF PumpYield
    <3>. QED  BY <1>1, <2>1, <3>1, <3>2, <3>3, <3>4, PumpGoesOn
  <2>. QED  BY <2>2, <2>3
<1>6. ASSUME NEW clean \in BOOLEAN, PumpEnd(i, s, clean)
      PROVE  JointInv' /\ Runs
  <2>1. made' = [made EXCEPT ![i][s] = made[i][s]] /\ pump' = [pump EXCEPT ![i][s] = "ended"]
        /\ pump[i][s] = "next"
    BY <1>2, <1>6 DEF PumpEnd
  <2>2. texts[i].turn \in Turns
    <3>1. i \in DOMAIN texts
      BY <2>1 DEF JointInv, SentPart
    <3>. QED  BY <3>1, TextType DEF JointInv
  <2>3. history' \in [Streams -> Turns \cup {None}]
    BY <1>1, <1>6, <2>2 DEF PumpEnd
  <2>. QED  BY <1>1, <1>2, <1>6, <2>1, <2>3, PumpGoesOn DEF PumpEnd
<1>. QED  BY <1>3, <1>4, <1>5, <1>6 DEF Pump

-------------------------------------------------------------------------------
(* The node's loop.                                                          *)

\* The sentence in process() is older than those in the input queue.
LEMMA HeldIsOlder ==
    ASSUME JointInv, held # None, NEW k \in DOMAIN inbox, inbox[k].kind = "text"
    PROVE  held < inbox[k].input
<1>1. Enclosed(held) /\ InboxPart /\ out \in Seq(Output)
  BY DEF JointInv, HeldPart, JointTypes
<1>2. Len(out) \in DOMAIN out /\ out[Len(out)].input = held
  BY <1>1, EmptySeq, LenProperties DEF Enclosed
<1>. QED  BY <1>1, <1>2 DEF InboxPart

\* The input queue as it is, or without its head.
LEMMA InboxMoves ==
    ASSUME JointInv, inbox' = inbox \/ (inbox # <<>> /\ inbox' = Tail(inbox))
    PROVE  /\ inbox' \in Seq(Message)
           /\ \E d \in {0, 1} : \A k \in DOMAIN inbox' :
                k \in Nat /\ k + d \in DOMAIN inbox /\ inbox'[k] = inbox[k + d]
<1>1. inbox \in Seq(Message) /\ Len(inbox) \in Nat /\ DOMAIN inbox = 1..Len(inbox)
  BY LenProperties DEF JointInv, JointTypes
<1>2. CASE inbox' = inbox
  <2>1. \A k \in DOMAIN inbox' : k \in Nat /\ k + 0 \in DOMAIN inbox /\ inbox'[k] = inbox[k + 0]
    BY <1>1, <1>2
  <2>. QED  BY <1>1, <1>2, <2>1
<1>3. CASE inbox # <<>> /\ inbox' = Tail(inbox)
  <2>1. /\ inbox' \in Seq(Message)
        /\ \A k \in DOMAIN inbox' : k \in Nat /\ k + 1 \in DOMAIN inbox /\ inbox'[k] = inbox[k + 1]
    BY <1>1, <1>3, Removed
  <2>. QED  BY <2>1
<1>. QED  BY <1>2, <1>3

\* The node goes round its loop, or on with process().
LEMMA LoopGoesOn ==
    ASSUME JointInv, Quiet, UNCHANGED <<texts, stopped, pumpVars>>,
           inbox' = inbox \/ (inbox # <<>> /\ inbox' = Tail(inbox)),
           held # None => ~(StampOf(held) < cancel_timestamp'), JointTypes'
    PROVE  JointInv'
<1>1. /\ texts' = texts /\ out' = out /\ held' = held /\ stopped' = stopped
      /\ pump' = pump /\ made' = made
  BY DEF Quiet, pumpVars
<1>2. JointTypes /\ SentPart /\ InboxPart
  BY DEF JointInv
<1>3. Runs /\ Grows /\ Len(texts') <= MaxInputs /\ made' \in [Inputs -> [Streams -> Nat]]
  <2>1. made \in [Inputs -> [Streams -> Nat]]
    BY <1>2 DEF JointTypes
  <2>. QED  BY <1>1, <1>2, <2>1 DEF Runs, Grows, SentPart
<1>4. HeldPart' /\ RoundPart' /\ EndPart'
  BY <1>3, RoundIsKept
<1>5. SentPart'
  BY <1>1, <1>3, SentIsKept
<1>6. InboxPart'
  <2>1. PICK d \in {0, 1} : \A k \in DOMAIN inbox' :
          k \in Nat /\ k + d \in DOMAIN inbox /\ inbox'[k] = inbox[k + d]
    BY InboxMoves
  <2>2. \A k \in DOMAIN inbox' : inbox'[k].kind = "text" =>
          \A s \in Streams : pump'[inbox'[k].input][s] = "none" /\ made'[inbox'[k].input][s] = 0
    <3>1. \A j \in DOMAIN inbox : inbox[j].kind = "text" =>
            \A s \in Streams : pump[inbox[j].input][s] = "none" /\ made[inbox[j].input][s] = 0
      BY <1>2 DEF InboxPart
    <3>2. SUFFICES ASSUME NEW k \in DOMAIN inbox', inbox'[k].kind = "text"
                   PROVE  \A s \in Streams : /\ pump[inbox'[k].input][s] = "none"
                                             /\ made[inbox'[k].input][s] = 0
      BY <1>1
    <3>3. k + d \in DOMAIN inbox /\ inbox'[k] = inbox[k + d]
      BY <2>1
    <3>. QED  BY <3>1, <3>2, <3>3
  <2>. QED  BY <1>1, <1>3, <2>1, <2>2, InboxIsKept
<1>7. NoPumpIsForgotten'
  BY <1>1 DEF JointInv, NoPumpIsForgotten, Running
<1>. QED  BY <1>4, <1>5, <1>6, <1>7 DEF JointInv

\* What the node puts out belongs to the sentence in process().
OfHeld == \A j \in DOMAIN out' : \/ out'[j].input = held
                                 \/ j \in DOMAIN out /\ out'[j] = out[j]

LEMMA OutputGrows ==
    ASSUME JointInv, held # None, UNCHANGED <<texts, inbox, pumpVars>>, OfHeld
    PROVE  InboxPart' /\ SentPart' /\ Grows /\ Runs
<1>1. texts' = texts /\ inbox' = inbox /\ pump' = pump /\ made' = made
  BY DEF pumpVars
<1>2. JointTypes /\ SentPart /\ InboxPart /\ held \in DOMAIN texts
  BY DEF JointInv, HeldPart
<1>3. Runs /\ Grows
  <2>1. made \in [Inputs -> [Streams -> Nat]]
    BY <1>2 DEF JointTypes
  <2>. QED  BY <1>1, <2>1 DEF Runs, Grows
<1>4. SentPart'
  BY <1>1, <1>2 DEF SentPart, OfHeld
<1>5. InboxPart'
  <2>1. \A k \in DOMAIN inbox : k \in Nat /\ k + 0 \in DOMAIN inbox /\ inbox[k] = inbox[k + 0]
    <3>1. inbox \in Seq(Message)
      BY <1>2 DEF JointTypes
    <3>2. DOMAIN inbox = 1..Len(inbox) /\ Len(inbox) \in Nat
      BY <3>1, LenProperties
    <3>. QED  BY <3>2
  <2>2. \A k \in DOMAIN inbox : inbox[k].kind = "text" =>
          /\ \A s \in Streams : pump[inbox[k].input][s] = "none" /\ made[inbox[k].input][s] = 0
          /\ held < inbox[k].input
    BY <1>2, HeldIsOlder DEF InboxPart
  <2>. QED  BY <1>1, <1>3, <2>1, <2>2, InboxIsKept DEF OfHeld
<1>. QED  BY <1>3, <1>4, <1>5

\* One entry of the sentence in process().
LEMMA OneOut ==
    ASSUME JointTypes, NEW m \in Output, m.input = held, out' = Append(out, m)
    PROVE  OfHeld /\ out' \in Seq(Output) /\ out' # <<>> /\ out'[Len(out')] = m
<1>1. out \in Seq(Output)
  BY DEF JointTypes
<1>2. /\ out' \in Seq(Output) /\ Len(out') = Len(out) + 1 /\ out' # <<>> /\ Len(out) \in Nat
      /\ DOMAIN out = 1..Len(out) /\ DOMAIN out' = 1..(Len(out) + 1)
      /\ out'[Len(out) + 1] = m /\ \A k \in DOMAIN out : out'[k] = out[k]
  BY <1>1, Appended
<1>3. \A j \in DOMAIN out' : j \in DOMAIN out \/ j = Len(out) + 1
  BY <1>2
<1>. QED  BY <1>2, <1>3 DEF OfHeld

\* process() is left: its pumps have been told to stop.
LEMMA ProcessIsLeft ==
    ASSUME JointInv, Leave, held # None,
           UNCHANGED <<texts, inbox, mode, pumpVars>>, JointTypes', OfHeld
    PROVE  JointInv'
<1>1. pump' = pump /\ at' = "top" /\ held' = None /\ stopped' = stopped \cup {held}
      /\ taken' = Each(0) /\ took' = {} /\ done' = {}
  BY DEF Leave, pumpVars
<1>2. HeldPart' /\ RoundPart' /\ EndPart'
  BY <1>1 DEF HeldPart, RoundPart, EndPart
<1>3. SentPart' /\ InboxPart'
  BY OutputGrows
<1>4. NoPumpIsForgotten'
  BY <1>1 DEF JointInv, NoPumpIsForgotten, Running
<1>. QED  BY <1>2, <1>3, <1>4 DEF JointInv

\* The types after process() is left.
LEMMA LeaveTypes ==
    ASSUME JointTypes, Leave, held # None
    PROVE  /\ at' \in {"top", "take", "close", "exited"} /\ waiting' \in BOOLEAN
           /\ held' \in Inputs \cup {None} /\ next' \in Streams
           /\ taken' \in [Streams -> Nat] /\ took' \subseteq Streams /\ done' \subseteq Streams
           /\ stopped' \subseteq Inputs
<1>1. 1 \in Streams
  BY JointAssumption DEF Streams
<1>2. held \in Inputs /\ stopped \subseteq Inputs
  BY DEF JointTypes
<1>. QED  BY <1>1, <1>2 DEF Leave, Each

LEMMA WatermarkRises ==
    ASSUME JointTypes, cancel_queue # <<>>, Head(cancel_queue) # Kill
    PROVE  LET w == Max({cancel_timestamp, Head(cancel_queue)}) IN
           /\ w \in Nat /\ w >= cancel_timestamp /\ w \in {cancel_timestamp, Head(cancel_queue)}
           /\ Head(cancel_queue) \in Nat
<1>1. cancel_queue \in Seq(Cancels \cup {TeardownStamp, Kill}) /\ cancel_timestamp \in Nat
  BY DEF JointTypes
<1>2. Head(cancel_queue) \in Nat
  <2>1. Head(cancel_queue) \in Cancels \cup {TeardownStamp, Kill}
    BY <1>1, HeadTailProperties
  <2>. QED  BY <2>1, JointAssumption
<1>. QED  BY <1>1, <1>2, LaterOf

LEMMA ReadCancelStep ==
    ASSUME JointInv, ReadCancel
    PROVE  JointInv'
<1>1. JointTypes /\ HeldPart
  BY DEF JointInv
<1>2. /\ turn' = turn /\ texts' = texts /\ inbox' = inbox /\ controls' = controls
      /\ exiting' = exiting /\ mode' = mode /\ pump' = pump /\ made' = made /\ out' = out
  BY DEF ReadCancel, upstreamVars, pumpVars
<1>3. PICK w \in Nat : w = cancel_timestamp' /\ w >= cancel_timestamp /\ w \in {cancel_timestamp, Head(cancel_queue)}
  BY <1>1, WatermarkRises DEF ReadCancel
<1>4. cancel_queue' \in Seq(Cancels \cup {TeardownStamp, Kill})
  <2>1. cancel_queue \in Seq(Cancels \cup {TeardownStamp, Kill})
    BY <1>1 DEF JointTypes
  <2>. QED  BY <2>1, HeadTailProperties DEF ReadCancel
<1>5. CASE Voids(Head(cancel_queue))
  <2>1. held # None /\ Leave /\ history' = Each(None)
    BY <1>5 DEF ReadCancel, Voids
  <2>2. history' \in [Streams -> Turns \cup {None}]
    BY <2>1 DEF Each
  <2>3. JointTypes'
    <3>1. /\ at' \in {"top", "take", "close", "exited"} /\ waiting' \in BOOLEAN
          /\ held' \in Inputs \cup {None} /\ next' \in Streams
          /\ taken' \in [Streams -> Nat] /\ took' \subseteq Streams /\ done' \subseteq Streams
          /\ stopped' \subseteq Inputs
      BY <1>1, <2>1, LeaveTypes
    <3>. QED  BY <1>1, <1>2, <1>3, <1>4, <2>2, <3>1 DEF JointTypes
  <2>. QED  BY <1>2, <2>1, <2>3, ProcessIsLeft DEF pumpVars, OfHeld
<1>6. CASE ~Voids(Head(cancel_queue))
  <2>1. /\ at' = at /\ held' = held /\ stopped' = stopped /\ next' = next /\ taken' = taken
        /\ took' = took /\ done' = done /\ history' = history /\ waiting' \in BOOLEAN
    BY <1>6 DEF ReadCancel, roundVars
  <2>2. JointTypes'
    BY <1>1, <1>2, <1>3, <1>4, <2>1 DEF JointTypes
  <2>3. held # None => ~(StampOf(held) < cancel_timestamp')
    BY <1>1, <1>3, <1>6 DEF HeldPart, Voids
  <2>4. Quiet
    BY <1>2, <2>1 DEF Quiet, roundVars
  <2>. QED  BY <1>2, <2>1, <2>2, <2>3, <2>4, LoopGoesOn DEF pumpVars
<1>. QED  BY <1>5, <1>6

LEMMA ReadKillStep ==
    ASSUME JointInv, ReadKill
    PROVE  JointInv'
<1>1. JointTypes /\ HeldPart
  BY DEF JointInv
<1>2. /\ turn' = turn /\ texts' = texts /\ inbox' = inbox /\ controls' = controls
      /\ cancel_timestamp' = cancel_timestamp /\ exiting' = TRUE /\ mode' = mode /\ pump' = pump
      /\ made' = made /\ history' = history /\ out' = out
  BY DEF ReadKill, upstreamVars, pumpVars
<1>3. cancel_queue' \in Seq(Cancels \cup {TeardownStamp, Kill})
  <2>1. cancel_queue \in Seq(Cancels \cup {TeardownStamp, Kill})
    BY <1>1 DEF JointTypes
  <2>. QED  BY <2>1, HeadTailProperties DEF ReadKill
<1>4. CASE held # None
  <2>1. Leave
    BY <1>4 DEF ReadKill
  <2>2. JointTypes'
    <3>1. /\ at' \in {"top", "take", "close", "exited"} /\ waiting' \in BOOLEAN
          /\ held' \in Inputs \cup {None} /\ next' \in Streams
          /\ taken' \in [Streams -> Nat] /\ took' \subseteq Streams /\ done' \subseteq Streams
          /\ stopped' \subseteq Inputs
      BY <1>1, <1>4, <2>1, LeaveTypes
    <3>. QED  BY <1>1, <1>2, <1>3, <3>1 DEF JointTypes
  <2>. QED  BY <1>2, <1>4, <2>1, <2>2, ProcessIsLeft DEF pumpVars, OfHeld
<1>5. CASE held = None
  <2>1. /\ at' = at /\ held' = held /\ stopped' = stopped /\ next' = next /\ taken' = taken
        /\ took' = took /\ done' = done /\ waiting' = FALSE
    BY <1>5 DEF ReadKill, roundVars
  <2>2. JointTypes'
    BY <1>1, <1>2, <1>3, <2>1 DEF JointTypes
  <2>3. Quiet
    BY <1>2, <2>1 DEF Quiet, roundVars
  <2>. QED  BY <1>2, <1>5, <2>1, <2>2, <2>3, LoopGoesOn DEF pumpVars
<1>. QED  BY <1>4, <1>5

LEMMA WaitStep ==
    ASSUME JointInv, Wait
    PROVE  JointInv'
<1>1. JointTypes /\ HeldPart
  BY DEF JointInv
<1>2. held = None /\ at' \in {"top", "exited"} /\ waiting' \in BOOLEAN
  BY <1>1 DEF Wait, HeldPart, JointTypes
<1>3. Quiet /\ texts' = texts /\ stopped' = stopped /\ UNCHANGED pumpVars /\ inbox' = inbox
  BY <1>2 DEF Wait, Quiet, upstreamVars
<1>4. JointTypes'
  BY <1>1, <1>2 DEF Wait, JointTypes, upstreamVars, planeVars, roundVars, pumpVars
<1>. QED  BY <1>2, <1>3, <1>4, LoopGoesOn

\* A message that is dropped, and the SoS of a turn.
LEMMA MessageStep ==
    ASSUME JointInv, Discard \/ CatchSoS
    PROVE  JointInv'
<1>1. JointTypes /\ HeldPart
  BY DEF JointInv
<1>2. /\ at = "top" /\ inbox # <<>> /\ inbox' = Tail(inbox) /\ waiting' = FALSE
      /\ turn' = turn /\ texts' = texts /\ UNCHANGED planeVars /\ at' = at
      /\ cancel_timestamp' = cancel_timestamp /\ exiting' = exiting /\ mode' = mode /\ held' = held
      /\ UNCHANGED roundVars /\ stopped' = stopped /\ UNCHANGED pumpVars /\ out' = out
      /\ history' = history \/ history' = Each(None)
  BY DEF Discard, CatchSoS, Gets, upstreamVars
<1>3. inbox' \in Seq(Message)
  BY <1>2, InboxMoves
<1>4. history' \in [Streams -> Turns \cup {None}]
  BY <1>1, <1>2 DEF Each, JointTypes
<1>5. JointTypes'
  BY <1>1, <1>2, <1>3, <1>4 DEF JointTypes, planeVars, roundVars, pumpVars
<1>6. held = None /\ Quiet
  BY <1>1, <1>2 DEF HeldPart, Quiet
<1>. QED  BY <1>2, <1>5, <1>6, LoopGoesOn

-------------------------------------------------------------------------------
(* process() on a sentence.                                                  *)

\* What the head of the input queue tells of a sentence.
LEMMA FirstText ==
    ASSUME JointInv, Gets, Got.kind = "text"
    PROVE  /\ Got.input \in DOMAIN texts /\ Got.input \in Inputs
           /\ Got.turn = texts[Got.input].turn
           /\ \A s \in Streams : pump[Got.input][s] = "none" /\ made[Got.input][s] = 0
           /\ \A j \in DOMAIN out : out[j].input < Got.input
           /\ \A k \in DOMAIN Tail(inbox) :
                Tail(inbox)[k].kind = "text" => Got.input < Tail(inbox)[k].input
<1>1. inbox \in Seq(Message) /\ JointTypes /\ InboxPart /\ inbox # <<>>
  BY DEF JointInv, JointTypes, Gets
<1>2. /\ Got = inbox[1] /\ 1 \in DOMAIN inbox
      /\ \A k \in DOMAIN Tail(inbox) :
           k \in Nat /\ k >= 1 /\ k + 1 \in DOMAIN inbox /\ Tail(inbox)[k] = inbox[k + 1]
  BY <1>1, Removed DEF Got
<1>3. Got.input \in Inputs
  BY <1>1, <1>2, InboxEntry
<1>4. \A k \in DOMAIN inbox : 1 < k /\ inbox[k].kind = "text" => Got.input < inbox[k].input
  BY <1>1, <1>2 DEF InboxPart
<1>5. \A k \in DOMAIN Tail(inbox) : 1 < k + 1
  BY <1>2
<1>. QED  BY <1>1, <1>2, <1>3, <1>4, <1>5 DEF InboxPart

LEMMA BeginStep ==
    ASSUME JointInv, Begin
    PROVE  JointInv'
<1>1. JointTypes /\ HeldPart /\ SentPart /\ NoPumpIsForgotten
  BY DEF JointInv
<1>2. PICK n : n = Got.input
  OBVIOUS
<1>3. PICK active : active = texts[n].active
  OBVIOUS
<1>4. /\ at = "top" /\ inbox # <<>> /\ inbox' = Tail(inbox) /\ ~(2 * Got.turn < cancel_timestamp)
      /\ turn' = turn /\ texts' = texts /\ UNCHANGED planeVars /\ waiting' = waiting
      /\ cancel_timestamp' = cancel_timestamp /\ exiting' = exiting /\ mode' = mode /\ held' = n
      /\ taken' = taken /\ took' = took /\ done' = done /\ stopped' = stopped
      /\ made' = made /\ history' = history
      /\ pump' = [pump EXCEPT ![n] = [s \in Streams |-> IF s \in active THEN "new" ELSE "none"]]
      /\ out' = Append(out, [kind |-> "SoS", input |-> n, pack |-> Each(0)])
  BY <1>2, <1>3 DEF Begin, Gets, Late, upstreamVars, loopVars, Put
<1>5. IF active = {} THEN at' = "close" /\ next' = next ELSE at' = "take" /\ next' = Min(active)
  BY <1>2, <1>3 DEF Begin
<1>6. /\ n \in DOMAIN texts /\ n \in Inputs /\ Got.turn = texts[n].turn
      /\ \A s \in Streams : pump[n][s] = "none" /\ made[n][s] = 0
      /\ \A j \in DOMAIN out : out[j].input < n
      /\ \A k \in DOMAIN inbox' : inbox'[k].kind = "text" => n < inbox'[k].input
  BY <1>2, <1>4, FirstText DEF Begin
<1>7. active \subseteq Streams
  BY <1>1, <1>3, <1>6, TextType
<1>8. held = None /\ taken = Each(0) /\ took = {} /\ done = {} /\ n # None /\ n \in Nat
  BY <1>1, <1>4, <1>6, JointAssumption DEF HeldPart, Inputs
<1>9. active # {} => Min(active) \in active /\ \A s \in active : Min(active) <= s
  BY <1>7, FirstStream
<1>10. PICK m \in Output : m.kind = "SoS" /\ m.input = n /\ out' = Append(out, m)
  BY <1>4, <1>6 DEF Output, Each
<1>11. /\ out' \in Seq(Output) /\ out' # <<>> /\ out'[Len(out')] = m
       /\ \A j \in DOMAIN out' : \/ out'[j].input = n
                                 \/ j \in DOMAIN out /\ out'[j] = out[j]
  <2>1. out \in Seq(Output)
    BY <1>1 DEF JointTypes
  <2>2. /\ out' \in Seq(Output) /\ Len(out') = Len(out) + 1 /\ out' # <<>> /\ Len(out) \in Nat
        /\ DOMAIN out = 1..Len(out) /\ DOMAIN out' = 1..(Len(out) + 1)
        /\ out'[Len(out) + 1] = m /\ \A k \in DOMAIN out : out'[k] = out[k]
    BY <1>10, <2>1, Appended
  <2>3. \A j \in DOMAIN out' : j \in DOMAIN out \/ j = Len(out) + 1
    BY <2>2
  <2>. QED  BY <1>10, <2>2, <2>3
<1>12. /\ pump \in [Inputs -> [Streams -> {"none", "new", "next", "ended"}]]
       /\ pump' \in [Inputs -> [Streams -> {"none", "new", "next", "ended"}]]
       /\ \A i \in Inputs : i # n => pump'[i] = pump[i]
  <2>1. pump \in [Inputs -> [Streams -> {"none", "new", "next", "ended"}]]
    BY <1>1 DEF JointTypes
  <2>. QED  BY <1>4, <1>6, <2>1
<1>13. JointTypes'
  <2>1. inbox' \in Seq(Message)
    BY <1>4, InboxMoves
  <2>2. next' \in Streams /\ at' \in {"top", "take", "close", "exited"}
    BY <1>1, <1>5, <1>7, <1>9 DEF JointTypes
  <2>. QED  BY <1>1, <1>4, <1>6, <1>11, <1>12, <2>1, <2>2 DEF JointTypes, planeVars
<1>14. NoPumpIsForgotten'
  <2>1. ASSUME NEW i \in Inputs, NEW s \in Streams, Running(i, s)', i # n
        PROVE  i \in stopped'
    <3>1. Running(i, s)
      BY <1>12, <2>1 DEF Running
    <3>2. i # held
      BY <1>8, JointAssumption DEF Inputs
    <3>. QED  BY <1>1, <1>4, <3>1, <3>2 DEF NoPumpIsForgotten
  <2>. QED  BY <1>4, <2>1 DEF NoPumpIsForgotten
<1>15. InboxPart'
  <2>1. PICK d \in {0, 1} : \A k \in DOMAIN inbox' :
          k \in Nat /\ k + d \in DOMAIN inbox /\ inbox'[k] = inbox[k + d]
    BY <1>4, InboxMoves
  <2>2. ASSUME NEW k \in DOMAIN inbox', inbox'[k].kind = "text"
        PROVE  \A s \in Streams : /\ pump'[inbox'[k].input][s] = "none"
                                  /\ made'[inbox'[k].input][s] = 0
    <3>1. k + d \in DOMAIN inbox /\ inbox'[k] = inbox[k + d]
      BY <2>1
    <3>2. /\ inbox'[k].input \in Inputs
          /\ \A s \in Streams : /\ pump[inbox'[k].input][s] = "none"
                                /\ made[inbox'[k].input][s] = 0
      BY <1>1, <2>2, <3>1, InboxEntry DEF InboxPart, JointInv
    <3>3. inbox'[k].input # n
      BY <1>6, <1>8, <2>2
    <3>. QED  BY <1>4, <1>12, <3>2, <3>3
  <2>3. Grows
    BY <1>4 DEF Grows
  <2>. QED  BY <1>6, <1>11, <2>1, <2>2, <2>3, InboxIsKept
<1>16. SentPart'
  <2>1. \A i \in Inputs : i \notin DOMAIN texts => i # n
    BY <1>6
  <2>. QED  BY <1>1, <1>4, <1>6, <1>11, <1>12, <2>1 DEF SentPart
<1>17. HeldPart'
  <2>1. at' \in {"take", "close"}
    BY <1>5
  <2>2. Enclosed(held)'
    BY <1>4, <1>10, <1>11 DEF Enclosed
  <2>3. ~(StampOf(held)' < cancel_timestamp')
    BY <1>4, <1>6 DEF StampOf
  <2>. QED  BY <1>4, <1>6, <1>8, <2>1, <2>2, <2>3 DEF HeldPart
<1>18. Started' = active
  BY <1>3, <1>4 DEF Started
<1>19. Packed(held)' = 0
  <2>1. \A k \in DOMAIN out : out[k].input # n
    <3>1. \A k \in DOMAIN out : out[k].input \in Nat
      <4>1. out \in Seq(Output)
        BY <1>1 DEF JointTypes
      <4>2. \A k \in DOMAIN out : out[k] \in Output
        BY <4>1, LenProperties, ElementOfSeq
      <4>. QED  BY <4>2 DEF Output, Inputs
    <3>. QED  BY <1>6, <1>8, <3>1
  <2>2. Packed(n) = 0
    BY <2>1, NoPacks
  <2>. QED  BY <1>1, <1>4, <1>10, <2>2, PackedNext DEF Packed
<1>20. RoundPart'
  <2>1. SUFFICES ASSUME active # {}, next' = Min(active) PROVE RoundPart'
    BY <1>5 DEF RoundPart
  <2>2. \A s \in active : taken'[s] = 0
    BY <1>4, <1>7, <1>8 DEF Each
  <2>. QED  BY <1>4, <1>8, <1>9, <1>18, <1>19, <2>1, <2>2 DEF RoundPart
<1>21. EndPart'
  BY <1>5, <1>18 DEF EndPart
<1>. QED  BY <1>13, <1>14, <1>15, <1>16, <1>17, <1>20, <1>21 DEF JointInv

\* The round after the queue of stream next has been read: who has given a chunk
\* of this pack, and who has ended.
RoundRead(chunk, ready, over) ==
    /\ at = "take" /\ chunk \in [Streams -> Nat]
    /\ ready \subseteq Started /\ over \subseteq Started /\ ready \cap over = {}
    /\ next \in ready \cup over
    /\ \A s \in ready : s <= next /\ chunk[s] = Packed(held) + 1 /\ chunk[s] <= made[held][s]
    /\ \A s \in over : /\ pump[held][s] = "ended"
                       /\ chunk[s] = made[held][s] /\ chunk[s] <= Packed(held)
    /\ \A s \in Started \ (ready \cup over) : next < s /\ chunk[s] = Packed(held)

\* The sentence whose chunks are taken.
LEMMA Taking ==
    ASSUME JointInv, at \in {"take", "close"}
    PROVE  /\ held # None /\ held \in Inputs /\ held \in DOMAIN texts /\ ~(StampOf(held) < cancel_timestamp)
           /\ Enclosed(held) /\ Started \subseteq Streams /\ Packed(held) \in Nat
           /\ \A s \in Streams : made[held][s] \in Nat
<1>1. JointTypes /\ HeldPart
  BY DEF JointInv
<1>2. held # None /\ held \in DOMAIN texts /\ ~(StampOf(held) < cancel_timestamp) /\ Enclosed(held)
  BY <1>1 DEF HeldPart
<1>3. held \in Inputs
  BY <1>1, <1>2 DEF JointTypes
<1>4. made \in [Inputs -> [Streams -> Nat]]
  BY <1>1 DEF JointTypes
<1>5. \A s \in Streams : made[held][s] \in Nat
  BY <1>3, <1>4
<1>6. Started \subseteq Streams
  BY <1>1, <1>2, TextType DEF Started
<1>7. Packed(held) \in Nat
  BY <1>1, PackedType
<1>. QED  BY <1>2, <1>3, <1>5, <1>6, <1>7

LEMMA ChunkIsRead ==
    ASSUME JointInv, at = "take", taken[next] < made[held][next]
    PROVE  RoundRead([taken EXCEPT ![next] = @ + 1], took \cup {next}, done)
<1>1. taken \in [Streams -> Nat] /\ next \in Streams /\ Streams \subseteq Nat
  <2>1. JointTypes
    BY DEF JointInv
  <2>2. taken \in [Streams -> Nat] /\ next \in Streams
    BY <2>1 DEF JointTypes
  <2>3. Streams \subseteq Nat
    BY DEF Streams
  <2>. QED  BY <2>2, <2>3
<1>2. PICK chunk : chunk = [taken EXCEPT ![next] = @ + 1]
  OBVIOUS
<1>3. /\ chunk \in [Streams -> Nat] /\ chunk[next] = taken[next] + 1
      /\ \A s \in Streams : s # next => chunk[s] = taken[s]
  BY <1>1, <1>2
<1>4. /\ Started \subseteq Streams /\ Packed(held) \in Nat
      /\ \A s \in Streams : made[held][s] \in Nat
  BY Taking
<1>5. /\ next \in Started \ (took \cup done)
      /\ took \cup done \subseteq Started /\ took \cap done = {}
      /\ \A s \in took : /\ s < next
                         /\ taken[s] = Packed(held) + 1 /\ taken[s] <= made[held][s]
      /\ \A s \in done : /\ pump[held][s] = "ended"
                         /\ taken[s] = made[held][s] /\ taken[s] <= Packed(held)
      /\ \A s \in Started \ (took \cup done) : next <= s /\ taken[s] = Packed(held)
  BY DEF JointInv, RoundPart
<1>6. \A s \in took \cup {next} :
        s <= next /\ chunk[s] = Packed(held) + 1 /\ chunk[s] <= made[held][s]
  <2>1. ASSUME NEW s \in took
        PROVE  s <= next /\ chunk[s] = Packed(held) + 1 /\ chunk[s] <= made[held][s]
    <3>1. s \in Nat /\ next \in Nat /\ s \in Streams /\ s < next
      BY <1>1, <1>4, <1>5
    <3>. QED  BY <1>3, <1>5, <3>1
  <2>2. next <= next /\ chunk[next] = Packed(held) + 1 /\ chunk[next] <= made[held][next]
    <3>1. next \in Nat /\ taken[next] = Packed(held) /\ made[held][next] \in Nat
      BY <1>1, <1>4, <1>5
    <3>. QED  BY <1>3, <1>4, <3>1
  <2>. QED  BY <2>1, <2>2
<1>7. \A s \in Started \ ((took \cup {next}) \cup done) : next < s /\ chunk[s] = Packed(held)
  <2>1. SUFFICES ASSUME NEW s \in Started \ (took \cup done), s # next
                 PROVE  next < s /\ chunk[s] = Packed(held)
    OBVIOUS
  <2>2. s \in Nat /\ next \in Nat /\ next <= s
    BY <1>1, <1>4, <1>5
  <2>. QED  BY <1>3, <1>4, <1>5, <2>1, <2>2
<1>8. \A s \in done : /\ pump[held][s] = "ended"
                      /\ chunk[s] = made[held][s] /\ chunk[s] <= Packed(held)
  <2>1. \A s \in done : s \in Streams /\ s # next
    BY <1>4, <1>5
  <2>. QED  BY <1>3, <1>5, <2>1
<1>. QED  BY <1>2, <1>3, <1>5, <1>6, <1>7, <1>8 DEF RoundRead

LEMMA EndIsRead ==
    ASSUME JointInv, at = "take", AtDone
    PROVE  RoundRead(taken, took, done \cup {next})
<1>1. taken \in [Streams -> Nat] /\ next \in Streams /\ Streams \subseteq Nat
  <2>1. JointTypes
    BY DEF JointInv
  <2>2. taken \in [Streams -> Nat] /\ next \in Streams
    BY <2>1 DEF JointTypes
  <2>3. Streams \subseteq Nat
    BY DEF Streams
  <2>. QED  BY <2>2, <2>3
<1>2. /\ Started \subseteq Streams /\ Packed(held) \in Nat
      /\ \A s \in Streams : made[held][s] \in Nat
  BY Taking
<1>3. /\ next \in Started \ (took \cup done)
      /\ took \cup done \subseteq Started /\ took \cap done = {}
      /\ \A s \in took : /\ s < next
                         /\ taken[s] = Packed(held) + 1 /\ taken[s] <= made[held][s]
      /\ \A s \in done : /\ pump[held][s] = "ended"
                         /\ taken[s] = made[held][s] /\ taken[s] <= Packed(held)
      /\ \A s \in Started \ (took \cup done) : next <= s /\ taken[s] = Packed(held)
  BY DEF JointInv, RoundPart
<1>4. \A s \in took : s <= next
  <2>1. \A s \in took : s \in Nat /\ next \in Nat
    BY <1>1, <1>2, <1>3
  <2>. QED  BY <1>3, <2>1
<1>5. \A s \in Started \ (took \cup (done \cup {next})) : next < s
  <2>1. SUFFICES ASSUME NEW s \in Started, s \notin took, s \notin done, s # next
                 PROVE  next < s
    OBVIOUS
  <2>2. s \in Nat /\ next \in Nat /\ next <= s
    BY <1>1, <1>2, <1>3, <2>1
  <2>. QED  BY <2>1, <2>2
<1>6. /\ pump[held][next] = "ended" /\ taken[next] = made[held][next]
      /\ taken[next] <= Packed(held)
  BY <1>1, <1>2, <1>3 DEF AtDone
<1>. QED  BY <1>1, <1>3, <1>4, <1>5, <1>6 DEF RoundRead

\* A pack of a round that has come to its end.
LEMMA PackIsOutput ==
    ASSUME JointInv, NEW chunk, NEW ready, NEW over, RoundRead(chunk, ready, over)
    PROVE  [kind |-> "pack", input |-> held, pack |-> PackOf(ready, chunk, over)] \in Output
<1>1. held \in Inputs /\ chunk \in [Streams -> Nat]
  BY Taking DEF RoundRead
<1>2. PackOf(ready, chunk, over) \in [Streams -> Nat]
  BY <1>1 DEF PackOf
<1>. QED  BY <1>1, <1>2 DEF Output

\* The last of the running streams has been read.
LastRead(ready, over) == {s \in Started \ over : s > next} = {}

LEMMA WholeRound ==
    ASSUME JointInv, NEW chunk, NEW ready, NEW over, RoundRead(chunk, ready, over),
           LastRead(ready, over)
    PROVE  Started = ready \cup over /\ Started \ over = ready
<1>1. ASSUME NEW s \in Started, s \notin ready \cup over
      PROVE  FALSE
  <2>1. next < s /\ s \in Started \ over /\ next \in Nat /\ s \in Nat
    BY <1>1, Taking DEF RoundRead, Streams, JointInv, JointTypes
  <2>2. s > next
    BY <2>1
  <2>. QED  BY <2>1, <2>2 DEF LastRead
<1>. QED  BY <1>1 DEF RoundRead

LEMMA AdvanceStep ==
    ASSUME JointInv, NEW chunk, NEW ready, NEW over,
           RoundRead(chunk, ready, over), Advance(chunk, ready, over),
           UNCHANGED <<roundFrame, stopped>>
    PROVE  JointInv'
<1>1. JointTypes /\ HeldPart
  BY DEF JointInv
<1>2. /\ turn' = turn /\ texts' = texts /\ inbox' = inbox /\ UNCHANGED planeVars
      /\ waiting' = waiting /\ cancel_timestamp' = cancel_timestamp /\ exiting' = exiting /\ mode' = mode
      /\ held' = held /\ pump' = pump /\ made' = made /\ history' = history
      /\ stopped' = stopped /\ UNCHANGED pumpVars
  BY DEF roundFrame, upstreamVars, loopVars, pumpVars
<1>3. taken' = chunk /\ done' = over
  BY DEF Advance
<1>4. /\ held # None /\ held \in Inputs /\ held \in DOMAIN texts /\ ~(StampOf(held) < cancel_timestamp)
      /\ Enclosed(held) /\ Started \subseteq Streams /\ Packed(held) \in Nat
      /\ \A s \in Streams : made[held][s] \in Nat
  BY Taking DEF RoundRead
<1>5. /\ at = "take" /\ chunk \in [Streams -> Nat]
      /\ ready \subseteq Started /\ over \subseteq Started /\ ready \cap over = {}
      /\ \A s \in ready : s <= next /\ chunk[s] = Packed(held) + 1 /\ chunk[s] <= made[held][s]
      /\ \A s \in over : /\ pump[held][s] = "ended"
                         /\ chunk[s] = made[held][s] /\ chunk[s] <= Packed(held)
      /\ \A s \in Started \ (ready \cup over) : next < s /\ chunk[s] = Packed(held)
  BY DEF RoundRead
<1>6. next \in Nat /\ Streams \subseteq Nat /\ next \in Streams
  BY <1>1 DEF JointTypes, Streams
<1>7. Started' = Started
  BY <1>2 DEF Started
<1>8. NoPumpIsForgotten'
  BY <1>2 DEF JointInv, NoPumpIsForgotten, Running
<1>9. CASE LastRead(ready, over)
  <2>1. Started = ready \cup over /\ Started \ over = ready
    BY <1>9, WholeRound
  <2>2. /\ took' = {}
        /\ IF ready # {}
           THEN out' = Append(out, [kind |-> "pack", input |-> held,
                                    pack |-> PackOf(ready, chunk, over)])
           ELSE out' = out
        /\ IF ready # {} THEN next' = Min(ready) /\ at' = at
                         ELSE at' = "close" /\ next' = next
    BY <1>9, <2>1 DEF Advance, LastRead, Produced, Put
  <2>3. /\ OfHeld /\ out' \in Seq(Output) /\ Enclosed(held)'
        /\ Packed(held)' = IF ready # {} THEN Packed(held) + 1 ELSE Packed(held)
    <3>1. CASE ready = {}
      BY <1>1, <1>2, <1>4, <2>2, <3>1 DEF OfHeld, JointTypes, Enclosed, Packed
    <3>2. CASE ready # {}
      <4>1. PICK m \in Output : m.kind = "pack" /\ m.input = held /\ out' = Append(out, m)
        BY <2>2, <3>2, PackIsOutput
      <4>2. OfHeld /\ out' \in Seq(Output) /\ out' # <<>> /\ out'[Len(out')] = m
        BY <1>1, <4>1, OneOut
      <4>3. Cardinality(PacksIn(out', held)) = Packed(held) + 1
        BY <1>1, <4>1, PackedNext
      <4>. QED  BY <1>2, <3>2, <4>1, <4>2, <4>3 DEF Enclosed, Packed
    <3>. QED  BY <3>1, <3>2
  <2>4. ready # {} => Min(ready) \in ready /\ \A s \in ready : Min(ready) <= s
    BY <1>4, <1>5, FirstStream
  <2>5. JointTypes'
    <3>1. next' \in Streams
      <4>1. CASE ready # {}
        BY <1>4, <1>5, <2>2, <2>4, <4>1
      <4>2. CASE ready = {}
        BY <1>6, <2>2, <4>2
      <4>. QED  BY <4>1, <4>2
    <3>2. at' \in {"top", "take", "close", "exited"}
      BY <1>5, <2>2
    <3>3. took' \subseteq Streams /\ done' \subseteq Streams
      BY <1>3, <1>4, <1>5, <2>2
    <3>. QED  BY <1>1, <1>2, <1>3, <1>5, <2>3, <3>1, <3>2, <3>3 DEF JointTypes, planeVars
  <2>6. SentPart' /\ InboxPart'
    BY <1>2, <1>4, <2>3, OutputGrows
  <2>7. HeldPart'
    <3>1. at' \in {"take", "close"}
      BY <1>5, <2>2
    <3>. QED  BY <1>2, <1>4, <2>3, <3>1 DEF HeldPart, StampOf
  <2>8. RoundPart'
    <3>1. SUFFICES ASSUME at' = "take" PROVE RoundPart'
      BY DEF RoundPart
    <3>2. ready # {} /\ next' = Min(ready) /\ Packed(held)' = Packed(held) + 1
      BY <2>2, <2>3, <3>1
    <3>3. next' \in ready /\ \A s \in ready : next' <= s
      BY <2>4, <3>2
    <3>4. \A s \in over : /\ pump[held][s] = "ended" /\ chunk[s] = made[held][s]
                          /\ chunk[s] <= Packed(held) + 1
      BY <1>4, <1>5
    <3>. QED  BY <1>2, <1>3, <1>5, <1>7, <2>1, <2>2, <3>2, <3>3, <3>4 DEF RoundPart
  <2>9. EndPart'
    <3>1. SUFFICES ASSUME at' = "close" PROVE EndPart'
      BY DEF EndPart
    <3>2. ready = {} /\ Packed(held)' = Packed(held)
      BY <1>5, <2>2, <2>3, <3>1
    <3>3. \A s \in over : pump[held][s] = "ended" /\ made[held][s] <= Packed(held)
      BY <1>5
    <3>. QED  BY <1>2, <1>7, <2>1, <3>2, <3>3 DEF EndPart, Spent
  <2>. QED  BY <1>8, <2>5, <2>6, <2>7, <2>8, <2>9 DEF JointInv
<1>10. CASE ~LastRead(ready, over)
  <2>1. PICK rest : rest = {s \in Started \ over : s > next}
    OBVIOUS
  <2>2. rest # {} /\ took' = ready /\ next' = Min(rest) /\ at' = at /\ out' = out
    BY <1>10, <2>1 DEF Advance, LastRead
  <2>3. Min(rest) \in rest /\ \A s \in rest : Min(rest) <= s
    BY <1>4, <2>1, <2>2, FirstStream
  <2>4. JointTypes'
    <3>1. next' \in Streams /\ took' \subseteq Streams /\ done' \subseteq Streams
      BY <1>3, <1>4, <1>5, <2>1, <2>2, <2>3
    <3>. QED  BY <1>1, <1>2, <1>3, <1>5, <2>2, <3>1 DEF JointTypes, planeVars
  <2>5. SentPart' /\ InboxPart'
    BY <1>2, <1>4, <2>2, OutputGrows DEF OfHeld
  <2>6. HeldPart'
    BY <1>1, <1>2, <1>4, <1>5, <2>2 DEF HeldPart, StampOf, Enclosed
  <2>7. Packed(held)' = Packed(held)
    BY <1>2, <2>2 DEF Packed
  <2>8. RoundPart'
    <3>1. next' \in Started \ (ready \cup over) /\ next' \in Nat
      <4>1. Min(rest) \in Started \ over /\ Min(rest) > next
        BY <2>1, <2>3
      <4>2. Min(rest) \in Nat
        BY <1>4, <1>6, <4>1
      <4>3. Min(rest) \notin ready
        BY <1>5, <1>6, <4>1, <4>2
      <4>. QED  BY <2>2, <4>1, <4>2, <4>3
    <3>2. \A s \in ready : s < next'
      <4>1. next' > next
        BY <2>1, <2>2, <2>3
      <4>2. \A s \in ready : s \in Nat /\ s <= next
        BY <1>4, <1>5, <1>6
      <4>. QED  BY <1>6, <3>1, <4>1, <4>2
    <3>3. \A s \in Started \ (ready \cup over) : next' <= s
      <4>1. ASSUME NEW s \in Started \ (ready \cup over) PROVE s \in rest
        <5>1. next < s /\ s \in Nat
          BY <1>4, <1>5, <1>6
        <5>2. s > next
          BY <1>6, <5>1
        <5>. QED  BY <2>1, <5>2
      <4>. QED  BY <2>2, <2>3, <4>1
    <3>. QED  BY <1>2, <1>3, <1>5, <1>7, <2>2, <2>7, <3>1, <3>2, <3>3 DEF RoundPart
  <2>9. EndPart'
    BY <1>5, <2>2 DEF EndPart
  <2>. QED  BY <1>8, <2>4, <2>5, <2>6, <2>8, <2>9 DEF JointInv
<1>. QED  BY <1>9, <1>10

LEMMA TakeStep ==
    ASSUME JointInv, TakeChunk \/ TakeDone
    PROVE  JointInv'
<1>1. CASE TakeChunk
  <2>1. RoundRead([taken EXCEPT ![next] = @ + 1], took \cup {next}, done)
    BY <1>1, ChunkIsRead DEF TakeChunk
  <2>. QED  BY <1>1, <2>1, AdvanceStep DEF TakeChunk
<1>2. CASE TakeDone
  <2>1. RoundRead(taken, took, done \cup {next})
    BY <1>2, EndIsRead DEF TakeDone
  <2>. QED  BY <1>2, <2>1, AdvanceStep DEF TakeDone
<1>. QED  BY <1>1, <1>2

\* The stream that stands at the mode's boundary is spent.
LEMMA BoundaryIsReached ==
    ASSUME JointInv, at = "take", AtDone, next \in Boundary
    PROVE  /\ next \in Started /\ Spent(held, next)
           /\ mode = "shortest" \/ (mode = "anchor" /\ next = Anchor)
<1>1. next \in Started /\ taken[next] = Packed(held)
  BY DEF JointInv, RoundPart
<1>2. Packed(held) \in Nat
  BY Taking
<1>. QED  BY <1>1, <1>2 DEF AtDone, Boundary, Spent

LEMMA TakeLastStep ==
    ASSUME JointInv, TakeLast
    PROVE  JointInv'
<1>1. JointTypes /\ HeldPart
  BY DEF JointInv
<1>2. /\ turn' = turn /\ texts' = texts /\ inbox' = inbox /\ UNCHANGED planeVars
      /\ waiting' = waiting /\ cancel_timestamp' = cancel_timestamp /\ exiting' = exiting /\ mode' = mode
      /\ held' = held /\ pump' = pump /\ made' = made /\ history' = history
      /\ next' = next /\ taken' = taken /\ out' = out /\ at = "take" /\ at' = "close"
      /\ took' = {} /\ done' = done \cup {next} /\ stopped' = stopped \cup {held}
      /\ UNCHANGED pumpVars
  BY DEF TakeLast, roundFrame, upstreamVars, loopVars, pumpVars
<1>3. /\ held # None /\ held \in Inputs /\ held \in DOMAIN texts /\ ~(StampOf(held) < cancel_timestamp)
      /\ Enclosed(held)
  BY <1>2, Taking
<1>4. JointTypes'
  <2>1. stopped' \subseteq Inputs /\ done' \subseteq Streams /\ took' \subseteq Streams
    BY <1>1, <1>2, <1>3 DEF JointTypes
  <2>. QED  BY <1>1, <1>2, <2>1 DEF JointTypes, planeVars
<1>5. NoPumpIsForgotten'
  BY <1>2 DEF JointInv, NoPumpIsForgotten, Running
<1>6. SentPart' /\ InboxPart'
  BY <1>2, <1>3, OutputGrows DEF OfHeld
<1>7. HeldPart' /\ RoundPart'
  BY <1>2, <1>3 DEF HeldPart, RoundPart, StampOf, Enclosed
<1>8. EndPart'
  <2>1. /\ next \in Started /\ Spent(held, next)
        /\ mode = "shortest" \/ (mode = "anchor" /\ next = Anchor)
    BY BoundaryIsReached DEF TakeLast
  <2>2. Started' = Started /\ Spent(held, next)'
    BY <1>2, <2>1 DEF Started, Spent, Packed
  <2>. QED  BY <1>2, <2>1, <2>2 DEF EndPart
<1>. QED  BY <1>4, <1>5, <1>6, <1>7, <1>8 DEF JointInv

LEMMA LastStep ==
    ASSUME JointInv, PackFails \/ Close
    PROVE  JointInv'
<1>1. JointTypes /\ at \in {"take", "close"}
  BY DEF JointInv, PackFails, Close
<1>2. held # None /\ held \in Inputs /\ Leave
  BY <1>1, Taking DEF PackFails, Close
<1>3. /\ turn' = turn /\ texts' = texts /\ inbox' = inbox /\ UNCHANGED planeVars
      /\ cancel_timestamp' = cancel_timestamp /\ exiting' = exiting /\ mode' = mode
      /\ pump' = pump /\ made' = made /\ history' = history /\ UNCHANGED pumpVars
  BY DEF PackFails, Close, upstreamVars, pumpVars
<1>4. OfHeld /\ out' \in Seq(Output)
  <2>1. CASE PackFails
    BY <1>1, <2>1 DEF PackFails, OfHeld, JointTypes
  <2>2. CASE Close
    <3>1. PICK m \in Output : m.input = held /\ out' = Append(out, m)
      <4>1. [kind |-> "EoS", input |-> held, pack |-> Each(0)] \in Output
        BY <1>2 DEF Output, Each
      <4>. QED  BY <2>2, <4>1 DEF Close, Put
    <3>. QED  BY <1>1, <3>1, OneOut
  <2>. QED  BY <2>1, <2>2
<1>5. JointTypes'
  <2>1. /\ at' \in {"top", "take", "close", "exited"} /\ waiting' \in BOOLEAN
        /\ held' \in Inputs \cup {None} /\ next' \in Streams
        /\ taken' \in [Streams -> Nat] /\ took' \subseteq Streams /\ done' \subseteq Streams
        /\ stopped' \subseteq Inputs
    BY <1>1, <1>2, LeaveTypes
  <2>. QED  BY <1>1, <1>3, <1>4, <2>1 DEF JointTypes, planeVars
<1>. QED  BY <1>2, <1>3, <1>4, <1>5, ProcessIsLeft

LEMMA JointStarts ==
    ASSUME JointInit
    PROVE  JointInv
<1>1. 1 \in Streams /\ 0 \in 0..MaxTurns
  BY JointAssumption DEF Streams
<1>2. JointTypes
  <2>1. /\ <<>> \in Seq([turn : Turns, active : SUBSET Streams]) /\ <<>> \in Seq(Message)
        /\ <<>> \in Seq(Cancels \cup {TeardownStamp, Kill}) /\ <<>> \in Seq(Output)
    OBVIOUS
  <2>2. /\ Grid("none") \in [Inputs -> [Streams -> {"none", "new", "next", "ended"}]]
        /\ Grid(0) \in [Inputs -> [Streams -> Nat]] /\ Each(0) \in [Streams -> Nat]
        /\ Each(None) \in [Streams -> Turns \cup {None}]
    BY DEF Grid, Each
  <2>. QED  BY <1>1, <2>1, <2>2 DEF JointInit, JointTypes
<1>3. NoPumpIsForgotten
  BY DEF JointInit, NoPumpIsForgotten, Running, Grid, Each
<1>4. InboxPart /\ HeldPart /\ RoundPart /\ EndPart
  BY DEF JointInit, InboxPart, HeldPart, RoundPart, EndPart
<1>5. SentPart
  <2>1. Len(<<>>) <= MaxInputs
    BY JointAssumption
  <2>. QED  BY <2>1 DEF JointInit, SentPart, Grid, Each
<1>. QED  BY <1>2, <1>3, <1>4, <1>5 DEF JointInv

LEMMA JointStutters ==
    ASSUME JointInv, UNCHANGED jointVars
    PROVE  JointInv'
<1>1. /\ turn' = turn /\ texts' = texts /\ inbox' = inbox /\ cancel_queue' = cancel_queue
      /\ controls' = controls /\ at' = at /\ waiting' = waiting /\ cancel_timestamp' = cancel_timestamp
      /\ exiting' = exiting /\ mode' = mode /\ held' = held /\ next' = next /\ taken' = taken
      /\ took' = took /\ done' = done /\ stopped' = stopped /\ pump' = pump /\ made' = made
      /\ history' = history /\ out' = out
  BY DEF jointVars, upstreamVars, planeVars, loopVars, roundVars, pumpVars
<1>2. JointTypes'
  BY <1>1 DEF JointInv, JointTypes
<1>3. NoPumpIsForgotten' /\ InboxPart' /\ SentPart' /\ HeldPart'
  BY <1>1 DEF JointInv, NoPumpIsForgotten, Running, InboxPart, SentPart, HeldPart,
     StampOf, Enclosed
<1>4. RoundPart' /\ EndPart'
  BY <1>1 DEF JointInv, RoundPart, EndPart, Started, Spent, Packed
<1>. QED  BY <1>2, <1>3, <1>4 DEF JointInv

LEMMA JointSteps ==
    ASSUME JointInv, [JointNext]_jointVars
    PROVE  JointInv'
<1>1. CASE Surroundings
  BY <1>1, SendSoSStep, SendTextStep, ControlStep DEF Surroundings
<1>2. CASE Node
  BY <1>2, ReadCancelStep, ReadKillStep, WaitStep, MessageStep, BeginStep, TakeStep,
     TakeLastStep, LastStep DEF Node
<1>3. ASSUME NEW i \in Inputs, NEW s \in Streams, Pump(i, s)
      PROVE  JointInv'
  BY <1>3, PumpStep
<1>4. CASE UNCHANGED jointVars
  BY <1>4, JointStutters
<1>. QED  BY <1>1, <1>2, <1>3, <1>4 DEF JointNext

LEMMA JointInvariant == JointSpec => []JointInv
<1>1. JointInit => JointInv
  BY JointStarts
<1>2. JointInv /\ [JointNext]_jointVars => JointInv'
  BY JointSteps
<1>. QED  BY <1>1, <1>2, PTL DEF JointSpec

-------------------------------------------------------------------------------
(* The packs implement ChunkZip.                                             *)

ActiveIn(t) == [i \in DOMAIN t |-> t[i].active]
ActiveOf == ActiveIn(texts)
EndedOf  == {p \in Inputs \X Streams : pump[p[1]][p[2]] = "ended"}
VoidOf   == {i \in DOMAIN texts : StampOf(i) < cancel_timestamp}

LEMMA ActiveType ==
    ASSUME NEW t \in Seq([turn : Turns, active : SUBSET Streams])
    PROVE  /\ ActiveIn(t) \in Seq(SUBSET Streams) /\ Len(ActiveIn(t)) = Len(t) /\ Len(t) \in Nat
           /\ \A i \in 1..Len(t) : ActiveIn(t)[i] = t[i].active /\ t[i].active \in SUBSET Streams
<1>1. PICK n \in Nat : n = Len(t)
  BY LenProperties
<1>2. DOMAIN t = 1..n /\ \A i \in 1..n : t[i] \in [turn : Turns, active : SUBSET Streams]
  BY <1>1, LenProperties, ElementOfSeq
<1>3. PICK f : f = ActiveIn(t)
  OBVIOUS
<1>4. f \in [1..n -> SUBSET Streams] /\ \A i \in 1..n : f[i] = t[i].active
  BY <1>2, <1>3 DEF ActiveIn
<1>5. f \in Seq(SUBSET Streams) /\ Len(f) = n
  BY <1>4
<1>6. \A i \in 1..n : t[i].active \in SUBSET Streams
  BY <1>2
<1>. QED  BY <1>1, <1>3, <1>4, <1>5, <1>6

LEMMA ActiveGrows ==
    ASSUME JointTypes, JointTypes', Grows, Len(texts) <= Len(texts')
    PROVE  /\ Len(ActiveOf) <= Len(ActiveOf') /\ SubSeq(ActiveOf', 1, Len(ActiveOf)) = ActiveOf
           /\ DOMAIN texts = 1..Len(texts)
<1>1. PICK f : f = ActiveIn(texts)
  OBVIOUS
<1>2. PICK g : g = ActiveIn(texts')
  OBVIOUS
<1>3. /\ texts \in Seq([turn : Turns, active : SUBSET Streams])
      /\ texts' \in Seq([turn : Turns, active : SUBSET Streams])
  BY DEF JointTypes
<1>4. PICK n \in Nat : n = Len(texts)
  BY <1>3, LenProperties
<1>5. /\ f \in Seq(SUBSET Streams) /\ Len(f) = n
      /\ \A i \in 1..n : f[i] = texts[i].active /\ texts[i].active \in SUBSET Streams
  BY <1>1, <1>3, <1>4, ActiveType
<1>6. /\ Len(g) = Len(texts') /\ Len(texts') \in Nat
      /\ \A i \in 1..Len(texts') : g[i] = texts'[i].active
  BY <1>2, <1>3, ActiveType
<1>7. \A i \in 1..n : g[i] = f[i] /\ g[i] \in SUBSET Streams
  <2>1. SUFFICES ASSUME NEW i \in 1..n PROVE g[i] = f[i] /\ f[i] \in SUBSET Streams
    OBVIOUS
  <2>2. i \in DOMAIN texts /\ i \in 1..Len(texts')
    BY <1>3, <1>4, <1>6, LenProperties
  <2>3. texts'[i] = texts[i]
    BY <2>2 DEF Grows
  <2>. QED  BY <1>5, <1>6, <2>2, <2>3
<1>8. PICK h : h = SubSeq(g, 1, n)
  OBVIOUS
<1>9. h \in Seq(SUBSET Streams) /\ Len(h) = n /\ \A i \in 1..n : h[i] = g[i]
  <2>1. /\ SubSeq(g, 1, n) \in Seq(SUBSET Streams)
        /\ Len(SubSeq(g, 1, n)) = IF 1 <= n THEN n - 1 + 1 ELSE 0
        /\ \A i \in 1..(n - 1 + 1) : SubSeq(g, 1, n)[i] = g[1 + i - 1]
    BY <1>7, SubSeqProperties
  <2>. QED  BY <1>8, <2>1
<1>10. h = f
  BY <1>5, <1>7, <1>9, SeqEqual
<1>11. ActiveOf = f /\ ActiveOf' = g
  BY <1>1, <1>2 DEF ActiveOf
<1>. QED  BY <1>3, <1>4, <1>5, <1>6, <1>8, <1>10, <1>11, LenProperties

LEMMA Comes ==
    ASSUME JointInv, JointTypes', Grows, Runs, Len(texts) <= Len(texts'), mode' = mode,
           out' = out, cancel_timestamp <= cancel_timestamp'
    PROVE  Packing!Come
<1>1. JointTypes /\ cancel_timestamp \in Nat /\ cancel_timestamp' \in Nat
  BY DEF JointInv, JointTypes
<1>2. Len(ActiveOf) <= Len(ActiveOf') /\ SubSeq(ActiveOf', 1, Len(ActiveOf)) = ActiveOf
  BY <1>1, ActiveGrows
<1>3. EndedOf \subseteq EndedOf'
  BY DEF EndedOf, Runs
<1>4. VoidOf \subseteq VoidOf'
  <2>1. SUFFICES ASSUME NEW i \in DOMAIN texts, StampOf(i) < cancel_timestamp
                 PROVE  i \in DOMAIN texts' /\ StampOf(i)' < cancel_timestamp'
    BY DEF VoidOf
  <2>2. texts[i].turn \in Turns
    BY <1>1, TextType
  <2>3. StampOf(i) \in Nat
    BY <2>2 DEF StampOf, Turns
  <2>4. i \in DOMAIN texts' /\ StampOf(i)' = StampOf(i)
    BY DEF Grows, StampOf
  <2>. QED  BY <1>1, <2>1, <2>3, <2>4
<1>5. \A i \in DOMAIN made : \A s \in Streams :
        made'[i][s] >= made[i][s] /\ (<<i, s>> \in EndedOf => made'[i][s] = made[i][s])
  <2>1. /\ DOMAIN made = Inputs
        /\ \A i \in Inputs, s \in Streams : made[i][s] \in Nat /\ made'[i][s] \in Nat
    <3>1. made \in [Inputs -> [Streams -> Nat]] /\ made' \in [Inputs -> [Streams -> Nat]]
      BY <1>1 DEF JointTypes
    <3>. QED  BY <3>1
  <2>2. \A i \in Inputs, s \in Streams : <<i, s>> \in EndedOf => pump[i][s] = "ended"
    BY DEF EndedOf
  <2>. QED  BY <2>1, <2>2 DEF Runs
<1>. QED  BY <1>2, <1>3, <1>4, <1>5 DEF Packing!Come, ActiveOf, ActiveIn, EndedOf, VoidOf

LEMMA WorldStands ==
    ASSUME JointInv, JointTypes', texts' = texts, pump' = pump, made' = made, mode' = mode,
           out' = out, cancel_timestamp' = cancel_timestamp \/ cancel_timestamp <= cancel_timestamp'
    PROVE  Packing!Come
<1>1. made \in [Inputs -> [Streams -> Nat]] /\ cancel_timestamp \in Nat /\ Len(texts) \in Nat
  BY TextType DEF JointInv, JointTypes
<1>2. Grows /\ Runs /\ Len(texts) <= Len(texts') /\ cancel_timestamp <= cancel_timestamp'
  BY <1>1 DEF Grows, Runs
<1>. QED  BY <1>2, Comes

LEMMA PacksNow ==
    ASSUME NEW i
    PROVE  Packing!Packs(i) = Packed(i)
<1>1. \A S : Packing!Cardinality(S) = Cardinality(S)
  BY DEF Packing!Cardinality, Cardinality
<1>2. Packing!Packs(i) = Packing!Cardinality(PacksIn(out, i))
  BY DEF Packing!Packs, PacksIn
<1>. QED  BY <1>1, <1>2 DEF Packed

LEMMA EmitsOnly ==
    ASSUME NEW m, out' = Append(out, m), texts' = texts, cancel_timestamp' = cancel_timestamp,
           made' = made, mode' = mode, EndedOf' = EndedOf
    PROVE  Packing!Emit(m)
  BY DEF Packing!Emit, EndedOf, StampOf

LEMMA BeginOpens ==
    ASSUME JointInv, Begin
    PROVE  Packing!Next
<1>1. PICK n : n = Got.input
  OBVIOUS
<1>2. PICK f : f = [s \in Streams |-> IF s \in texts[n].active THEN "new" ELSE "none"]
  OBVIOUS
<1>3. /\ texts' = texts /\ cancel_timestamp' = cancel_timestamp /\ mode' = mode /\ made' = made
      /\ pump' = [pump EXCEPT ![n] = f]
      /\ out' = Append(out, [kind |-> "SoS", input |-> n, pack |-> Each(0)])
  BY <1>1, <1>2 DEF Begin, upstreamVars, loopVars, Put
<1>4. /\ n \in DOMAIN texts /\ n \in Inputs
      /\ \A s \in Streams : pump[n][s] = "none"
      /\ \A k \in DOMAIN out : out[k].input < n
  BY <1>1, FirstText DEF Begin
<1>5. EndedOf' = EndedOf
  <2>1. pump \in [Inputs -> [Streams -> {"none", "new", "next", "ended"}]]
    BY DEF JointInv, JointTypes
  <2>2. ASSUME NEW i \in Inputs, NEW s \in Streams
        PROVE  pump'[i][s] = "ended" <=> pump[i][s] = "ended"
    <3>1. CASE i = n
      <4>1. pump'[i][s] = f[s] /\ pump[i][s] = "none"
        BY <1>3, <1>4, <2>1, <3>1
      <4>2. f[s] \in {"new", "none"}
        BY <1>2
      <4>. QED  BY <4>1, <4>2
    <3>2. CASE i # n
      BY <1>3, <2>1, <3>2
    <3>. QED  BY <3>1, <3>2
  <2>. QED  BY <2>2 DEF EndedOf
<1>6. Packing!Emit([kind |-> "SoS", input |-> n, pack |-> Packing!Nothing])
  <2>1. Each(0) = Packing!Nothing
    BY DEF Each, Packing!Nothing
  <2>. QED  BY <1>3, <1>5, <2>1, EmitsOnly
<1>7. Packing!Begin(n)
  BY <1>4, <1>6 DEF Packing!Begin
<1>. QED  BY <1>4, <1>7 DEF Packing!Next

LEMMA CloseEnds ==
    ASSUME JointInv, Close
    PROVE  Packing!Next
<1>1. /\ texts' = texts /\ cancel_timestamp' = cancel_timestamp /\ mode' = mode /\ made' = made /\ pump' = pump
      /\ out' = Append(out, [kind |-> "EoS", input |-> held, pack |-> Each(0)])
  BY DEF Close, upstreamVars, pumpVars, Put
<1>2. /\ held \in DOMAIN texts /\ ~(StampOf(held) < cancel_timestamp) /\ Enclosed(held)
      /\ held \in Inputs /\ Started \subseteq Streams
  BY Taking DEF Close
<1>3. Packing!Emit([kind |-> "EoS", input |-> held, pack |-> Packing!Nothing])
  <2>1. Each(0) = Packing!Nothing
    BY DEF Each, Packing!Nothing
  <2>2. EndedOf' = EndedOf
    BY <1>1 DEF EndedOf
  <2>. QED  BY <1>1, <2>1, <2>2, EmitsOnly
<1>4. Packing!Within(held) /\ held \notin VoidOf
  BY <1>2 DEF Packing!Within, Enclosed, VoidOf
<1>5. Packing!Boundary(held)
  <2>1. /\ ActiveOf[held] = Started
        /\ \A s \in Started : Spent(held, s) <=>
             <<held, s>> \in EndedOf /\ made[held][s] <= Packing!Packs(held)
    <3>1. ActiveOf[held] = Started
      BY <1>2 DEF ActiveOf, ActiveIn, Started
    <3>2. \A s \in Streams : <<held, s>> \in EndedOf <=> pump[held][s] = "ended"
      BY <1>2 DEF EndedOf
    <3>. QED  BY <1>2, <3>1, <3>2, PacksNow DEF Spent
  <2>2. \/ \A s \in Started : Spent(held, s)
        \/ mode = "shortest" /\ \E s \in Started : Spent(held, s)
        \/ mode = "anchor" /\ Anchor \in Started /\ Spent(held, Anchor)
    BY DEF JointInv, EndPart, Close
  <2>3. Packing!Boundary(held) <=>
          CASE mode = "shortest" /\ Started # {} -> \E s \in Started : Spent(held, s)
            [] mode = "anchor" /\ Anchor \in Started -> Spent(held, Anchor)
            [] OTHER -> \A s \in Started : Spent(held, s)
    <3>1. CASE mode = "shortest" /\ Started # {}
      BY <2>1, <3>1 DEF Packing!Boundary, ActiveOf, ActiveIn, EndedOf
    <3>2. CASE mode = "anchor" /\ Anchor \in Started
      BY <2>1, <3>2 DEF Packing!Boundary, ActiveOf, ActiveIn, EndedOf
    <3>3. CASE ~(mode = "shortest" /\ Started # {}) /\ ~(mode = "anchor" /\ Anchor \in Started)
      BY <2>1, <3>3 DEF Packing!Boundary, ActiveOf, ActiveIn, EndedOf
    <3>. QED  BY <3>1, <3>2, <3>3
  <2>. QED  BY <2>2, <2>3
<1>6. Packing!End(held)
  BY <1>3, <1>4, <1>5 DEF Packing!End, VoidOf
<1>. QED  BY <1>2, <1>6 DEF Packing!Next

\* The pack of a round is the next of its envelope: of every stream its next
\* chunk, of an extended one that has ended its last.
LEMMA RoundPacks ==
    ASSUME JointInv, NEW chunk, NEW ready, NEW over,
           RoundRead(chunk, ready, over), LastRead(ready, over), ready # {},
           out' = Append(out, [kind |-> "pack", input |-> held,
                               pack |-> PackOf(ready, chunk, over)]),
           UNCHANGED roundFrame
    PROVE  Packing!Next
<1>1. texts' = texts /\ cancel_timestamp' = cancel_timestamp /\ mode' = mode /\ made' = made /\ pump' = pump
  BY DEF roundFrame, upstreamVars, loopVars, pumpVars
<1>2. /\ held \in DOMAIN texts /\ ~(StampOf(held) < cancel_timestamp) /\ Enclosed(held)
      /\ held \in Inputs /\ Started \subseteq Streams /\ Packed(held) \in Nat
      /\ \A s \in Streams : made[held][s] \in Nat
  BY Taking DEF RoundRead
<1>3. PICK k \in Nat : k = Packed(held) + 1
  BY <1>2
<1>4. Started = ready \cup over
  BY WholeRound
<1>5. /\ chunk \in [Streams -> Nat] /\ ready \cap over = {}
      /\ \A s \in ready : chunk[s] = k /\ k <= made[held][s]
      /\ \A s \in over : pump[held][s] = "ended" /\ chunk[s] = made[held][s] /\ ~(k <= made[held][s])
  <2>1. /\ chunk \in [Streams -> Nat] /\ ready \cap over = {}
        /\ \A s \in ready : chunk[s] = Packed(held) + 1 /\ chunk[s] <= made[held][s]
        /\ \A s \in over : /\ pump[held][s] = "ended"
                           /\ chunk[s] = made[held][s] /\ chunk[s] <= Packed(held)
    BY DEF RoundRead
  <2>2. \A s \in over : made[held][s] \in Nat
    BY <1>2, <1>4
  <2>. QED  BY <1>2, <1>3, <2>1, <2>2
<1>6. PICK pack : pack = [s \in Streams |->
                IF s \notin Started THEN 0
                ELSE IF k <= made[held][s] THEN k
                ELSE IF s \in Extend THEN made[held][s] ELSE 0]
  OBVIOUS
<1>7. PackOf(ready, chunk, over) = pack
  <2>1. ASSUME NEW s \in Streams
        PROVE  (IF s \in ready \cup (over \cap Extend) THEN chunk[s] ELSE 0)
                 = IF s \notin Started THEN 0
                   ELSE IF k <= made[held][s] THEN k
                   ELSE IF s \in Extend THEN made[held][s] ELSE 0
    <3>1. CASE s \in ready
      BY <1>4, <1>5, <3>1
    <3>2. CASE s \in over
      BY <1>4, <1>5, <3>2
    <3>3. CASE s \notin ready \cup over
      BY <1>4, <3>3
    <3>. QED  BY <3>1, <3>2, <3>3
  <2>. QED  BY <1>6, <2>1 DEF PackOf
<1>8. ActiveOf[held] = Started
  BY <1>2 DEF ActiveOf, ActiveIn, Started
<1>9. Packing!Emit([kind |-> "pack", input |-> held, pack |-> pack])
  <2>1. EndedOf' = EndedOf
    BY <1>1 DEF EndedOf
  <2>. QED  BY <1>1, <1>7, <2>1, EmitsOnly
<1>10. Packing!Within(held) /\ held \notin VoidOf /\ k = Packing!Packs(held) + 1
  BY <1>2, <1>3, PacksNow DEF Packing!Within, Enclosed, VoidOf
<1>11. /\ \E s \in ActiveOf[held] : k <= made[held][s]
       /\ \A s \in ActiveOf[held] : k <= made[held][s] \/ <<held, s>> \in EndedOf
  <2>1. \A s \in over : <<held, s>> \in EndedOf
    BY <1>2, <1>4, <1>5 DEF EndedOf
  <2>. QED  BY <1>4, <1>5, <1>8, <2>1
<1>12. pack = [s \in Streams |->
                IF s \notin ActiveOf[held] THEN 0
                ELSE IF k <= made[held][s] THEN k
                ELSE IF s \in Extend THEN made[held][s] ELSE 0]
  BY <1>6, <1>8
<1>13. Packing!Pack(held, k)
  BY <1>9, <1>10, <1>11, <1>12 DEF Packing!Pack, ActiveOf, ActiveIn, EndedOf, VoidOf
<1>14. Packing!Pack(held, Packing!Packs(held) + 1)
  BY <1>10, <1>13
<1>. QED  BY <1>2, <1>14 DEF Packing!Next

LEMMA AdvancePacks ==
    ASSUME JointInv, JointTypes', NEW chunk, NEW ready, NEW over,
           RoundRead(chunk, ready, over), Advance(chunk, ready, over), UNCHANGED roundFrame
    PROVE  Packing!Next
<1>1. CASE LastRead(ready, over) /\ ready # {}
  <2>1. out' = Append(out, [kind |-> "pack", input |-> held,
                            pack |-> PackOf(ready, chunk, over)])
    BY <1>1 DEF Advance, LastRead, Produced, Put
  <2>. QED  BY <1>1, <2>1, RoundPacks
<1>2. CASE ~(LastRead(ready, over) /\ ready # {})
  <2>1. out' = out
    BY <1>2 DEF Advance, LastRead, Produced
  <2>2. texts' = texts /\ cancel_timestamp' = cancel_timestamp /\ mode' = mode /\ made' = made /\ pump' = pump
    BY DEF roundFrame, upstreamVars, loopVars, pumpVars
  <2>. QED  BY <2>1, <2>2, WorldStands DEF Packing!Next
<1>. QED  BY <1>1, <1>2

\* The steps around the node: sentences and chunks come, cancels void sentences.
LEMMA WorldComes ==
    ASSUME JointInv, JointTypes',
           Surroundings \/ \E i \in Inputs, s \in Streams : Pump(i, s)
    PROVE  Packing!Next
<1>1. JointTypes /\ Len(texts) \in Nat
  BY TextType DEF JointInv
<1>2. CASE SendSoS \/ Dispose \/ \E c \in Cancels : Interrupt(c)
  <2>1. /\ texts' = texts /\ pump' = pump /\ made' = made /\ mode' = mode /\ out' = out
        /\ cancel_timestamp' = cancel_timestamp
    BY <1>2 DEF SendSoS, Dispose, Interrupt, upstreamVars, nodeVars, loopVars,
       pumpVars
  <2>. QED  BY <2>1, WorldStands DEF Packing!Next
<1>3. ASSUME NEW active \in SUBSET Streams, SendText(active)
      PROVE  Packing!Next
  <2>1. texts' = Append(texts, [turn |-> turn, active |-> active]) /\ turn \in Turns
    BY <1>1, <1>3, JointAssumption DEF SendText, JointTypes, Turns
  <2>2. PICK t \in [turn : Turns, active : SUBSET Streams] : texts' = Append(texts, t)
    BY <2>1
  <2>3. PICK n \in Nat : n = Len(texts)
    BY <1>1
  <2>4. /\ Len(texts') = n + 1 /\ DOMAIN texts = 1..n /\ DOMAIN texts' = 1..(n + 1)
        /\ \A i \in 1..n : texts'[i] = texts[i]
    BY <1>1, <2>2, <2>3, Appended DEF JointTypes
  <2>5. Grows /\ Len(texts) <= Len(texts')
    <3>1. 1..n \subseteq 1..(n + 1)
      OBVIOUS
    <3>. QED  BY <2>3, <2>4, <3>1 DEF Grows
  <2>6. /\ pump' = pump /\ made' = made /\ mode' = mode /\ out' = out /\ cancel_timestamp' = cancel_timestamp
    BY <1>3 DEF SendText, nodeVars, loopVars, pumpVars
  <2>7. Runs /\ cancel_timestamp <= cancel_timestamp'
    <3>1. made \in [Inputs -> [Streams -> Nat]] /\ cancel_timestamp \in Nat
      BY <1>1 DEF JointTypes
    <3>. QED  BY <2>6, <3>1 DEF Runs
  <2>. QED  BY <2>5, <2>6, <2>7, Comes DEF Packing!Next
<1>4. ASSUME NEW i \in Inputs, NEW s \in Streams, Pump(i, s)
      PROVE  Packing!Next
  <2>1. Runs
    BY <1>4, PumpStep
  <2>2. /\ texts' = texts /\ mode' = mode /\ out' = out /\ cancel_timestamp' = cancel_timestamp
    BY <1>4 DEF Pump, PumpStart, PumpYield, PumpNotStarted, PumpEnd,
       upstreamVars, loopVars
  <2>3. Grows /\ Len(texts) <= Len(texts') /\ cancel_timestamp <= cancel_timestamp'
    BY <1>1, <2>2 DEF Grows, JointTypes
  <2>. QED  BY <2>1, <2>2, <2>3, Comes DEF Packing!Next
<1>. QED  BY <1>2, <1>3, <1>4 DEF Surroundings

\* Every step of the node is a step of ChunkZip.
LEMMA NodePacks ==
    ASSUME JointInv, JointTypes', Node
    PROVE  Packing!Next
<1>1. CASE Begin
  BY <1>1, BeginOpens
<1>2. CASE Close
  BY <1>2, CloseEnds
<1>3. CASE TakeChunk
  <2>1. RoundRead([taken EXCEPT ![next] = @ + 1], took \cup {next}, done)
    BY <1>3, ChunkIsRead DEF TakeChunk
  <2>. QED  BY <1>3, <2>1, AdvancePacks DEF TakeChunk
<1>4. CASE TakeDone
  <2>1. RoundRead(taken, took, done \cup {next})
    BY <1>4, EndIsRead DEF TakeDone
  <2>. QED  BY <1>4, <2>1, AdvancePacks DEF TakeDone
<1>5. CASE ReadCancel
  <2>1. /\ texts' = texts /\ pump' = pump /\ made' = made /\ mode' = mode /\ out' = out
        /\ cancel_timestamp' = Max({cancel_timestamp, Head(cancel_queue)})
    BY <1>5 DEF ReadCancel, upstreamVars, pumpVars
  <2>2. cancel_timestamp <= cancel_timestamp'
    <3>1. /\ Max({cancel_timestamp, Head(cancel_queue)}) >= cancel_timestamp
          /\ Max({cancel_timestamp, Head(cancel_queue)}) \in Nat /\ cancel_timestamp \in Nat
      BY <1>5, WatermarkRises DEF ReadCancel, JointInv, JointTypes
    <3>. QED  BY <2>1, <3>1
  <2>. QED  BY <2>1, <2>2, WorldStands DEF Packing!Next
<1>6. CASE ReadKill \/ Wait \/ Discard \/ CatchSoS \/ TakeLast \/ PackFails
  <2>1. /\ texts' = texts /\ pump' = pump /\ made' = made /\ mode' = mode /\ out' = out
        /\ cancel_timestamp' = cancel_timestamp
    BY <1>6 DEF ReadKill, Wait, Discard, CatchSoS, TakeLast, PackFails,
       roundFrame, upstreamVars, loopVars, pumpVars
  <2>. QED  BY <2>1, WorldStands DEF Packing!Next
<1>. QED  BY <1>1, <1>2, <1>3, <1>4, <1>5, <1>6 DEF Node

LEMMA ZipStarts ==
    ASSUME JointInit
    PROVE  Packing!Init
<1>1. DOMAIN texts = {} /\ EndedOf = {}
  <2>1. \A i \in Inputs, s \in Streams : pump[i][s] # "ended"
    BY DEF JointInit, Grid, Each
  <2>. QED  BY <2>1, EmptySeq DEF JointInit, EndedOf
<1>2. ActiveOf = <<>> /\ VoidOf = {}
  <2>1. ActiveOf = [i \in {} |-> texts[i].active] /\ VoidOf = {}
    BY <1>1 DEF ActiveOf, ActiveIn, VoidOf
  <2>. QED  BY <2>1
<1>3. out = <<>> /\ \A i \in DOMAIN made : \A s \in Streams : made[i][s] = 0
  BY DEF JointInit, Grid, Each
<1>. QED  BY <1>1, <1>2, <1>3 DEF Packing!Init, ActiveOf, ActiveIn, EndedOf, VoidOf

\* Whatever is cancelled, fails or ends, in whatever round: the node's state has
\* its types, and each pump that still generates works for the sentence in
\* process() or has been told to stop (process and _pump).
THEOREM JointPumps == JointSpec => []PumpInv
<1>1. JointSpec => []JointInv
  BY JointInvariant
<1>2. JointInv => PumpInv
  BY DEF JointInv, PumpInv
<1>. QED  BY <1>1, <1>2, PTL

\* What ChunkZip sees of the node.
ZipVars == <<mode, ActiveOf, made, EndedOf, VoidOf, out>>

\* The node implements ChunkZip, whichever pump is ahead: the k-th pack of a
\* sentence has the k-th chunk of each stream that has one, and of an extended
\* stream that has ended its last; one envelope is open at a time, it is closed
\* at the boundary its mode names, and nothing is packed for a sentence that a
\* cancel the node has read voids (process and _pack_chunk).
THEOREM JointKeepsZip == JointSpec => KeepsZip
<1>1. JointInit => Packing!Init
  BY ZipStarts
<1>2. JointInv /\ JointInv' /\ [JointNext]_jointVars => [Packing!Next]_ZipVars
  <2>1. SUFFICES ASSUME JointInv, JointInv', [JointNext]_jointVars
                 PROVE  Packing!Next \/ UNCHANGED ZipVars
    OBVIOUS
  <2>2. JointTypes'
    BY <2>1 DEF JointInv
  <2>3. CASE Surroundings \/ \E i \in Inputs, s \in Streams : Pump(i, s)
    BY <2>1, <2>2, <2>3, WorldComes
  <2>4. CASE Node
    BY <2>1, <2>2, <2>4, NodePacks
  <2>5. CASE UNCHANGED jointVars
    BY <2>5 DEF jointVars, upstreamVars, loopVars, pumpVars, ZipVars, ActiveOf, ActiveIn,
       EndedOf, VoidOf, StampOf
  <2>. QED  BY <2>1, <2>3, <2>4, <2>5 DEF JointNext
<1>3. JointSpec => []JointInv
  BY JointInvariant
<1>4. KeepsZip <=> Packing!Init /\ [][Packing!Next]_ZipVars
  BY DEF KeepsZip, Packing!Spec, ZipVars, ActiveOf, ActiveIn, EndedOf, VoidOf
<1>. QED  BY <1>1, <1>2, <1>3, <1>4, PTL DEF JointSpec
===============================================================================
