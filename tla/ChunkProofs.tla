------------------------------ MODULE ChunkProofs ------------------------------
(***************************************************************************)
(* Proofs about two nodes of the span loop, for every value of their        *)
(* constants.  The chunk generator: its types, that the remote slot is free *)
(* between streams, and that the streams' envelopes keep the promise of     *)
(* Envelopes.  The voice activity node: its types, that a finished turn is  *)
(* the audio of its interval, and that node and detector agree who speaks.  *)
(***************************************************************************)
EXTENDS ChunkSession, VadNode, FiniteSets, SequenceTheorems, FiniteSetTheorems,
        WellFoundedInduction, TLAPS

Busy == {"poll", "generate", "generated"}    \* an input in hand and not generated

\* Teardown's cancel is read before its kill.
ControlPart ==
    /\ killed => watermark >= Infinity
    /\ \A i \in DOMAIN control : control[i] = Kill =>
         watermark >= Infinity \/ (i > 1 /\ control[i - 1] = Infinity)

\* Replies come in the order of the contexts, and without a span nothing is owed.
FifoPart ==
    /\ pending = replies \o requests /\ ready <= Len(requests)
    /\ pc # "emit" => replies = <<>>
    /\ session # "pipelined" => pending = <<>>
    /\ session = None <=> current = None
    /\ current = None => ~connected

\* What upstream sends after input k of stream s, which has g inputs by now.
Succeeds(g, s, k, m) ==
    \/ m.stream = s /\ m.kind = "chunk" /\ m.input = k + 1
    \/ m.stream = s /\ m.kind = "EoS" /\ g = k
    \/ m.stream = s + 1 /\ m.kind = "SoS"

After(g, l, m) ==
    IF l.kind = "EoS" THEN m.stream = l.stream + 1 /\ m.kind = "SoS"
    ELSE Succeeds(g, l.stream, l.input, m)

\* The inbox holds what upstream has sent last, in its order.
QueuePart ==
    /\ \A i \in DOMAIN inbox : i + 1 \in DOMAIN inbox =>
           After(given[inbox[i].stream], inbox[i], inbox[i + 1])
    /\ inbox # <<>> =>
         LET m == inbox[Len(inbox)] IN
         /\ m.stream = Latest /\ closed = (m.kind = "EoS")
         /\ m.kind # "EoS" => given[Latest] = m.input
    /\ \A i \in DOMAIN inbox :
         /\ inbox[i].input <= given[inbox[i].stream]
         /\ (inbox[i].kind = "chunk") = (inbox[i].input # 0)
    /\ Latest <= MaxStreams /\ (~closed => Latest # 0)
    /\ \A i \in DOMAIN stamp : i + 1 \in DOMAIN stamp => stamp[i] <= stamp[i + 1]

\* The streams come in order, in the output, in hand and in the inbox.
OrderPart ==
    /\ \A i \in DOMAIN inbox :
         /\ inbox[i].stream <= Latest
         /\ \A j \in DOMAIN inbox : i < j =>
              /\ inbox[i].stream <= inbox[j].stream
              /\ inbox[j].kind = "SoS" => inbox[i].stream < inbox[j].stream
         /\ \A k \in DOMAIN out :
              /\ out[k].stream <= inbox[i].stream
              /\ inbox[i].kind = "SoS" => out[k].stream < inbox[i].stream
         /\ \A f \in failed : inbox[i].kind = "SoS" => f < inbox[i].stream
    /\ \A k \in DOMAIN out : out[k].stream <= Latest
    /\ \A f \in failed : f <= Latest

Live == out[Len(out)].stream    \* the stream whose envelope is open

Opened == out # <<>> /\ out[Len(out)].kind # "EoS"

\* The open span is that of the open envelope, and not void.
SpanPart ==
    current # None =>
        /\ Opened /\ current = stamp[Live] /\ current >= watermark /\ Live \notin failed

\* What is in hand belongs to the open envelope.
HeldPart ==
    /\ pc \in {"top", "exited"} => held = None
    /\ pc \notin {"top", "exited"} =>
         /\ held \in Message /\ Opened /\ held.stream = Live /\ held.input <= given[Live]
         /\ held.kind = (IF pc = "finish" THEN "EoS" ELSE "chunk")
         /\ current = None => stamp[Live] < watermark
    /\ pc = "emit" => current # None
    /\ pc \in {"generate", "generated"} /\ current # None => session = "blocking"
    /\ pc = "finish" => IF inbox = <<>> THEN closed ELSE inbox[1].kind = "SoS"

ChunksIn(o, s) == {i \in DOMAIN o : o[i].stream = s /\ o[i].kind = "chunk"}

\* The chunks of stream s that have left.
Done(s) == Cardinality(ChunksIn(out, s))

\* The next message continues stream s after input k.
Continues(s, k) ==
    IF inbox = <<>> THEN s = Latest /\ ~closed /\ given[s] = k
                    ELSE Succeeds(given[s], s, k, inbox[1])

\* The inputs of the open stream, from those generated over those in flight and
\* the one in hand to those in the inbox, none is missing.
DuePart ==
    current # None =>
        /\ \A k \in DOMAIN pending : pending[k] = <<Live, Done(Live) + k>>
        /\ pc \in Busy =>
             /\ held.input = Done(Live) + Len(pending) + 1
             /\ Continues(Live, Done(Live) + Len(pending) + 1)
        /\ pc \in {"top", "emit"} => Continues(Live, Done(Live) + Len(pending))
        /\ pc = "finish" => given[Live] = Done(Live) + Len(pending)
        /\ Done(Live) + Len(pending) <= given[Live]

\* The next message belongs to stream s, which it does not begin.
Resumes(s) ==
    IF inbox = <<>> THEN s = Latest /\ ~closed ELSE s = inbox[1].stream /\ inbox[1].kind # "SoS"

\* Without a span, what comes for a stream that is not void finds its envelope
\* open and its generator failed.
RestPart ==
    current = None =>
        \A s \in DOMAIN stamp : Resumes(s) /\ stamp[s] >= watermark =>
            Opened /\ s = Live /\ s \in failed

ChunkInv ==
    /\ TypeOK /\ ControlPart /\ FifoPart /\ QueuePart /\ OrderPart /\ SpanPart
    /\ HeldPart /\ DuePart /\ RestPart

-------------------------------------------------------------------------------
(* Sequences, and the chunks counted in the output.                          *)

\* What a sequence holds.
LEMMA EntryType == \A S : \A s \in Seq(S) : \A i \in DOMAIN s : s[i] \in S
  OBVIOUS

\* A sequence without its first entry.
LEMMA TailAt ==
    ASSUME NEW S, NEW s \in Seq(S), s # <<>>
    PROVE  /\ DOMAIN s = 1..Len(s) /\ Len(s) \in Nat \ {0} /\ Head(s) = s[1]
           /\ s[1] \in S
           /\ Tail(s) \in Seq(S) /\ DOMAIN Tail(s) = 1..(Len(s) - 1)
           /\ Len(Tail(s)) = Len(s) - 1
           /\ \A i \in 1..(Len(s) - 1) : Tail(s)[i] = s[i + 1]
  OBVIOUS

\* What a longer sequence has at each place.
LEMMA AppendAt ==
    ASSUME NEW S, NEW s \in Seq(S), NEW x \in S
    PROVE  /\ DOMAIN s = 1..Len(s) /\ Len(s) \in Nat
           /\ DOMAIN Append(s, x) = 1..(Len(s) + 1) /\ Len(Append(s, x)) = Len(s) + 1
           /\ Append(s, x)[Len(s) + 1] = x
           /\ \A i \in 1..Len(s) : Append(s, x)[i] = s[i]
           /\ Append(s, x) \in Seq(S)
  OBVIOUS

\* The chunks of a stream are counted with the output that grows.
LEMMA ChunksAppend ==
    ASSUME NEW o \in Seq(Output), NEW m \in Output, NEW s
    PROVE  /\ Cardinality(ChunksIn(o, s)) \in Nat
           /\ m.stream = s /\ m.kind = "chunk"
                => Cardinality(ChunksIn(Append(o, m), s)) = Cardinality(ChunksIn(o, s)) + 1
           /\ ~(m.stream = s /\ m.kind = "chunk")
                => Cardinality(ChunksIn(Append(o, m), s)) = Cardinality(ChunksIn(o, s))
<1>. DEFINE p == Append(o, m)
            n == Len(o) + 1
<1>1. /\ DOMAIN o = 1..Len(o) /\ Len(o) \in Nat /\ DOMAIN p = 1..n
      /\ p[n] = m /\ \A i \in 1..Len(o) : p[i] = o[i]
  BY AppendAt
<1>2. ChunksIn(o, s) \subseteq DOMAIN o /\ IsFiniteSet(DOMAIN o)
  BY <1>1, FS_Interval DEF ChunksIn
<1>3. IsFiniteSet(ChunksIn(o, s))
  BY <1>2, FS_Subset
<1>4. Cardinality(ChunksIn(o, s)) \in Nat
  BY <1>3, FS_CardinalityType
<1>5. n \notin ChunksIn(o, s)
  BY <1>1 DEF ChunksIn
<1>6. \A i : i \in DOMAIN p <=> i \in DOMAIN o \/ i = n
  BY <1>1
<1>. HIDE DEF p, n
<1>7. ASSUME m.stream = s, m.kind = "chunk"
      PROVE  Cardinality(ChunksIn(p, s)) = Cardinality(ChunksIn(o, s)) + 1
  <2>1. \A i : i \in ChunksIn(p, s) <=> i \in ChunksIn(o, s) \cup {n}
    BY <1>1, <1>6, <1>7 DEF ChunksIn
  <2>2. ChunksIn(p, s) = ChunksIn(o, s) \cup {n}
    BY <2>1
  <2>. QED  BY <2>2, <1>3, <1>5, FS_AddElement
<1>8. ASSUME ~(m.stream = s /\ m.kind = "chunk")
      PROVE  Cardinality(ChunksIn(p, s)) = Cardinality(ChunksIn(o, s))
  <2>1. \A i : i \in ChunksIn(p, s) <=> i \in ChunksIn(o, s)
    BY <1>1, <1>6, <1>8 DEF ChunksIn
  <2>2. ChunksIn(p, s) = ChunksIn(o, s)
    BY <2>1
  <2>. QED  BY <2>2
<1>. QED  BY <1>4, <1>7, <1>8 DEF p

\* A stream that is not in the output has no chunks there.
LEMMA NoChunks ==
    ASSUME NEW o, NEW s, \A k \in DOMAIN o : o[k].stream # s
    PROVE  Cardinality(ChunksIn(o, s)) = 0
<1>1. ChunksIn(o, s) = {}
  BY DEF ChunksIn
<1>. QED  BY <1>1, FS_EmptySet

-------------------------------------------------------------------------------
(* The types in parts.                                                       *)

UpTypes ==
    /\ given \in Seq(0..MaxInputs) /\ stamp \in Seq(Stamps) /\ Len(stamp) = Len(given)
    /\ closed \in BOOLEAN /\ inbox \in Seq(Message)

ControlTypes ==
    /\ control \in Seq(Cancels \cup {Infinity, Kill}) /\ controls \in Nat
    /\ watermark \in Nat /\ killed \in BOOLEAN

NodeTypes ==
    /\ pc \in {"top", "poll", "emit", "generate", "generated", "finish", "exited"}
    /\ waiting \in BOOLEAN /\ held \in Message \cup {None}
    /\ failed \in SUBSET Streams

SpanTypes ==
    /\ current \in Stamps \cup {None}
    /\ session \in Sessions \cup {None} /\ pending \in Seq(Request)
    /\ connected \in BOOLEAN /\ requests \in Seq(Request) /\ ready \in Nat
    /\ replies \in Seq(Request)

OutType == out \in Seq(Output)

Types == UpTypes /\ ControlTypes /\ NodeTypes /\ SpanTypes /\ OutType

LEMMA TypesNow == TypeOK <=> Types
  BY DEF TypeOK, Types, UpTypes, ControlTypes, NodeTypes, SpanTypes, OutType

LEMMA TypesNext == TypeOK' <=> Types'
  BY TypesNow, PTL

\* What is known of a state in which the invariant holds.
LEMMA Facts ==
    ASSUME ChunkInv
    PROVE  /\ UpTypes /\ ControlTypes /\ NodeTypes /\ SpanTypes /\ OutType
           /\ DOMAIN given = 1..Latest /\ DOMAIN stamp = 1..Latest /\ Latest \in Nat
           /\ \A s \in DOMAIN stamp : stamp[s] \in Stamps /\ stamp[s] \in Nat
                                      /\ stamp[s] < Infinity
           /\ \A s \in DOMAIN given : given[s] \in Nat
           /\ DOMAIN out = 1..Len(out) /\ Len(out) \in Nat
           /\ \A k \in DOMAIN out : out[k] \in Output /\ out[k].stream \in Nat
           /\ \A k \in DOMAIN out : out[k].stream \in DOMAIN stamp
           /\ Infinity \in Nat /\ MaxInputs \in Nat /\ MaxStreams \in Nat
           /\ None \notin Nat /\ Kill \notin Nat
<1>1. UpTypes /\ ControlTypes /\ NodeTypes /\ SpanTypes /\ OutType
  BY TypesNow DEF ChunkInv, Types
<1>2. /\ Infinity \in Nat /\ MaxInputs \in Nat /\ MaxStreams \in Nat
      /\ None \notin Nat /\ Kill \notin Nat
      /\ \A t \in Stamps : t \in Nat /\ t < Infinity
  BY ChunkAssumption
<1>3. /\ DOMAIN given = 1..Latest /\ DOMAIN stamp = 1..Latest /\ Latest \in Nat
      /\ \A s \in DOMAIN given : given[s] \in 0..MaxInputs
      /\ \A s \in DOMAIN stamp : stamp[s] \in Stamps
  <2>1. given \in Seq(0..MaxInputs) /\ stamp \in Seq(Stamps) /\ Len(stamp) = Len(given)
    BY <1>1 DEF UpTypes
  <2>2. DOMAIN given = 1..Len(given) /\ DOMAIN stamp = 1..Len(given) /\ Len(given) \in Nat
    BY <2>1
  <2>3. \A s \in DOMAIN given : given[s] \in 0..MaxInputs
    BY <2>1, EntryType
  <2>4. \A s \in DOMAIN stamp : stamp[s] \in Stamps
    BY <2>1
  <2>. QED  BY <2>2, <2>3, <2>4 DEF Latest
<1>4. /\ DOMAIN out = 1..Len(out) /\ Len(out) \in Nat
      /\ \A k \in DOMAIN out : out[k] \in Output
  BY <1>1 DEF OutType
<1>5. \A m \in Output : m.stream \in 1..MaxStreams
  BY DEF Output, Streams
<1>6. \A k \in DOMAIN out : out[k].stream \in 1..MaxStreams /\ out[k].stream <= Latest
  BY <1>4, <1>5 DEF ChunkInv, OrderPart
<1>7. \A k \in DOMAIN out : out[k].stream \in Nat /\ out[k].stream \in DOMAIN stamp
  BY <1>2, <1>3, <1>6
<1>. QED  BY <1>1, <1>2, <1>3, <1>4, <1>7

-------------------------------------------------------------------------------
(* Upstream sends.                                                           *)

\* A closed stream with a message in the inbox is the last one no more.
LEMMA EndedStream ==
    ASSUME ChunkInv, NEW i \in DOMAIN inbox, inbox[i].kind = "EoS", ~closed
    PROVE  inbox[i].stream < Latest
<1>1. DOMAIN inbox = 1..Len(inbox) /\ Len(inbox) \in Nat /\ inbox[i] \in Message
  BY Facts DEF UpTypes
<1>2. inbox[i].stream \in Nat /\ Latest \in Nat
  BY <1>1, Facts DEF Message, Streams
<1>3. i # Len(inbox)
  <2>1. inbox # <<>> /\ closed \in BOOLEAN
    BY <1>1, Facts DEF UpTypes
  <2>2. closed = (inbox[Len(inbox)].kind = "EoS")
    BY <2>1 DEF ChunkInv, QueuePart
  <2>. QED  BY <2>1, <2>2
<1>4. i + 1 \in DOMAIN inbox
  BY <1>1, <1>3
<1>5. inbox[i + 1].stream = inbox[i].stream + 1
  BY <1>4 DEF ChunkInv, QueuePart, After
<1>6. inbox[i + 1].stream <= Latest
  BY <1>4 DEF ChunkInv, OrderPart
<1>. QED  BY <1>2, <1>5, <1>6

\* What upstream may send next.
SendsSoS(m) ==
    /\ m.kind = "SoS" /\ m.stream = Latest + 1 /\ m.input = 0
    /\ Latest' = Latest + 1 /\ ~closed' /\ given'[Latest + 1] = 0
    /\ \A s \in DOMAIN given : given'[s] = given[s]

SendsChunk(m) ==
    /\ m.kind = "chunk" /\ m.stream = Latest /\ m.input = given[Latest] + 1
    /\ Latest' = Latest /\ ~closed /\ ~closed' /\ given'[Latest] = m.input
    /\ \A s \in DOMAIN given : s # Latest => given'[s] = given[s]

SendsEoS(m) ==
    /\ m.kind = "EoS" /\ m.stream = Latest /\ m.input = 0
    /\ Latest' = Latest /\ ~closed /\ closed' /\ given' = given

\* Whatever upstream sends next finds its place at the end of the inbox.
LEMMA Sent ==
    ASSUME ChunkInv, NEW m \in Message, inbox' = Append(inbox, m),
           SendsSoS(m) \/ SendsChunk(m) \/ SendsEoS(m), UpTypes',
           \A s \in DOMAIN stamp : stamp'[s] = stamp[s],
           \A i \in DOMAIN stamp' : i + 1 \in DOMAIN stamp' => stamp'[i] <= stamp'[i + 1],
           UNCHANGED <<control, controls, nodeVars>>
    PROVE  ChunkInv'
<1>. DEFINE n == Len(inbox) + 1
<1>1. /\ UpTypes /\ ControlTypes /\ NodeTypes /\ SpanTypes /\ OutType
      /\ DOMAIN given = 1..Latest /\ DOMAIN stamp = 1..Latest /\ Latest \in Nat
      /\ \A s \in DOMAIN given : given[s] \in Nat
      /\ DOMAIN out = 1..Len(out) /\ Len(out) \in Nat
      /\ \A k \in DOMAIN out : out[k].stream \in Nat /\ out[k].stream \in DOMAIN stamp
  BY Facts
<1>2. /\ UNCHANGED <<control, controls, pc, waiting, held, watermark, killed>>
      /\ UNCHANGED <<current, session, pending, connected, requests, ready>>
      /\ UNCHANGED <<replies, failed, out>>
  BY DEF nodeVars, loopVars, spanVars, serviceVars
<1>3. /\ DOMAIN inbox = 1..Len(inbox) /\ Len(inbox) \in Nat
      /\ DOMAIN inbox' = 1..n /\ Len(inbox') = n /\ inbox'[n] = m
      /\ \A i \in 1..Len(inbox) : inbox'[i] = inbox[i]
  BY <1>1, AppendAt DEF UpTypes
<1>4. \A x \in Message : x.stream \in Nat /\ x.input \in Nat
  BY Facts DEF Message, Streams
<1>5. /\ \A i \in DOMAIN inbox : /\ inbox[i] \in Message /\ inbox[i].stream \in Nat
                                 /\ inbox[i].stream \in DOMAIN given
                                 /\ inbox'[i] = inbox[i] /\ i \in Nat /\ i < n
                                 /\ i \in DOMAIN inbox'
      /\ \A i \in DOMAIN inbox' : i = n \/ i \in DOMAIN inbox
      /\ n \in DOMAIN inbox' /\ inbox' # <<>> /\ n \in Nat
  <2>1. \A i \in DOMAIN inbox : inbox[i] \in Message
    BY <1>1 DEF UpTypes
  <2>2. \A x \in Message : x.stream \in 1..MaxStreams
    BY DEF Message, Streams
  <2>3. \A i \in DOMAIN inbox : inbox[i].stream \in 1..MaxStreams /\ inbox[i].stream <= Latest
    BY <2>1, <2>2 DEF ChunkInv, OrderPart
  <2>4. MaxStreams \in Nat
    BY Facts
  <2>5. \A i \in DOMAIN inbox : inbox[i].stream \in DOMAIN given
    BY <2>3, <2>4, <1>1
  <2>. QED  BY <2>1, <2>5, <1>3, <1>4
<1>6. inbox # <<>> => /\ 1 \in DOMAIN inbox /\ inbox'[1] = inbox[1] /\ Len(inbox) \in DOMAIN inbox
                      /\ Len(inbox) + 1 = n
  BY <1>3
<1>7. inbox = <<>> => n = 1 /\ inbox'[1] = m
  BY <1>3
<1>8. /\ \A s \in DOMAIN given : given[s] <= given'[s]
      /\ Latest' \in Nat /\ Latest <= Latest' /\ m.stream = Latest'
  BY <1>1 DEF SendsSoS, SendsChunk, SendsEoS
<1>9. \A i \in DOMAIN inbox : inbox[i].kind = "EoS" /\ ~closed
        => given'[inbox[i].stream] = given[inbox[i].stream]
  <2>1. \A i \in DOMAIN inbox : inbox[i].kind = "EoS" /\ ~closed => inbox[i].stream < Latest
    BY EndedStream
  <2>. QED  BY <2>1, <1>1, <1>5 DEF SendsSoS, SendsChunk, SendsEoS
<1>10. \A i \in DOMAIN inbox : inbox[i].kind = "EoS"
        => given'[inbox[i].stream] = given[inbox[i].stream]
  BY <1>1, <1>5, <1>9 DEF SendsSoS, SendsChunk, SendsEoS
<1>11. /\ DOMAIN given' = 1..Latest' /\ DOMAIN stamp' = 1..Latest'
       /\ \A s \in DOMAIN given' : given'[s] \in Nat
  <2>1. given' \in Seq(0..MaxInputs) /\ stamp' \in Seq(Stamps) /\ Len(stamp') = Len(given')
    BY DEF UpTypes
  <2>2. DOMAIN given' = 1..Len(given') /\ DOMAIN stamp' = 1..Len(given')
    BY <2>1
  <2>3. \A s \in DOMAIN given' : given'[s] \in 0..MaxInputs /\ MaxInputs \in Nat
    BY <2>1, EntryType, Facts
  <2>4. \A s \in DOMAIN given' : given'[s] \in Nat
    BY <2>3
  <2>. QED  BY <2>2, <2>4 DEF Latest
<1>. HIDE DEF n
<1>12. QueuePart'
  <2>2. ASSUME NEW i \in DOMAIN inbox', i + 1 \in DOMAIN inbox'
        PROVE  After(given'[inbox'[i].stream], inbox'[i], inbox'[i + 1])
    <3>1. i \in DOMAIN inbox /\ inbox'[i] = inbox[i]
      BY <2>2, <1>3, <1>5
    <3>2. CASE i + 1 \in DOMAIN inbox
      <4>1. /\ After(given[inbox[i].stream], inbox[i], inbox[i + 1])
            /\ inbox'[i + 1] = inbox[i + 1]
        BY <3>1, <3>2, <1>5 DEF ChunkInv, QueuePart
      <4>2. inbox[i + 1].kind = "EoS" /\ inbox[i + 1].stream = inbox[i].stream
              => given'[inbox[i].stream] = given[inbox[i].stream]
        BY <3>2, <1>10
      <4>. QED  BY <4>1, <4>2, <3>1 DEF After, Succeeds
    <3>3. CASE i + 1 = n
      <4>1. i = Len(inbox) /\ inbox # <<>>
        BY <3>1, <3>3, <1>3 DEF n
      <4>2. /\ inbox[i].stream = Latest /\ closed = (inbox[i].kind = "EoS")
            /\ inbox[i].kind # "EoS" => given[Latest] = inbox[i].input
        BY <4>1 DEF ChunkInv, QueuePart
      <4>3. inbox'[i + 1] = m /\ closed \in BOOLEAN
        BY <3>3, <1>1, <1>3 DEF UpTypes
      <4>4. CASE SendsSoS(m)
        BY <4>2, <4>3, <4>4, <3>1 DEF After, Succeeds, SendsSoS
      <4>5. CASE SendsChunk(m)
        BY <4>2, <4>3, <4>5, <3>1 DEF After, Succeeds, SendsChunk
      <4>6. CASE SendsEoS(m)
        BY <4>2, <4>3, <4>6, <3>1 DEF After, Succeeds, SendsEoS
      <4>. QED  BY <4>4, <4>5, <4>6
    <3>. QED  BY <2>2, <3>1, <3>2, <3>3, <1>5
  <2>3. /\ inbox'[Len(inbox')].stream = Latest'
        /\ closed' = (inbox'[Len(inbox')].kind = "EoS")
        /\ inbox'[Len(inbox')].kind # "EoS" => given'[Latest'] = inbox'[Len(inbox')].input
    <3>1. inbox'[Len(inbox')] = m
      BY <1>3
    <3>2. closed' \in BOOLEAN
      BY DEF UpTypes
    <3>. QED  BY <3>1, <3>2 DEF SendsSoS, SendsChunk, SendsEoS
  <2>4. ASSUME NEW i \in DOMAIN inbox'
        PROVE  /\ inbox'[i].input <= given'[inbox'[i].stream]
               /\ (inbox'[i].kind = "chunk") = (inbox'[i].input # 0)
    <3>1. CASE i \in DOMAIN inbox
      <4>1. /\ inbox[i].input <= given[inbox[i].stream] /\ inbox[i].input \in Nat
            /\ (inbox[i].kind = "chunk") = (inbox[i].input # 0)
        BY <3>1, <1>4, <1>5 DEF ChunkInv, QueuePart
      <4>2. given[inbox[i].stream] \in Nat /\ given'[inbox[i].stream] \in Nat
        BY <3>1, <1>1, <1>5, <1>8, <1>11
      <4>. QED  BY <3>1, <4>1, <4>2, <1>5, <1>8
    <3>2. CASE i = n
      <4>1. inbox'[i] = m /\ Latest' \in Nat
        BY <3>2, <1>3, <1>8
      <4>2. Latest \in DOMAIN given \/ SendsSoS(m)
        BY <1>1 DEF SendsChunk, SendsEoS, ChunkInv, QueuePart
      <4>3. m.input \in Nat /\ (\A s \in DOMAIN given : given[s] \in Nat)
        BY <1>1, <1>4
      <4>4. m.input <= given'[m.stream]
        BY <4>2, <4>3 DEF SendsSoS, SendsChunk, SendsEoS
      <4>5. (m.kind = "chunk") = (m.input # 0)
        BY <4>2, <4>3 DEF SendsSoS, SendsChunk, SendsEoS
      <4>. QED  BY <4>1, <4>4, <4>5
    <3>. QED  BY <3>1, <3>2, <1>5
  <2>5. ~closed' => Latest' # 0
    BY <1>1 DEF ChunkInv, QueuePart, SendsSoS, SendsChunk, SendsEoS
  <2>6. Latest' <= MaxStreams
    BY <1>8, Facts DEF Message, Streams
  <2>7. \A i \in DOMAIN stamp' : i + 1 \in DOMAIN stamp' => stamp'[i] <= stamp'[i + 1]
    OBVIOUS
  <2>. QED  BY <2>6, <2>7, <2>2, <2>3, <2>4, <2>5 DEF QueuePart
<1>13. OrderPart'
  <2>1. OrderPart
    BY DEF ChunkInv
  <2>2. \A f \in failed : f \in Nat
    BY <1>1, Facts DEF NodeTypes, Streams
  <2>3. ASSUME NEW i \in DOMAIN inbox' PROVE inbox'[i].stream <= Latest'
    BY <2>1, <1>1, <1>3, <1>5, <1>8 DEF OrderPart
  <2>4. ASSUME NEW i \in DOMAIN inbox', NEW j \in DOMAIN inbox', i < j
        PROVE  /\ inbox'[i].stream <= inbox'[j].stream
               /\ inbox'[j].kind = "SoS" => inbox'[i].stream < inbox'[j].stream
    <3>1. i \in DOMAIN inbox
      BY <2>4, <1>5
    <3>2. CASE j \in DOMAIN inbox
      BY <2>4, <3>1, <3>2, <2>1, <1>5 DEF OrderPart
    <3>3. CASE j = n
      <4>1. inbox[i].stream <= Latest
        BY <3>1, <2>1 DEF OrderPart
      <4>2. m.kind = "SoS" => m.stream = Latest + 1
        BY DEF SendsSoS, SendsChunk, SendsEoS
      <4>. QED  BY <4>1, <4>2, <3>1, <3>3, <1>1, <1>3, <1>5, <1>8
    <3>. QED  BY <3>2, <3>3, <1>5
  <2>5. ASSUME NEW i \in DOMAIN inbox', NEW k \in DOMAIN out
        PROVE  /\ out[k].stream <= inbox'[i].stream
               /\ inbox'[i].kind = "SoS" => out[k].stream < inbox'[i].stream
    <3>1. CASE i \in DOMAIN inbox
      BY <3>1, <2>1, <1>5 DEF OrderPart
    <3>2. CASE i = n
      <4>1. out[k].stream <= Latest /\ out[k].stream \in Nat
        BY <2>1, <1>1 DEF OrderPart
      <4>2. m.kind = "SoS" => m.stream = Latest + 1
        BY DEF SendsSoS, SendsChunk, SendsEoS
      <4>. QED  BY <4>1, <4>2, <3>2, <1>1, <1>3, <1>8
    <3>. QED  BY <3>1, <3>2, <1>5
  <2>6. ASSUME NEW i \in DOMAIN inbox', NEW f \in failed, inbox'[i].kind = "SoS"
        PROVE  f < inbox'[i].stream
    <3>1. CASE i \in DOMAIN inbox
      BY <2>6, <3>1, <2>1, <1>5 DEF OrderPart
    <3>2. CASE i = n
      <4>1. f <= Latest
        BY <2>1 DEF OrderPart
      <4>2. m.kind = "SoS" => m.stream = Latest + 1
        BY DEF SendsSoS, SendsChunk, SendsEoS
      <4>. QED  BY <2>6, <4>1, <4>2, <2>2, <3>2, <1>1, <1>3
    <3>. QED  BY <3>1, <3>2, <1>5
  <2>7. /\ \A k \in DOMAIN out : out[k].stream <= Latest'
        /\ \A f \in failed : f <= Latest'
    BY <2>1, <2>2, <1>1, <1>8 DEF OrderPart
  <2>. QED  BY <2>3, <2>4, <2>5, <2>6, <2>7, <1>2 DEF OrderPart
<1>14. Opened => Live \in DOMAIN stamp /\ Live' = Live /\ Opened'
                 /\ stamp'[Live] = stamp[Live]
  <2>1. Opened => Len(out) \in DOMAIN out
    BY <1>1 DEF Opened
  <2>. QED  BY <2>1, <1>1, <1>2 DEF Opened, Live
<1>15. SpanPart'
  BY <1>2, <1>14 DEF ChunkInv, SpanPart
<1>16. ~Opened /\ pc \notin {"top", "exited"} => FALSE
  BY DEF ChunkInv, HeldPart
<1>17. pc = "finish" => /\ inbox = <<>> => closed
                        /\ inbox # <<>> => inbox[1].kind = "SoS"
                        /\ Latest # Live \/ closed
  <2>. SUFFICES ASSUME pc = "finish", inbox # <<>> PROVE Latest # Live
    BY DEF ChunkInv, HeldPart
  <2>1. inbox[1].kind = "SoS" /\ Opened
    BY DEF ChunkInv, HeldPart
  <2>2. Len(out) \in DOMAIN out
    BY <2>1, <1>1 DEF Opened
  <2>3. Live < inbox[1].stream /\ inbox[1].stream <= Latest
    BY <2>1, <2>2, <1>6 DEF ChunkInv, OrderPart, Live
  <2>. QED  BY <2>2, <2>3, <1>1, <1>5, <1>6 DEF Live
<1>18. HeldPart'
  <2>1. pc = "finish" => IF inbox' = <<>> THEN closed' ELSE inbox'[1].kind = "SoS"
    BY <1>5, <1>6, <1>7, <1>17 DEF SendsSoS, SendsChunk, SendsEoS
  <2>2. pc \notin {"top", "exited"} => held.input <= given'[Live]
    <3>. SUFFICES ASSUME pc \notin {"top", "exited"} PROVE held.input <= given'[Live]
      OBVIOUS
    <3>1. held \in Message /\ held.input <= given[Live] /\ Live \in DOMAIN given
      BY <1>1, <1>14, <1>16 DEF ChunkInv, HeldPart, NodeTypes
    <3>2. given'[Live] \in Nat
      <4>1. Live \in 1..Latest'
        BY <3>1, <1>1, <1>8
      <4>. QED  BY <4>1, <1>11
    <3>. QED  BY <3>1, <3>2, <1>1, <1>4, <1>8
  <2>. QED  BY <2>1, <2>2, <1>2, <1>14 DEF ChunkInv, HeldPart
<1>19. ASSUME NEW k \in Nat, Continues(Live, k), Opened PROVE Continues(Live, k)'
  <2>1. CASE inbox = <<>>
    <3>1. Live = Latest /\ ~closed /\ given[Live] = k
      BY <1>19, <2>1 DEF Continues
    <3>. QED  BY <3>1, <2>1, <1>5, <1>7, <1>14, <1>19
              DEF Continues, Succeeds, SendsSoS, SendsChunk, SendsEoS
  <2>2. CASE inbox # <<>>
    <3>1. Succeeds(given[Live], Live, k, inbox[1])
      BY <1>19, <2>2 DEF Continues
    <3>2. Succeeds(given'[Live], Live, k, inbox[1])
      BY <3>1, <2>2, <1>6, <1>10 DEF Succeeds
    <3>. QED  BY <3>2, <2>2, <1>5, <1>6, <1>14, <1>19 DEF Continues
  <2>. QED  BY <2>1, <2>2
<1>20. Len(pending) \in Nat /\ \A s : Done(s) \in Nat /\ Done(s)' = Done(s)
  <2>1. Len(pending) \in Nat
    BY <1>1 DEF SpanTypes
  <2>2. ASSUME NEW s PROVE Done(s) \in Nat /\ Done(s)' = Done(s)
    <3>1. IsFiniteSet(DOMAIN out)
      BY <1>1, FS_Interval
    <3>2. IsFiniteSet(ChunksIn(out, s))
      BY <3>1, FS_Subset DEF ChunksIn
    <3>. QED  BY <3>2, <1>2, FS_CardinalityType DEF Done
  <2>. QED  BY <2>1, <2>2
<1>21. DuePart'
  <2>. SUFFICES ASSUME current # None PROVE DuePart'
    BY <1>2 DEF DuePart
  <2>1. DuePart /\ Opened
    BY DEF ChunkInv, SpanPart
  <2>2. Live' = Live /\ Done(Live)' = Done(Live) /\ Done(Live) \in Nat
    <3>1. Live' = Live
      BY <2>1, <1>14
    <3>. QED  BY <3>1, <1>2, <1>20 DEF Done
  <2>3. PICK d \in Nat : d = Done(Live) + Len(pending)
    BY <2>2, <1>20
  <2>8. d + 1 \in Nat /\ (Done(Live) + Len(pending))' = d
    BY <2>2, <2>3, <1>2
  <2>4. pc \in Busy => Continues(Live, d + 1)'
    <3>1. pc \in Busy => Continues(Live, d + 1)
      BY <2>1, <2>3 DEF DuePart
    <3>. QED  BY <3>1, <2>1, <2>8, <1>19
  <2>5. pc \in {"top", "emit"} => Continues(Live, d)'
    <3>1. pc \in {"top", "emit"} => Continues(Live, d)
      BY <2>1, <2>3 DEF DuePart
    <3>. QED  BY <3>1, <2>1, <1>19
  <2>6. pc = "finish" => given'[Live] = given[Live]
    BY <2>1, <1>1, <1>14, <1>17 DEF SendsSoS, SendsChunk, SendsEoS
  <2>7. Done(Live) + Len(pending) <= given'[Live]
    <3>1. given[Live] \in Nat /\ given[Live] <= given'[Live] /\ given'[Live] \in Nat
      <4>1. Live \in DOMAIN given /\ Live \in 1..Latest'
        BY <2>1, <1>1, <1>8, <1>14
      <4>. QED  BY <4>1, <1>1, <1>8, <1>11
    <3>2. Done(Live) + Len(pending) <= given[Live]
      BY <2>1 DEF DuePart
    <3>. QED  BY <3>1, <3>2, <2>3
  <2>. QED  BY <2>1, <2>2, <2>3, <2>4, <2>5, <2>6, <2>7, <2>8, <1>2 DEF DuePart
<1>22. RestPart'
  <2>. SUFFICES ASSUME current = None, NEW s \in DOMAIN stamp', Resumes(s)',
                       stamp'[s] >= watermark
                PROVE  Opened /\ s = Live /\ s \in failed
    BY <1>2, <1>14 DEF RestPart
  <2>1. Resumes(s)
    <3>1. s = inbox'[1].stream /\ inbox'[1].kind # "SoS"
      BY <1>5 DEF Resumes
    <3>. QED  BY <3>1, <1>6, <1>7 DEF Resumes, SendsSoS, SendsChunk, SendsEoS
  <2>2. s \in DOMAIN stamp
    <3>1. CASE inbox = <<>>
      <4>1. s = Latest /\ Latest # 0
        BY <2>1, <3>1 DEF Resumes, ChunkInv, QueuePart
      <4>. QED  BY <4>1, <1>1
    <3>2. CASE inbox # <<>>
      BY <2>1, <3>2, <1>1, <1>5, <1>6 DEF Resumes
    <3>. QED  BY <3>1, <3>2
  <2>. QED  BY <2>1, <2>2 DEF ChunkInv, RestPart
<1>23. ControlPart' /\ FifoPart'
  BY <1>2 DEF ChunkInv, ControlPart, FifoPart
<1>24. Types'
  BY <1>1, <1>2 DEF Types, ControlTypes, NodeTypes, SpanTypes, OutType
<1>. QED
  BY <1>12, <1>13, <1>15, <1>18, <1>21, <1>22, <1>23, <1>24, TypesNext DEF ChunkInv

\* Upstream's steps, and those of the control plane and of the service.
LEMMA SendSoSStep ==
    ASSUME ChunkInv, NEW t \in Stamps, SendSoS(t)
    PROVE  ChunkInv'
<1>. DEFINE m == [kind |-> "SoS", stream |-> Latest + 1, input |-> 0]
<1>1. /\ UpTypes /\ DOMAIN given = 1..Latest /\ DOMAIN stamp = 1..Latest /\ Latest \in Nat
      /\ MaxStreams \in Nat /\ MaxInputs \in Nat
      /\ \A s \in DOMAIN stamp : stamp[s] \in Nat
  BY Facts
<1>2. /\ Latest < MaxStreams /\ (stamp # <<>> => t >= Last(stamp))
      /\ given' = Append(given, 0) /\ stamp' = Append(stamp, t) /\ closed' = FALSE
      /\ inbox' = Append(inbox, m)
      /\ UNCHANGED <<control, controls, nodeVars>>
  BY DEF SendSoS, Send
<1>3. m \in Message
  BY <1>1, <1>2 DEF Message, Streams
<1>4. /\ given' \in Seq(0..MaxInputs) /\ Len(given') = Latest + 1
      /\ given'[Latest + 1] = 0 /\ \A s \in DOMAIN given : given'[s] = given[s]
  <2>1. 0 \in 0..MaxInputs /\ given \in Seq(0..MaxInputs)
    BY <1>1 DEF UpTypes
  <2>. QED  BY <2>1, <1>1, <1>2, AppendAt DEF Latest
<1>5. /\ stamp' \in Seq(Stamps) /\ Len(stamp') = Latest + 1 /\ DOMAIN stamp' = 1..(Latest + 1)
      /\ stamp'[Latest + 1] = t /\ \A s \in DOMAIN stamp : stamp'[s] = stamp[s]
  <2>1. stamp \in Seq(Stamps) /\ Len(stamp) = Latest
    BY <1>1 DEF UpTypes, Latest
  <2>. QED  BY <2>1, <1>1, <1>2, AppendAt
<1>6. inbox' \in Seq(Message)
  BY <1>1, <1>2, <1>3 DEF UpTypes
<1>7. UpTypes'
  BY <1>2, <1>4, <1>5, <1>6 DEF UpTypes
<1>8. SendsSoS(m)
  BY <1>2, <1>4 DEF SendsSoS, Latest
<1>9. ASSUME NEW i \in DOMAIN stamp', i + 1 \in DOMAIN stamp'
      PROVE  stamp'[i] <= stamp'[i + 1]
  <2>1. i \in DOMAIN stamp
    BY <1>1, <1>5, <1>9
  <2>2. CASE i + 1 \in DOMAIN stamp
    BY <2>1, <2>2, <1>5 DEF ChunkInv, QueuePart
  <2>3. CASE i = Latest
    <3>1. stamp # <<>> /\ Last(stamp) = stamp[Latest] /\ t \in Nat
      BY <2>1, <2>3, <1>1, ChunkAssumption DEF Last, UpTypes, Latest
    <3>. QED  BY <3>1, <2>1, <2>3, <1>1, <1>2, <1>5
  <2>. QED  BY <2>1, <2>2, <2>3, <1>1, <1>5, <1>9
<1>. HIDE DEF m
<1>. QED  BY <1>2, <1>3, <1>5, <1>7, <1>8, <1>9, Sent

LEMMA SendChunkStep ==
    ASSUME ChunkInv, SendChunk
    PROVE  ChunkInv'
<1>. DEFINE m == [kind |-> "chunk", stream |-> Latest, input |-> given[Latest] + 1]
<1>1. /\ UpTypes /\ DOMAIN given = 1..Latest /\ DOMAIN stamp = 1..Latest /\ Latest \in Nat
      /\ MaxStreams \in Nat /\ MaxInputs \in Nat
      /\ \A s \in DOMAIN given : given[s] \in Nat
  BY Facts
<1>2. /\ ~closed /\ given[Latest] < MaxInputs
      /\ given' = [given EXCEPT ![Latest] = @ + 1]
      /\ inbox' = Append(inbox, m)
      /\ UNCHANGED <<stamp, closed, control, controls, nodeVars>>
  BY DEF SendChunk, Send
<1>3. Latest \in DOMAIN given
  BY <1>1, <1>2 DEF ChunkInv, QueuePart
<1>4. Latest \in 1..MaxStreams
  BY <1>1, <1>3 DEF ChunkInv, QueuePart
<1>5. m \in Message
  BY <1>1, <1>2, <1>3, <1>4 DEF Message, Streams
<1>6. /\ given' \in Seq(0..MaxInputs) /\ Len(given') = Len(given)
      /\ given'[Latest] = given[Latest] + 1
      /\ \A s \in DOMAIN given : s # Latest => given'[s] = given[s]
  <2>. DEFINE N == 0..MaxInputs
  <2>1. given[Latest] + 1 \in N /\ given \in Seq(N)
    BY <1>1, <1>2, <1>3 DEF UpTypes
  <2>. HIDE DEF N
  <2>2. /\ given' \in Seq(N) /\ Len(given') = Len(given)
        /\ given'[Latest] = given[Latest] + 1
        /\ \A s \in DOMAIN given : s # Latest => given'[s] = given[s]
    BY <2>1, <1>2, <1>3
  <2>. QED  BY <2>2 DEF N
<1>7. inbox' \in Seq(Message)
  BY <1>1, <1>2, <1>5 DEF UpTypes
<1>8. UpTypes'
  BY <1>1, <1>2, <1>6, <1>7 DEF UpTypes
<1>9. SendsChunk(m)
  BY <1>2, <1>6 DEF SendsChunk, Latest
<1>10. \A i \in DOMAIN stamp' : i + 1 \in DOMAIN stamp' => stamp'[i] <= stamp'[i + 1]
  BY <1>2 DEF ChunkInv, QueuePart
<1>. HIDE DEF m
<1>. QED  BY <1>2, <1>5, <1>8, <1>9, <1>10, Sent

LEMMA SendEoSStep ==
    ASSUME ChunkInv, SendEoS
    PROVE  ChunkInv'
<1>. DEFINE m == [kind |-> "EoS", stream |-> Latest, input |-> 0]
<1>1. /\ UpTypes /\ DOMAIN given = 1..Latest /\ Latest \in Nat
      /\ MaxInputs \in Nat /\ MaxStreams \in Nat
  BY Facts
<1>2. /\ ~closed /\ closed' = TRUE /\ inbox' = Append(inbox, m)
      /\ UNCHANGED <<given, stamp, control, controls, nodeVars>>
  BY DEF SendEoS, Send
<1>3. Latest \in DOMAIN given
  BY <1>1, <1>2 DEF ChunkInv, QueuePart
<1>4. Latest \in 1..MaxStreams
  BY <1>1, <1>3 DEF ChunkInv, QueuePart
<1>5. m \in Message
  BY <1>1, <1>4 DEF Message, Streams
<1>6. inbox' \in Seq(Message)
  BY <1>1, <1>2, <1>5 DEF UpTypes
<1>7. UpTypes'
  BY <1>1, <1>2, <1>6 DEF UpTypes
<1>8. SendsEoS(m)
  BY <1>2 DEF SendsEoS, Latest
<1>9. \A i \in DOMAIN stamp' : i + 1 \in DOMAIN stamp' => stamp'[i] <= stamp'[i + 1]
  BY <1>2 DEF ChunkInv, QueuePart
<1>. HIDE DEF m
<1>. QED  BY <1>2, <1>5, <1>7, <1>8, <1>9, Sent

\* A cancel, a teardown or an answer of the service.
LEMMA OutsideStep ==
    ASSUME ChunkInv, (\E c \in Cancels : Cancel(c)) \/ Teardown \/ Reply
    PROVE  ChunkInv'
<1>1. /\ UpTypes /\ ControlTypes /\ NodeTypes /\ SpanTypes /\ OutType
      /\ Infinity \in Nat /\ MaxControls \in Nat
  BY Facts, ChunkAssumption
<1>2. UNCHANGED <<given, stamp, closed, inbox, pc, waiting, held, watermark, killed, current,
                  session, pending, connected, requests, replies, failed, out>>
  BY DEF Cancel, Teardown, Reply, upstreamVars, nodeVars, loopVars, spanVars, serviceVars
<1>3. QueuePart' /\ OrderPart'
  BY <1>2 DEF ChunkInv, QueuePart, OrderPart, After, Succeeds, Latest
<1>4. SpanPart' /\ HeldPart'
  BY <1>2 DEF ChunkInv, SpanPart, HeldPart, Opened, Live
<1>5. DuePart'
  BY <1>2 DEF ChunkInv, DuePart, Live, Done, Continues, Latest
<1>6. RestPart'
  BY <1>2 DEF ChunkInv, RestPart, Opened, Live, Resumes, Latest
<1>7. UpTypes' /\ NodeTypes' /\ OutType'
  BY <1>1, <1>2 DEF UpTypes, NodeTypes, OutType
<1>8. ready' \in Nat /\ ready' <= Len(requests)
  <2>1. ready \in Nat /\ ready <= Len(requests) /\ Len(requests) \in Nat
    BY <1>1 DEF SpanTypes, ChunkInv, FifoPart
  <2>2. ready' = ready \/ (ready < Len(requests) /\ ready' = ready + 1)
    BY DEF Cancel, Teardown, Reply, nodeVars, serviceVars
  <2>. QED  BY <2>1, <2>2
<1>9. SpanTypes' /\ FifoPart'
  BY <1>1, <1>2, <1>8 DEF SpanTypes, ChunkInv, FifoPart
<1>10. ControlTypes' /\ ControlPart'
  <2>. DEFINE C == Cancels \cup {Infinity, Kill}
  <2>1. control \in Seq(C) /\ controls \in Nat
    BY <1>1 DEF ControlTypes
  <2>2. DOMAIN control = 1..Len(control) /\ Len(control) \in Nat
    BY <2>1
  <2>3. ControlPart /\ Infinity \in C /\ Kill \in C /\ Cancels \subseteq C
    BY DEF ChunkInv
  <2>4. \A c \in Cancels : c # Kill
    BY ChunkAssumption
  <2>. HIDE DEF C
  <2>5. CASE Reply
    <3>1. control' = control /\ controls' = controls
      BY <2>5 DEF Reply
    <3>. QED  BY <3>1, <1>1, <1>2 DEF ControlTypes, ControlPart, ChunkInv
  <2>6. ASSUME NEW c \in Cancels, Cancel(c) PROVE ControlTypes' /\ ControlPart'
    <3>1. control' = Append(control, c) /\ controls' = controls + 1
      BY <2>6 DEF Cancel
    <3>2. /\ control' \in Seq(C) /\ DOMAIN control' = 1..(Len(control) + 1)
          /\ control'[Len(control) + 1] = c
          /\ \A i \in 1..Len(control) : control'[i] = control[i]
      BY <3>1, <2>1, <2>3, AppendAt
    <3>3. ControlTypes'
      BY <3>1, <3>2, <2>1, <1>1, <1>2 DEF ControlTypes, C
    <3>4. ControlPart'
      BY <3>2, <2>2, <2>3, <2>4, <1>2 DEF ControlPart
    <3>. QED  BY <3>3, <3>4
  <2>7. CASE Teardown
    <3>1. control' = control \o <<Infinity, Kill>> /\ controls' = MaxControls + 1
      BY <2>7 DEF Teardown
    <3>2. <<Infinity, Kill>> \in Seq(C) /\ Len(<<Infinity, Kill>>) = 2
      BY <2>3
    <3>3. /\ control' \in Seq(C) /\ Len(control') = Len(control) + 2
          /\ \A i \in 1..Len(control) : control'[i] = control[i]
          /\ control'[Len(control) + 1] = Infinity
          /\ control'[Len(control) + 2] = Kill
      BY <3>1, <3>2, <2>1, <2>2
    <3>4. DOMAIN control' = 1..(Len(control) + 2)
      BY <3>3
    <3>5. ControlTypes'
      BY <3>1, <3>3, <1>1, <1>2 DEF ControlTypes, C
    <3>6. ASSUME NEW i \in DOMAIN control', control'[i] = Kill
          PROVE  watermark' >= Infinity \/ (i > 1 /\ control'[i - 1] = Infinity)
      <4>1. Infinity # Kill
        BY <1>1, ChunkAssumption
      <4>2. CASE i \in 1..Len(control)
        BY <3>3, <3>4, <3>6, <4>2, <2>2, <2>3, <1>2 DEF ControlPart
      <4>3. CASE i = Len(control) + 2
        BY <3>3, <4>3, <2>2
      <4>. QED  BY <3>3, <3>4, <3>6, <4>1, <4>2, <4>3, <2>2
    <3>. QED  BY <3>5, <3>6, <2>3, <1>2 DEF ControlPart
  <2>. QED  BY <2>5, <2>6, <2>7
<1>. QED
  BY <1>3, <1>4, <1>5, <1>6, <1>7, <1>9, <1>10, TypesNext DEF ChunkInv, Types

-------------------------------------------------------------------------------
(* What the node's steps have in common.                                     *)

\* A stream that may stand behind the inbox: what comes is not older.
Placed(x) ==
    /\ x <= Latest
    /\ \A i \in DOMAIN inbox :
         x <= inbox[i].stream /\ (inbox[i].kind = "SoS" => x < inbox[i].stream)

\* The open envelope's stream.
LEMMA LiveFacts ==
    ASSUME ChunkInv, Opened
    PROVE  /\ Len(out) \in DOMAIN out /\ Live \in DOMAIN stamp /\ Live \in DOMAIN given
           /\ Live \in Nat /\ Live \in Streams /\ Placed(Live) /\ given[Live] \in 0..MaxInputs
<1>1. /\ DOMAIN given = 1..Latest /\ DOMAIN stamp = 1..Latest
      /\ DOMAIN out = 1..Len(out) /\ Len(out) \in Nat
      /\ \A k \in DOMAIN out : out[k].stream \in Nat /\ out[k].stream \in DOMAIN stamp
      /\ Latest \in Nat /\ MaxStreams \in Nat /\ UpTypes
  BY Facts
<1>2. Len(out) \in DOMAIN out
  BY <1>1 DEF Opened
<1>3. Live \in DOMAIN stamp /\ Live \in Nat
  BY <1>1, <1>2 DEF Live
<1>4. Placed(Live)
  BY <1>2 DEF ChunkInv, OrderPart, Placed, Live
<1>5. Live \in Streams
  BY <1>1, <1>3 DEF ChunkInv, QueuePart, Streams
<1>6. given[Live] \in 0..MaxInputs
  <2>1. given \in Seq(0..MaxInputs) /\ Live \in DOMAIN given
    BY <1>1, <1>3 DEF UpTypes
  <2>. QED  BY <2>1, EntryType
<1>. QED  BY <1>1, <1>2, <1>3, <1>4, <1>5, <1>6

\* The numbers of a live stream.
LEMMA DueNumbers ==
    ASSUME ChunkInv
    PROVE  /\ Len(pending) \in Nat /\ \A s : Done(s) \in Nat
           /\ DOMAIN pending = 1..Len(pending)
<1>1. Len(pending) \in Nat /\ DOMAIN pending = 1..Len(pending)
  BY Facts DEF SpanTypes
<1>2. ASSUME NEW s PROVE Done(s) \in Nat
  <2>1. IsFiniteSet(DOMAIN out)
    <3>1. DOMAIN out = 1..Len(out) /\ Len(out) \in Nat
      BY Facts
    <3>. QED  BY <3>1, FS_Interval
  <2>2. IsFiniteSet(ChunksIn(out, s))
    BY <2>1, FS_Subset DEF ChunksIn
  <2>. QED  BY <2>2, FS_CardinalityType DEF Done
<1>. QED  BY <1>1, <1>2

\* A kill is read after teardown's cancel: then every stream is void.
LEMMA KilledIsVoid ==
    ASSUME ChunkInv, killed
    PROVE  current = None /\ \A s \in DOMAIN stamp : stamp[s] < watermark
<1>1. /\ watermark >= Infinity /\ watermark \in Nat /\ Infinity \in Nat
      /\ \A s \in DOMAIN stamp : stamp[s] \in Nat /\ stamp[s] < Infinity
  BY Facts DEF ChunkInv, ControlPart, ControlTypes
<1>2. \A s \in DOMAIN stamp : stamp[s] < watermark
  BY <1>1
<1>3. ASSUME current # None PROVE FALSE
  <2>1. Opened /\ current = stamp[Live] /\ current >= watermark
    BY <1>3 DEF ChunkInv, SpanPart
  <2>. QED  BY <2>1, <1>1, <1>2, LiveFacts
<1>. QED  BY <1>2, <1>3

\* The poll's answer says that the span is gone.
LEMMA VoidedHasNoSpan == ASSUME ChunkInv, Voided PROVE current = None
  BY KilledIsVoid DEF Voided

\* With a span, only its stream can go on.
LEMMA OnlyLiveResumes ==
    ASSUME ChunkInv, current # None, pc # "exited", NEW s, Resumes(s)
    PROVE  pc # "finish" /\ s = Live
<1>1. pc # "finish"
  <2>1. closed \in BOOLEAN
    BY Facts DEF UpTypes
  <2>. QED  BY <2>1 DEF Resumes, ChunkInv, HeldPart
<1>2. PICK k : Continues(Live, k)
  BY <1>1, Facts DEF ChunkInv, DuePart, Busy, NodeTypes
<1>. QED  BY <1>1, <1>2 DEF Continues, Succeeds, Resumes

\* Upstream and the inbox are left alone.
LEMMA InboxKept ==
    ASSUME ChunkInv, UNCHANGED <<given, stamp, closed, inbox>>
    PROVE  /\ UpTypes' /\ QueuePart' /\ Latest' = Latest
           /\ \A s : Resumes(s)' = Resumes(s)
           /\ \A s, k : Continues(s, k)' = Continues(s, k)
           /\ \A x : Placed(x) => Placed(x)'
<1>1. UpTypes
  BY Facts
<1>2. UpTypes'
  BY <1>1 DEF UpTypes
<1>3. QueuePart' /\ Latest' = Latest
  BY DEF ChunkInv, QueuePart, After, Succeeds, Latest
<1>4. \A s : Resumes(s)' = Resumes(s)
  BY DEF Resumes, Latest
<1>5. \A s, k : Continues(s, k)' = Continues(s, k)
  BY DEF Continues, Succeeds, Latest
<1>6. \A x : Placed(x) => Placed(x)'
  BY DEF Placed, Latest
<1>. QED  BY <1>2, <1>3, <1>4, <1>5, <1>6

\* The message at the head of the inbox is taken.
LEMMA InboxTaken ==
    ASSUME ChunkInv, inbox # <<>>, inbox' = Tail(inbox), UNCHANGED <<given, stamp, closed>>,
           NEW m, m = Got
    PROVE  /\ UpTypes' /\ QueuePart' /\ Latest' = Latest
           /\ m \in Message /\ m.stream \in DOMAIN stamp
           /\ m.stream \in Nat /\ m.input \in Nat
           /\ m.input <= given[m.stream]
           /\ (m.kind = "chunk") = (m.input # 0)
           /\ Placed(m.stream)' /\ \A x \in Nat : Placed(x) => Placed(x)'
           /\ m.kind = "SoS" => /\ \A k \in DOMAIN out : out[k].stream < m.stream
                                /\ m.stream \notin failed
           /\ m.kind # "EoS" => Continues(m.stream, m.input)'
           /\ m.kind = "EoS" => IF inbox' = <<>> THEN closed' ELSE inbox'[1].kind = "SoS"
           /\ \A s : Resumes(s)' => s = m.stream /\ m.kind # "EoS"
<1>. DEFINE n == Len(inbox)
<1>1. /\ UpTypes /\ DOMAIN given = 1..Latest /\ DOMAIN stamp = 1..Latest /\ Latest \in Nat
      /\ MaxStreams \in Nat
  BY Facts
<1>2. /\ DOMAIN inbox = 1..n /\ n \in Nat \ {0} /\ m = inbox[1] /\ m \in Message
      /\ inbox' \in Seq(Message) /\ DOMAIN inbox' = 1..(n - 1) /\ Len(inbox') = n - 1
      /\ \A i \in 1..(n - 1) : inbox'[i] = inbox[i + 1]
  BY <1>1, TailAt DEF UpTypes, Got
<1>3. /\ 1 \in DOMAIN inbox /\ n \in DOMAIN inbox
      /\ \A i \in DOMAIN inbox' : /\ i \in Nat /\ i \in DOMAIN inbox /\ i + 1 \in DOMAIN inbox
                                  /\ 1 < i + 1 /\ inbox'[i] = inbox[i + 1]
  BY <1>2
<1>4. /\ inbox' = <<>> => n = 1
      /\ inbox' # <<>> => /\ 2 \in DOMAIN inbox /\ inbox'[1] = inbox[2] /\ 1 + 1 = 2
                          /\ inbox'[Len(inbox')] = inbox[n]
  <2>1. CASE n = 1
    BY <2>1, <1>2
  <2>2. CASE n # 1
    <3>1. inbox' # <<>> /\ 2 \in 1..n /\ 1 \in 1..(n - 1) /\ n - 1 \in 1..(n - 1)
      <4>1. n \in Nat \ {0} /\ Len(inbox') = n - 1 /\ Len(<<>>) = 0
        BY <1>2
      <4>. HIDE DEF n
      <4>2. n - 1 # 0 /\ 2 \in 1..n /\ 1 \in 1..(n - 1) /\ n - 1 \in 1..(n - 1)
        BY <2>2, <4>1
      <4>. QED  BY <4>1, <4>2
    <3>2. inbox'[1] = inbox[1 + 1] /\ inbox'[n - 1] = inbox[(n - 1) + 1]
      BY <3>1, <1>2
    <3>3. 1 + 1 = 2 /\ (n - 1) + 1 = n
      BY <1>2
    <3>. HIDE DEF n
    <3>. QED  BY <3>1, <3>2, <3>3, <1>2
  <2>. QED  BY <2>1, <2>2
<1>. m = inbox[1]
  BY <1>2
<1>5. \A x \in Message : x.stream \in 1..MaxStreams /\ x.stream \in Nat /\ x.input \in Nat
  BY <1>1, Facts DEF Message, Streams
<1>6. /\ QueuePart /\ OrderPart
      /\ m.stream <= Latest /\ m.stream \in DOMAIN stamp /\ m.stream \in Nat
      /\ m.input \in Nat /\ m.input <= given[m.stream]
      /\ (m.kind = "chunk") = (m.input # 0)
  BY <1>1, <1>2, <1>3, <1>5 DEF ChunkInv, QueuePart, OrderPart
<1>7. UpTypes' /\ Latest' = Latest
  BY <1>1, <1>2 DEF UpTypes, Latest
<1>. HIDE DEF n
<1>8. QueuePart'
  <2>1. ASSUME NEW i \in DOMAIN inbox', i + 1 \in DOMAIN inbox'
        PROVE  After(given'[inbox'[i].stream], inbox'[i], inbox'[i + 1])
    BY <2>1, <1>3, <1>6 DEF QueuePart
  <2>2. inbox' # <<>> =>
          /\ inbox'[Len(inbox')].stream = Latest
          /\ closed = (inbox'[Len(inbox')].kind = "EoS")
          /\ inbox'[Len(inbox')].kind # "EoS" => given[Latest] = inbox'[Len(inbox')].input
    BY <1>4, <1>6 DEF QueuePart, n
  <2>3. \A i \in DOMAIN inbox' : /\ inbox'[i].input <= given[inbox'[i].stream]
                                 /\ (inbox'[i].kind = "chunk") = (inbox'[i].input # 0)
    BY <1>3, <1>6 DEF QueuePart
  <2>4. /\ Latest <= MaxStreams /\ (~closed => Latest # 0)
        /\ \A i \in DOMAIN stamp : i + 1 \in DOMAIN stamp => stamp[i] <= stamp[i + 1]
    BY <1>6 DEF QueuePart
  <2>. QED  BY <2>1, <2>2, <2>3, <2>4, <1>7 DEF QueuePart
<1>9. \A i \in DOMAIN inbox' : /\ m.stream <= inbox'[i].stream
                               /\ inbox'[i].kind = "SoS" => m.stream < inbox'[i].stream
  BY <1>3, <1>6 DEF OrderPart
<1>10. Placed(m.stream)' /\ \A x \in Nat : Placed(x) => Placed(x)'
  <2>1. Placed(m.stream)'
    BY <1>6, <1>7, <1>9 DEF Placed
  <2>2. ASSUME NEW x \in Nat, Placed(x) PROVE Placed(x)'
    <3>1. x <= Latest' /\ \A i \in DOMAIN inbox :
              x <= inbox[i].stream /\ (inbox[i].kind = "SoS" => x < inbox[i].stream)
      BY <2>2, <1>7 DEF Placed
    <3>. QED  BY <3>1, <1>3 DEF Placed
  <2>. QED  BY <2>1, <2>2
<1>11. m.kind = "SoS" => /\ \A k \in DOMAIN out : out[k].stream < m.stream
                         /\ m.stream \notin failed
  <2>1. m.kind = "SoS" => \A f \in failed : f < m.stream
    BY <1>3, <1>6 DEF OrderPart
  <2>. QED  BY <2>1, <1>3, <1>6 DEF OrderPart
<1>12. closed \in BOOLEAN
  BY <1>1 DEF UpTypes
<1>13. CASE inbox' = <<>>
  <2>1. /\ m.stream = Latest /\ closed = (m.kind = "EoS")
        /\ m.kind # "EoS" => given[Latest] = m.input
    BY <1>4, <1>6, <1>13 DEF QueuePart, n
  <2>2. m.kind # "EoS" => Continues(m.stream, m.input)'
    BY <2>1, <1>7, <1>12, <1>13 DEF Continues
  <2>3. \A s : Resumes(s)' => s = m.stream /\ m.kind # "EoS"
    BY <2>1, <1>7, <1>12, <1>13 DEF Resumes
  <2>4. m.kind = "EoS" => closed'
    BY <2>1, <1>12
  <2>. QED  BY <2>2, <2>3, <2>4, <1>2, <1>6, <1>7, <1>8, <1>10, <1>11, <1>13
<1>14. CASE inbox' # <<>>
  <2>1. After(given[m.stream], m, inbox'[1])
    BY <1>3, <1>4, <1>6, <1>14 DEF QueuePart
  <2>2. m.kind # "EoS" => Continues(m.stream, m.input)'
    BY <2>1, <1>14 DEF Continues, After
  <2>3. \A s : Resumes(s)' => s = m.stream /\ m.kind # "EoS"
    BY <2>1, <1>14 DEF Resumes, After, Succeeds
  <2>4. m.kind = "EoS" => inbox'[1].kind = "SoS"
    BY <2>1 DEF After
  <2>. QED  BY <2>2, <2>3, <2>4, <1>2, <1>6, <1>7, <1>8, <1>10, <1>11, <1>14
<1>. QED  BY <1>13, <1>14

\* The order, when one stream is new in the output or among those that failed.
LEMMA Ordered ==
    ASSUME ChunkInv, QueuePart', Latest' = Latest,
           \/ inbox' = inbox
           \/ inbox # <<>> /\ inbox' = Tail(inbox),
           NEW x \in Nat, Placed(x)',
           \A k \in DOMAIN out' :
               out'[k].stream = x \/ (k \in DOMAIN out /\ out'[k].stream = out[k].stream),
           \A f \in failed' : f = x \/ f \in failed
    PROVE  OrderPart'
<1>1. /\ UpTypes /\ OrderPart
      /\ DOMAIN inbox = 1..Len(inbox) /\ Len(inbox) \in Nat
  BY Facts DEF UpTypes, ChunkInv
<1>2. ASSUME NEW i \in DOMAIN inbox', NEW j \in DOMAIN inbox'
      PROVE  \E a, b \in DOMAIN inbox :
                inbox'[i] = inbox[a] /\ inbox'[j] = inbox[b] /\ (i < j => a < b)
  <2>1. CASE inbox' = inbox
    BY <2>1
  <2>2. CASE inbox # <<>> /\ inbox' = Tail(inbox)
    <3>1. /\ DOMAIN inbox' = 1..(Len(inbox) - 1)
          /\ \A k \in 1..(Len(inbox) - 1) : inbox'[k] = inbox[k + 1]
      BY <2>2, <1>1, TailAt DEF UpTypes
    <3>2. i + 1 \in DOMAIN inbox /\ j + 1 \in DOMAIN inbox /\ (i < j => i + 1 < j + 1)
      BY <3>1, <1>1
    <3>. QED  BY <3>1, <3>2
  <2>. QED  BY <2>1, <2>2
<1>3. ASSUME NEW i \in DOMAIN inbox', NEW j \in DOMAIN inbox', i < j
      PROVE  /\ inbox'[i].stream <= inbox'[j].stream
             /\ inbox'[j].kind = "SoS" => inbox'[i].stream < inbox'[j].stream
  BY <1>1, <1>2, <1>3 DEF OrderPart
<1>4. ASSUME NEW i \in DOMAIN inbox'
      PROVE  /\ inbox'[i].stream <= Latest
             /\ \A k \in DOMAIN out' :
                  /\ out'[k].stream <= inbox'[i].stream
                  /\ inbox'[i].kind = "SoS" => out'[k].stream < inbox'[i].stream
             /\ \A f \in failed' : inbox'[i].kind = "SoS" => f < inbox'[i].stream
  <2>1. PICK a \in DOMAIN inbox : inbox'[i] = inbox[a]
    BY <1>2
  <2>2. inbox'[i].stream <= Latest
    BY <2>1, <1>1 DEF OrderPart
  <2>3. x <= inbox'[i].stream /\ (inbox'[i].kind = "SoS" => x < inbox'[i].stream)
    BY DEF Placed
  <2>4. \A k \in DOMAIN out : /\ out[k].stream <= inbox'[i].stream
                              /\ inbox'[i].kind = "SoS" => out[k].stream < inbox'[i].stream
    BY <2>1, <1>1 DEF OrderPart
  <2>5. \A f \in failed : inbox'[i].kind = "SoS" => f < inbox'[i].stream
    BY <2>1, <1>1 DEF OrderPart
  <2>. QED  BY <2>2, <2>3, <2>4, <2>5
<1>5. /\ \A k \in DOMAIN out' : out'[k].stream <= Latest
      /\ \A f \in failed' : f <= Latest
  <2>1. x <= Latest
    BY DEF Placed
  <2>. QED  BY <2>1, <1>1 DEF OrderPart
<1>. QED  BY <1>3, <1>4, <1>5 DEF OrderPart

\* A stream that nothing is of is placed anywhere.
LEMMA NoStream == ASSUME ChunkInv PROVE Placed(0)
<1>1. UpTypes /\ Latest \in Nat
  BY Facts
<1>2. \A i \in DOMAIN inbox : inbox[i].stream \in Nat \ {0}
  <2>1. \A i \in DOMAIN inbox : inbox[i] \in Message
    BY <1>1 DEF UpTypes
  <2>. QED  BY <2>1, Facts DEF Message, Streams
<1>. QED  BY <1>1, <1>2 DEF Placed

\* The session is aborted: nothing is owed.
LEMMA Aborted ==
    ASSUME ChunkInv, Abort, replies' = <<>>, pc' # "emit"
    PROVE  current' = None /\ SpanTypes' /\ FifoPart' /\ SpanPart' /\ DuePart'
<1>1. /\ current' = None /\ session' = None /\ pending' = <<>> /\ requests' = <<>>
      /\ ready' = 0 /\ connected' = FALSE
  BY DEF Abort, Disconnect
<1>2. FifoPart'
  <2>1. <<>> = <<>> \o <<>> /\ 0 <= Len(<<>>)
    OBVIOUS
  <2>. QED  BY <2>1, <1>1 DEF FifoPart
<1>3. SpanTypes'
  <2>1. <<>> \in Seq(Request) /\ 0 \in Nat
    OBVIOUS
  <2>. QED  BY <2>1, <1>1 DEF SpanTypes
<1>4. SpanPart' /\ DuePart'
  BY <1>1 DEF SpanPart, DuePart
<1>. QED  BY <1>1, <1>2, <1>3, <1>4

\* The control queue and the watermark are left alone.
LEMMA ControlKept ==
    ASSUME ChunkInv, UNCHANGED <<control, controls, watermark, killed>>
    PROVE  ControlTypes' /\ ControlPart'
<1>1. ControlTypes /\ ControlPart
  BY Facts DEF ChunkInv
<1>. QED  BY <1>1 DEF ControlTypes, ControlPart

\* Back at the top of the loop nothing is in hand.
LEMMA Returned ==
    ASSUME ChunkInv, Return, failed' \in SUBSET Streams
    PROVE  /\ NodeTypes' /\ HeldPart' /\ ControlTypes' /\ ControlPart'
           /\ pc' = "top" /\ replies' = <<>> /\ watermark' = watermark
           /\ UNCHANGED <<given, stamp, closed>>
<1>1. /\ pc' = "top" /\ held' = None /\ replies' = <<>> /\ waiting' \in BOOLEAN
      /\ UNCHANGED <<given, stamp, closed, control, controls, watermark, killed>>
  BY DEF Return, upstreamVars, loopVars
<1>2. NodeTypes' /\ HeldPart'
  BY <1>1 DEF NodeTypes, HeldPart
<1>. QED  BY <1>1, <1>2, ControlKept

\* The span is left alone.
LEMMA SpanKept ==
    ASSUME ChunkInv, UNCHANGED <<spanVars, serviceVars>>, replies' = replies,
           pc' # "emit" => replies = <<>>
    PROVE  /\ SpanTypes' /\ FifoPart'
           /\ UNCHANGED <<current, session, pending, connected, requests, ready>>
<1>1. UNCHANGED <<current, session, pending, connected, requests, ready>>
  BY DEF spanVars, serviceVars
<1>2. SpanTypes /\ FifoPart
  BY Facts DEF ChunkInv
<1>. QED  BY <1>1, <1>2 DEF SpanTypes, FifoPart

\* Without a span, what has failed or is void stays so.
LEMMA RestKept ==
    ASSUME ChunkInv, current = None, UNCHANGED <<given, stamp, closed, inbox, out>>,
           failed \subseteq failed', watermark' \in Nat, watermark <= watermark'
    PROVE  RestPart'
<1>1. /\ watermark \in Nat /\ RestPart
      /\ \A s \in DOMAIN stamp : stamp[s] \in Nat
  BY Facts DEF ControlTypes, ChunkInv
<1>2. \A s : Resumes(s)' = Resumes(s)
  BY InboxKept
<1>3. ASSUME NEW s \in DOMAIN stamp, Resumes(s)', stamp[s] >= watermark'
      PROVE  Opened /\ s = Live /\ s \in failed'
  <2>1. Resumes(s)
    BY <1>2, <1>3
  <2>2. stamp[s] >= watermark
    BY <1>1, <1>3
  <2>. QED  BY <2>1, <2>2, <1>1 DEF RestPart
<1>4. Opened' = Opened /\ Live' = Live
  BY DEF Opened, Live
<1>. QED  BY <1>3, <1>4 DEF RestPart

\* The order, when only the inbox may have lost its head.
LEMMA OrderKept ==
    ASSUME ChunkInv, UNCHANGED <<given, stamp, closed, out, failed>>,
           inbox' = inbox \/ (inbox # <<>> /\ inbox' = Tail(inbox))
    PROVE  OrderPart'
<1>1. QueuePart' /\ Latest' = Latest /\ Placed(0)'
  <2>1. Placed(0) /\ 0 \in Nat
    BY NoStream
  <2>2. CASE inbox' = inbox
    BY <2>1, <2>2, InboxKept
  <2>3. CASE inbox # <<>> /\ inbox' = Tail(inbox)
    <3>1. PICK m : m = Got
      OBVIOUS
    <3>. QED  BY <2>1, <2>3, <3>1, InboxTaken
  <2>. QED  BY <2>2, <2>3
<1>. QED  BY <1>1, Ordered

-------------------------------------------------------------------------------
(* The control queue is read.                                                *)

LEMMA ReadCancelStep == ASSUME ChunkInv, ReadCancel PROVE ChunkInv'
<1>1. /\ UpTypes /\ ControlTypes /\ NodeTypes /\ SpanTypes /\ OutType
      /\ \A s \in DOMAIN stamp : stamp[s] \in Nat
      /\ Infinity \in Nat /\ None \notin Nat
  BY Facts
<1>2. /\ control # <<>> /\ Head(control) # Kill /\ control' = Tail(control)
      /\ watermark' = Larger(watermark, Head(control))
      /\ waiting' \in BOOLEAN /\ pc \notin {"emit", "exited"}
      /\ UNCHANGED <<given, stamp, closed, inbox, controls, pc, held, killed, replies,
                     failed, out>>
  BY DEF ReadCancel, Polls, upstreamVars
<1>3. /\ ControlTypes' /\ ControlPart'
      /\ watermark' \in Nat /\ watermark <= watermark'
  <2>1. control \in Seq(Cancels \cup {Infinity, Kill}) /\ watermark \in Nat
    BY <1>1 DEF ControlTypes
  <2>2. /\ DOMAIN control = 1..Len(control) /\ Len(control) \in Nat \ {0}
        /\ Head(control) = control[1] /\ control[1] \in Cancels \cup {Infinity, Kill}
        /\ control' \in Seq(Cancels \cup {Infinity, Kill})
        /\ DOMAIN control' = 1..(Len(control) - 1)
        /\ \A i \in 1..(Len(control) - 1) : control'[i] = control[i + 1]
    BY <2>1, <1>2, TailAt
  <2>3. Head(control) \in Nat /\ Head(control) = control[1]
    BY <2>2, <1>2, ChunkAssumption
  <2>4. watermark' \in Nat /\ watermark <= watermark' /\ Head(control) <= watermark'
    BY <2>1, <2>3, <1>2 DEF Larger
  <2>5. ControlTypes'
    BY <2>2, <2>4, <1>1, <1>2 DEF ControlTypes
  <2>6. ASSUME NEW i \in DOMAIN control', control'[i] = Kill
        PROVE  watermark' >= Infinity \/ (i > 1 /\ control'[i - 1] = Infinity)
    <3>1. i \in Nat /\ i + 1 \in DOMAIN control /\ control[i + 1] = Kill /\ i + 1 > 1
          /\ (i + 1) - 1 = i
      BY <2>2, <2>6
    <3>2. watermark >= Infinity \/ control[i] = Infinity
      BY <3>1 DEF ChunkInv, ControlPart
    <3>3. CASE watermark >= Infinity
      BY <3>3, <2>1, <2>4, <1>1
    <3>4. CASE control[i] = Infinity /\ i = 1
      BY <3>4, <2>3, <2>4, <1>1
    <3>5. CASE control[i] = Infinity /\ i # 1
      <4>1. i > 1 /\ i - 1 \in 1..(Len(control) - 1) /\ (i - 1) + 1 = i
        BY <3>1, <3>5, <2>2
      <4>. QED  BY <4>1, <3>5, <2>2
    <3>. QED  BY <3>2, <3>3, <3>4, <3>5
  <2>7. killed' => watermark' >= Infinity
    BY <2>1, <2>4, <1>1, <1>2 DEF ChunkInv, ControlPart
  <2>. QED  BY <2>4, <2>5, <2>6, <2>7 DEF ControlPart
<1>4. UpTypes' /\ QueuePart' /\ \A s : Resumes(s)' = Resumes(s)
  BY <1>2, InboxKept
<1>5. NodeTypes' /\ OutType' /\ OrderPart'
  <2>1. NodeTypes' /\ OutType'
    BY <1>1, <1>2 DEF NodeTypes, OutType
  <2>. QED  BY <2>1, <1>2, OrderKept
<1>6. /\ Opened' = Opened /\ Live' = Live /\ replies = <<>>
      /\ DuePart /\ SpanPart /\ HeldPart /\ RestPart
      /\ watermark \in Nat /\ current \in Nat \cup {None}
  <2>1. Opened' = Opened /\ Live' = Live
    BY <1>2 DEF Opened, Live
  <2>2. current \in Nat \cup {None}
    BY <1>1, ChunkAssumption DEF SpanTypes
  <2>. QED  BY <2>1, <2>2, <1>1, <1>2 DEF ChunkInv, FifoPart, ControlTypes
<1>7. CASE current # None /\ current < watermark'
  <2>1. Abort
    BY <1>7 DEF ReadCancel
  <2>2. current' = None /\ SpanTypes' /\ FifoPart' /\ SpanPart' /\ DuePart'
    BY <2>1, <1>2, <1>6, Aborted
  <2>3. Opened /\ current = stamp[Live]
    BY <1>6, <1>7 DEF SpanPart
  <2>4. HeldPart'
    BY <2>2, <2>3, <1>2, <1>6, <1>7 DEF HeldPart
  <2>5. \A s : ~(Resumes(s)' /\ stamp'[s] >= watermark')
    <3>1. \A s : Resumes(s) => s = Live
      BY <1>2, <1>7, OnlyLiveResumes
    <3>2. ~(stamp[Live] >= watermark')
      BY <2>3, <1>3, <1>6, <1>7
    <3>. QED  BY <3>1, <3>2, <1>2, <1>4
  <2>6. RestPart'
    BY <2>5 DEF RestPart
  <2>. QED
    BY <2>2, <2>4, <2>6, <1>3, <1>4, <1>5, TypesNext DEF ChunkInv, Types
<1>8. CASE ~(current # None /\ current < watermark')
  <2>1. UNCHANGED <<spanVars, serviceVars>>
    BY <1>8 DEF ReadCancel
  <2>2. /\ SpanTypes' /\ FifoPart'
        /\ UNCHANGED <<current, session, pending, connected, requests, ready>>
    BY <2>1, <1>2, <1>6, SpanKept
  <2>3. SpanPart'
    <3>1. current # None => current >= watermark'
      BY <1>3, <1>6, <1>8
    <3>. QED  BY <3>1, <2>2, <1>2, <1>6 DEF SpanPart
  <2>4. HeldPart'
    <3>1. ASSUME pc \notin {"top", "exited"}, current = None
          PROVE  stamp[Live] < watermark'
      <4>1. Opened /\ stamp[Live] < watermark
        BY <3>1, <1>6 DEF HeldPart
      <4>2. stamp[Live] \in Nat
        BY <4>1, <1>1, LiveFacts
      <4>. QED  BY <4>1, <4>2, <1>3, <1>6
    <3>. QED  BY <3>1, <2>2, <1>2, <1>6 DEF HeldPart
  <2>5. DuePart'
    <3>1. \A s, k : Continues(s, k)' = Continues(s, k)
      BY <1>2, InboxKept
    <3>2. \A s : Done(s)' = Done(s)
      BY <1>2 DEF Done
    <3>. QED  BY <3>1, <3>2, <2>2, <1>2, <1>6 DEF DuePart, Continues, Done
  <2>6. RestPart'
    BY <2>2, <1>2, <1>3, RestKept DEF RestPart
  <2>. QED
    BY <2>2, <2>3, <2>4, <2>5, <2>6, <1>3, <1>4, <1>5, TypesNext DEF ChunkInv, Types
<1>. QED  BY <1>7, <1>8

LEMMA ReadKillStep == ASSUME ChunkInv, ReadKill PROVE ChunkInv'
<1>1. /\ UpTypes /\ ControlTypes /\ NodeTypes /\ SpanTypes /\ OutType /\ Infinity \in Nat
  BY Facts
<1>2. /\ control # <<>> /\ Head(control) = Kill /\ control' = Tail(control)
      /\ killed' = TRUE /\ waiting' = FALSE /\ UNCHANGED <<spanVars, serviceVars>>
      /\ UNCHANGED <<given, stamp, closed, inbox, controls, pc, held, watermark, replies,
                     failed, out>>
  BY DEF ReadKill, upstreamVars
<1>3. ControlTypes' /\ ControlPart' /\ watermark >= Infinity
  <2>1. control \in Seq(Cancels \cup {Infinity, Kill}) /\ watermark \in Nat
    BY <1>1 DEF ControlTypes
  <2>2. /\ DOMAIN control = 1..Len(control) /\ Len(control) \in Nat \ {0}
        /\ control[1] = Kill
        /\ control' \in Seq(Cancels \cup {Infinity, Kill})
    BY <2>1, <1>2, TailAt
  <2>3. watermark >= Infinity
    <3>1. 1 \in DOMAIN control /\ ~(1 > 1)
      BY <2>2
    <3>. QED  BY <3>1, <2>2 DEF ChunkInv, ControlPart
  <2>4. ControlTypes'
    BY <2>2, <1>1, <1>2 DEF ControlTypes
  <2>. QED  BY <2>3, <2>4, <1>2 DEF ControlPart
<1>4. UpTypes' /\ QueuePart' /\ \A s : Resumes(s)' = Resumes(s)
  BY <1>2, InboxKept
<1>5. NodeTypes' /\ OutType' /\ OrderPart'
  <2>1. NodeTypes' /\ OutType'
    BY <1>1, <1>2 DEF NodeTypes, OutType
  <2>. QED  BY <2>1, <1>2, OrderKept
<1>6. /\ Opened' = Opened /\ Live' = Live /\ (pc # "emit" => replies = <<>>)
      /\ DuePart /\ SpanPart /\ HeldPart /\ watermark \in Nat
  BY <1>1, <1>2 DEF Opened, Live, ChunkInv, FifoPart, ControlTypes
<1>7. /\ SpanTypes' /\ FifoPart'
      /\ UNCHANGED <<current, session, pending, connected, requests, ready>>
  BY <1>2, <1>6, SpanKept
<1>8. SpanPart' /\ HeldPart'
  BY <1>2, <1>6, <1>7 DEF SpanPart, HeldPart
<1>9. DuePart'
  BY <1>2, <1>6, <1>7, InboxKept DEF DuePart, Continues, Done
<1>10. RestPart'
  BY <1>2, <1>6, <1>7, RestKept DEF RestPart
<1>. QED
  BY <1>3, <1>4, <1>5, <1>7, <1>8, <1>9, <1>10, TypesNext DEF ChunkInv, Types

LEMMA ExitStep == ASSUME ChunkInv, Exit PROVE ChunkInv'
<1>1. /\ UpTypes /\ NodeTypes /\ OutType /\ watermark \in Nat
      /\ pc = "top" /\ killed /\ pc' = "exited" /\ Abort
      /\ UNCHANGED <<given, stamp, closed, inbox, control, controls, waiting, held,
                     watermark, killed, replies, failed, out>>
  BY Facts DEF Exit, upstreamVars, loopVars, ControlTypes
<1>2. current = None /\ held = None /\ replies = <<>>
  BY <1>1, KilledIsVoid DEF ChunkInv, HeldPart, FifoPart
<1>3. current' = None /\ SpanTypes' /\ FifoPart' /\ SpanPart' /\ DuePart'
  BY <1>1, <1>2, Aborted
<1>4. UpTypes' /\ QueuePart' /\ ControlTypes' /\ ControlPart' /\ OrderPart'
  BY <1>1, InboxKept, ControlKept, OrderKept
<1>5. NodeTypes' /\ OutType' /\ HeldPart'
  BY <1>1, <1>2 DEF NodeTypes, OutType, HeldPart
<1>6. RestPart'
  BY <1>1, <1>2, RestKept
<1>. QED  BY <1>3, <1>4, <1>5, <1>6, TypesNext DEF ChunkInv, Types

-------------------------------------------------------------------------------
(* A message is taken from the inbox.                                        *)

\* With a span, what is read at the top of the loop is not older than it.
LEMMA TopIsCurrent ==
    ASSUME ChunkInv, current # None, pc = "top", inbox # <<>>
    PROVE  /\ Succeeds(given[Live], Live, Done(Live) + Len(pending), inbox[1])
           /\ stamp[inbox[1].stream] >= watermark
<1>1. Opened /\ current = stamp[Live] /\ current >= watermark
  BY DEF ChunkInv, SpanPart
<1>2. Succeeds(given[Live], Live, Done(Live) + Len(pending), inbox[1])
  BY DEF ChunkInv, DuePart, Continues
<1>3. inbox[1] \in Message /\ 1 \in DOMAIN inbox
  BY Facts, TailAt DEF UpTypes
<1>4. inbox[1].stream = Live \/ inbox[1].stream = Live + 1
  BY <1>2 DEF Succeeds
<1>5. Live \in DOMAIN stamp /\ Live \in Nat
  BY <1>1, LiveFacts
<1>6. inbox[1].stream \in DOMAIN stamp
  <2>1. DOMAIN stamp = 1..Latest /\ Latest \in Nat
    BY Facts
  <2>2. inbox[1].stream <= Latest
    BY <1>3 DEF ChunkInv, OrderPart
  <2>. QED  BY <2>1, <2>2, <1>4, <1>5
<1>7. stamp[Live] <= stamp[inbox[1].stream]
  <2>1. stamp[Live] \in Nat
    BY <1>5, Facts
  <2>2. CASE inbox[1].stream = Live
    BY <2>1, <2>2
  <2>3. CASE inbox[1].stream = Live + 1
    BY <2>3, <1>5, <1>6 DEF ChunkInv, QueuePart
  <2>. QED  BY <1>4, <2>2, <2>3
<1>8. stamp[Live] \in Nat /\ stamp[inbox[1].stream] \in Nat /\ watermark \in Nat
  BY <1>5, <1>6, Facts DEF ControlTypes
<1>. QED  BY <1>1, <1>2, <1>7, <1>8

LEMMA DiscardStep == ASSUME ChunkInv, Discard PROVE ChunkInv'
<1>1. PICK m : m = Got
  OBVIOUS
<1>2. /\ NodeTypes /\ OutType /\ watermark \in Nat
      /\ \A s \in DOMAIN stamp : stamp[s] \in Nat
      /\ pc = "top" /\ inbox # <<>> /\ stamp[m.stream] < watermark /\ inbox' = Tail(inbox)
      /\ Return /\ UNCHANGED <<spanVars, serviceVars, failed, out>>
  BY <1>1, Facts DEF Discard, ControlTypes
<1>3. /\ NodeTypes' /\ HeldPart' /\ ControlTypes' /\ ControlPart'
      /\ pc' = "top" /\ replies' = <<>> /\ watermark' = watermark
      /\ UNCHANGED <<given, stamp, closed>>
  BY <1>2, Returned DEF NodeTypes
<1>4. /\ UpTypes' /\ QueuePart' /\ m = inbox[1] /\ m.stream \in DOMAIN stamp
      /\ \A s : Resumes(s)' => s = m.stream
  <2>1. m = inbox[1]
    BY <1>1, <1>2, Facts, TailAt DEF UpTypes, Got
  <2>. QED  BY <2>1, <1>1, <1>2, <1>3, InboxTaken
<1>5. current = None
  <2>1. stamp[m.stream] \in Nat
    BY <1>2, <1>4
  <2>. QED  BY <2>1, <1>2, <1>4, TopIsCurrent
<1>6. SpanTypes' /\ FifoPart' /\ current' = None
  <2>1. replies = <<>>
    BY <1>2 DEF ChunkInv, FifoPart
  <2>. QED  BY <2>1, <1>2, <1>3, <1>5, SpanKept
<1>7. OutType' /\ OrderPart' /\ SpanPart' /\ DuePart'
  BY <1>2, <1>3, <1>6, OrderKept DEF OutType, SpanPart, DuePart
<1>8. RestPart'
  <2>1. stamp[m.stream] \in Nat
    BY <1>2, <1>4
  <2>. QED  BY <2>1, <1>2, <1>3, <1>4 DEF RestPart
<1>. QED  BY <1>3, <1>4, <1>6, <1>7, <1>8, TypesNext DEF ChunkInv, Types

LEMMA DropChunkStep == ASSUME ChunkInv, DropChunk PROVE ChunkInv'
<1>1. PICK m : m = Got
  OBVIOUS
<1>2. /\ NodeTypes /\ OutType
      /\ pc = "top" /\ inbox # <<>> /\ m.kind = "chunk" /\ stamp[m.stream] >= watermark
      /\ inbox' = Tail(inbox) /\ session = None
      /\ Return /\ UNCHANGED <<spanVars, serviceVars, failed, out>>
  BY <1>1, Facts DEF DropChunk, Take
<1>3. /\ NodeTypes' /\ HeldPart' /\ ControlTypes' /\ ControlPart'
      /\ pc' = "top" /\ replies' = <<>> /\ watermark' = watermark
      /\ UNCHANGED <<given, stamp, closed>>
  BY <1>2, Returned DEF NodeTypes
<1>4. /\ UpTypes' /\ QueuePart' /\ m = inbox[1] /\ m.stream \in DOMAIN stamp
      /\ \A s : Resumes(s)' => s = m.stream
  <2>1. m = inbox[1]
    BY <1>1, <1>2, Facts, TailAt DEF UpTypes, Got
  <2>. QED  BY <2>1, <1>1, <1>2, <1>3, InboxTaken
<1>5. current = None
  BY <1>2 DEF ChunkInv, FifoPart
<1>6. SpanTypes' /\ FifoPart' /\ current' = None
  <2>1. replies = <<>>
    BY <1>2 DEF ChunkInv, FifoPart
  <2>. QED  BY <2>1, <1>2, <1>3, <1>5, SpanKept
<1>7. OutType' /\ OrderPart' /\ SpanPart' /\ DuePart'
  BY <1>2, <1>3, <1>6, OrderKept DEF OutType, SpanPart, DuePart
<1>8. RestPart'
  <2>1. Resumes(m.stream)
    BY <1>2, <1>4 DEF Resumes
  <2>2. Opened /\ m.stream = Live /\ m.stream \in failed
    BY <2>1, <1>2, <1>4, <1>5 DEF ChunkInv, RestPart
  <2>3. Opened' = Opened /\ Live' = Live
    BY <1>2 DEF Opened, Live
  <2>. QED  BY <2>2, <2>3, <1>2, <1>3, <1>4 DEF RestPart
<1>. QED  BY <1>3, <1>4, <1>6, <1>7, <1>8, TypesNext DEF ChunkInv, Types

LEMMA EndNothingStep == ASSUME ChunkInv, EndNothing PROVE ChunkInv'
<1>1. PICK m : m = Got
  OBVIOUS
<1>2. /\ NodeTypes /\ OutType /\ MaxStreams \in Nat
      /\ pc = "top" /\ inbox # <<>> /\ m.kind = "EoS" /\ inbox' = Tail(inbox)
      /\ session = None /\ Relay("EoS", m.stream)
      /\ Return /\ UNCHANGED <<spanVars, serviceVars, failed>>
  BY <1>1, Facts DEF EndNothing, Take
<1>3. /\ NodeTypes' /\ HeldPart' /\ ControlTypes' /\ ControlPart'
      /\ pc' = "top" /\ replies' = <<>> /\ watermark' = watermark
      /\ UNCHANGED <<given, stamp, closed>>
  BY <1>2, Returned DEF NodeTypes
<1>4. /\ UpTypes' /\ QueuePart' /\ Latest' = Latest
      /\ m \in Message /\ m.stream \in Nat /\ Placed(m.stream)'
      /\ \A s : ~Resumes(s)'
  BY <1>1, <1>2, <1>3, InboxTaken
<1>5. SpanTypes' /\ FifoPart' /\ current' = None
  <2>1. replies = <<>> /\ current = None
    BY <1>2 DEF ChunkInv, FifoPart
  <2>. QED  BY <2>1, <1>2, <1>3, SpanKept
<1>6. PICK e : e = [kind |-> "EoS", stream |-> m.stream, input |-> 0, content |-> <<>>]
  OBVIOUS
<1>7. e \in Output /\ e.stream = m.stream /\ out' = Append(out, e)
  BY <1>2, <1>4, <1>6 DEF Output, Message, Relay
<1>8. /\ OutType' /\ \A k \in DOMAIN out' :
            out'[k].stream = m.stream \/ (k \in DOMAIN out /\ out'[k].stream = out[k].stream)
  BY <1>2, <1>7, AppendAt DEF OutType
<1>9. OrderPart'
  BY <1>2, <1>4, <1>8, Ordered
<1>10. SpanPart' /\ DuePart' /\ RestPart'
  BY <1>4, <1>5 DEF SpanPart, DuePart, RestPart
<1>. QED  BY <1>3, <1>4, <1>5, <1>8, <1>9, <1>10, TypesNext DEF ChunkInv, Types

\* What is due, of the stream l whose envelope is open.
DueOf(l) ==
    /\ \A k \in DOMAIN pending : pending[k] = <<l, Done(l) + k>>
    /\ pc \in Busy =>
         /\ held.input = Done(l) + Len(pending) + 1
         /\ Continues(l, Done(l) + Len(pending) + 1)
    /\ pc \in {"top", "emit"} => Continues(l, Done(l) + Len(pending))
    /\ pc = "finish" => given[l] = Done(l) + Len(pending)
    /\ Done(l) + Len(pending) <= given[l]

LEMMA DueNow == DuePart <=> (current # None => \A l : l = Live => DueOf(l))
  BY DEF DuePart, DueOf

LEMMA DueNext == DuePart' <=> (current # None => \A l : l = Live => DueOf(l))'
  BY DueNow, PTL

\* A chunk or the end of the live stream is in hand.
LEMMA Holds ==
    ASSUME ChunkInv, pc = "top", inbox # <<>>, inbox' = Tail(inbox), session # None,
           NEW m, m = Got, m.kind \in {"chunk", "EoS"},
           held' = m, waiting' = FALSE, pc' = IF m.kind = "EoS" THEN "finish" ELSE "poll",
           UNCHANGED <<upstreamVars, control, controls, loopVars, spanVars, serviceVars,
                       replies, failed, out>>
    PROVE  ChunkInv'
<1>1. /\ NodeTypes /\ OutType /\ current # None
      /\ UNCHANGED <<given, stamp, closed, control, controls, watermark, killed>>
      /\ UNCHANGED <<current, session, pending, connected, requests, ready>>
  BY Facts DEF upstreamVars, loopVars, spanVars, serviceVars, ChunkInv, FifoPart
<1>2. /\ UpTypes' /\ QueuePart' /\ Latest' = Latest
      /\ m = inbox[1] /\ m \in Message
      /\ m.stream \in DOMAIN stamp /\ m.stream \in Nat /\ m.input \in Nat
      /\ m.input <= given[m.stream]
      /\ (m.kind = "chunk") = (m.input # 0)
      /\ m.kind # "EoS" => Continues(m.stream, m.input)'
      /\ m.kind = "EoS" => IF inbox' = <<>> THEN closed' ELSE inbox'[1].kind = "SoS"
  <2>1. m = inbox[1]
    BY <1>1, Facts, TailAt DEF UpTypes, Got
  <2>. QED  BY <2>1, <1>1, InboxTaken
<1>3. /\ Opened /\ current = stamp[Live] /\ current >= watermark /\ Live \notin failed
      /\ Opened' = Opened /\ Live' = Live
  BY <1>1 DEF ChunkInv, SpanPart, Opened, Live
<1>4. PICK l : l = Live
  OBVIOUS
<1>5. /\ Succeeds(given[l], l, Done(l) + Len(pending), m) /\ DueOf(l)
  BY <1>1, <1>2, <1>4, TopIsCurrent, DueNow DEF ChunkInv
<1>6. /\ m.stream = l
      /\ m.kind = "chunk" => m.input = Done(l) + Len(pending) + 1
      /\ m.kind = "EoS" => given[l] = Done(l) + Len(pending)
  BY <1>5 DEF Succeeds
<1>7. NodeTypes' /\ OutType' /\ ControlTypes' /\ ControlPart' /\ OrderPart'
  <2>1. ControlTypes' /\ ControlPart' /\ OrderPart'
    BY <1>1, ControlKept, OrderKept
  <2>. QED  BY <2>1, <1>1, <1>2 DEF NodeTypes, OutType
<1>8. SpanTypes' /\ FifoPart'
  <2>1. replies = <<>>
    BY DEF ChunkInv, FifoPart
  <2>. QED  BY <2>1, SpanKept
<1>9. SpanPart' /\ RestPart'
  BY <1>1, <1>3 DEF SpanPart, RestPart
<1>10. HeldPart'
  <2>1. /\ pc' = (IF m.kind = "EoS" THEN "finish" ELSE "poll") /\ held' = m /\ current' # None
        /\ m.stream = Live' /\ given' = given /\ Opened'
    BY <1>1, <1>3, <1>4, <1>6
  <2>2. CASE m.kind = "chunk"
    BY <2>1, <2>2, <1>2 DEF HeldPart
  <2>3. CASE m.kind = "EoS"
    BY <2>1, <2>3, <1>2 DEF HeldPart
  <2>. QED  BY <2>2, <2>3
<1>11. Done(l)' = Done(l)
  BY DEF Done
<1>12. DueOf(l)'
  <2>1. CASE m.kind = "chunk"
    <3>1. pc' = "poll" /\ held' = m /\ m.stream = l /\ Continues(l, m.input)'
      BY <2>1, <1>2, <1>6
    <3>2. m.input = Done(l)' + Len(pending') + 1
      BY <2>1, <1>1, <1>6, <1>11
    <3>. QED  BY <3>1, <3>2, <1>1, <1>5, <1>11 DEF DueOf, Busy
  <2>2. CASE m.kind = "EoS"
    BY <2>2, <1>1, <1>2, <1>5, <1>6, <1>11 DEF DueOf, Busy
  <2>. QED  BY <2>1, <2>2
<1>13. DuePart'
  BY <1>3, <1>4, <1>12, DueNext
<1>. QED
  BY <1>2, <1>7, <1>8, <1>9, <1>10, <1>13, TypesNext DEF ChunkInv, Types

LEMMA TakeChunkStep == ASSUME ChunkInv, TakeChunk PROVE ChunkInv'
<1>1. PICK m : m = Got
  OBVIOUS
<1>. QED  BY <1>1, Holds DEF TakeChunk, Take

LEMMA EndStreamStep == ASSUME ChunkInv, EndStream PROVE ChunkInv'
<1>1. PICK m : m = Got
  OBVIOUS
<1>. QED  BY <1>1, Holds DEF EndStream, Take

\* The start of a stream is relayed, whether its session opens or not.
LEMMA Begun ==
    ASSUME ChunkInv, Take("SoS"), Return, failed' \in SUBSET Streams,
           NEW m, m = Got, Relay("SoS", m.stream),
           \A f \in failed' : f = m.stream \/ f \in failed
    PROVE  /\ UpTypes' /\ QueuePart' /\ OutType' /\ OrderPart'
           /\ m.stream \in Streams /\ m.stream \in DOMAIN stamp /\ stamp[m.stream] \in Stamps
           /\ stamp[m.stream] \in Nat /\ watermark \in Nat
           /\ stamp[m.stream] >= watermark /\ m.stream \notin failed
           /\ Opened' /\ Live' = m.stream /\ Done(m.stream)' = 0
           /\ Continues(m.stream, 0)' /\ \A s : Resumes(s)' => s = m.stream
           /\ given[m.stream] \in Nat
<1>1. /\ OutType /\ watermark \in Nat /\ None \notin Nat
      /\ \A s \in DOMAIN stamp : stamp[s] \in Stamps /\ stamp[s] \in Nat
      /\ \A s \in DOMAIN given : given[s] \in Nat
      /\ DOMAIN given = DOMAIN stamp
  BY Facts DEF ControlTypes
<1>2. /\ inbox # <<>> /\ m.kind = "SoS" /\ stamp[m.stream] >= watermark
      /\ inbox' = Tail(inbox) /\ UNCHANGED <<given, stamp, closed>>
  BY DEF Take, Return, upstreamVars
<1>3. /\ UpTypes' /\ QueuePart' /\ Latest' = Latest
      /\ m \in Message /\ m.stream \in DOMAIN stamp
      /\ m.stream \in Nat /\ m.input = 0 /\ Placed(m.stream)'
      /\ \A k \in DOMAIN out : out[k].stream < m.stream
      /\ m.stream \notin failed /\ Continues(m.stream, m.input)'
      /\ \A s : Resumes(s)' => s = m.stream
  <2>1. m.input = 0
    BY <1>2, InboxTaken
  <2>2. m \in Message /\ m.stream \in DOMAIN stamp /\ m.stream \in Nat /\ Placed(m.stream)'
    BY <1>2, InboxTaken
  <2>6. m.stream \notin failed
    BY <1>2, InboxTaken
  <2>3. \A k \in DOMAIN out : out[k].stream < m.stream
    BY <1>2, InboxTaken
  <2>4. UpTypes' /\ QueuePart' /\ Latest' = Latest /\ Continues(m.stream, m.input)'
    BY <1>2, InboxTaken
  <2>5. \A s : Resumes(s)' => s = m.stream
    BY <1>2, InboxTaken
  <2>. QED  BY <2>1, <2>2, <2>3, <2>4, <2>5, <2>6
<1>4. PICK e : e = [kind |-> "SoS", stream |-> m.stream, input |-> 0, content |-> <<>>]
  OBVIOUS
<1>5. /\ e \in Output /\ e.stream = m.stream /\ e.kind = "SoS" /\ out' = Append(out, e)
      /\ m.stream \in Streams
  BY <1>3, <1>4 DEF Output, Message, Relay
<1>6. /\ OutType' /\ Len(out') = Len(out) + 1 /\ out'[Len(out) + 1] = e /\ out' # <<>>
      /\ \A k \in DOMAIN out' :
            out'[k].stream = m.stream \/ (k \in DOMAIN out /\ out'[k].stream = out[k].stream)
  BY <1>1, <1>5, AppendAt DEF OutType
<1>7. OrderPart'
  BY <1>2, <1>3, <1>6, Ordered
<1>8. Opened' /\ Live' = m.stream
  BY <1>5, <1>6 DEF Opened, Live
<1>9. Done(m.stream)' = 0
  <2>1. \A k \in DOMAIN out : out[k].stream # m.stream
    <3>1. \A k \in DOMAIN out : out[k].stream \in Nat
      BY Facts
    <3>. QED  BY <3>1, <1>3
  <2>2. Cardinality(ChunksIn(out, m.stream)) = 0
    BY <2>1, NoChunks
  <2>3. Cardinality(ChunksIn(out', m.stream)) = 0
    BY <2>2, <1>1, <1>5, ChunksAppend DEF OutType
  <2>. QED  BY <2>3 DEF Done
<1>. QED  BY <1>1, <1>2, <1>3, <1>5, <1>6, <1>7, <1>8, <1>9

LEMMA StartStreamStep ==
    ASSUME ChunkInv, NEW kind \in Sessions, StartStream(kind)
    PROVE  ChunkInv'
<1>1. PICK m : m = Got
  OBVIOUS
<1>2. /\ Take("SoS") /\ Return /\ Relay("SoS", m.stream) /\ failed' = failed
      /\ current' = stamp[m.stream] /\ session' = kind /\ pending' = <<>>
      /\ connected' = (kind = "pipelined") /\ requests' = <<>> /\ ready' = 0
  BY <1>1 DEF StartStream
<1>3. NodeTypes /\ kind # None /\ None \notin Nat
  BY Facts, ChunkAssumption
<1>4. /\ NodeTypes' /\ HeldPart' /\ ControlTypes' /\ ControlPart'
      /\ pc' = "top" /\ replies' = <<>> /\ watermark' = watermark
      /\ UNCHANGED <<given, stamp, closed>>
  BY <1>2, <1>3, Returned DEF NodeTypes
<1>5. PICK l : l = m.stream
  OBVIOUS
<1>6. /\ UpTypes' /\ QueuePart' /\ OutType' /\ OrderPart'
      /\ stamp[l] \in Stamps /\ stamp[l] \in Nat /\ stamp[l] >= watermark /\ l \notin failed
      /\ Opened' /\ Live' = l /\ Done(l)' = 0 /\ Continues(l, 0)' /\ given[l] \in Nat
  BY <1>1, <1>2, <1>3, <1>5, Begun DEF NodeTypes
<1>7. current' = stamp[l] /\ current' # None
  BY <1>2, <1>3, <1>5, <1>6
<1>8. SpanTypes'
  <2>1. <<>> \in Seq(Request) /\ 0 \in Nat
    OBVIOUS
  <2>. QED  BY <2>1, <1>2, <1>4, <1>6, <1>7 DEF SpanTypes
<1>9. FifoPart'
  <2>1. <<>> = <<>> \o <<>> /\ 0 <= Len(<<>>)
    OBVIOUS
  <2>. QED  BY <2>1, <1>2, <1>3, <1>4, <1>7 DEF FifoPart
<1>10. SpanPart' /\ RestPart'
  BY <1>2, <1>4, <1>6, <1>7 DEF SpanPart, RestPart
<1>11. DueOf(l)'
  <2>1. DOMAIN pending' = {} /\ Len(pending') = 0
    BY <1>2
  <2>2. Done(l)' + Len(pending') = 0
    BY <2>1, <1>6
  <2>. QED  BY <2>1, <2>2, <1>4, <1>6 DEF DueOf, Busy
<1>12. DuePart'
  BY <1>6, <1>11, DueNext
<1>. QED
  BY <1>4, <1>6, <1>8, <1>9, <1>10, <1>12, TypesNext DEF ChunkInv, Types

LEMMA StartFailsStep == ASSUME ChunkInv, StartFails PROVE ChunkInv'
<1>1. PICK m : m = Got
  OBVIOUS
<1>2. /\ Take("SoS") /\ Return /\ Relay("SoS", m.stream) /\ Abort
      /\ failed' = failed \cup {m.stream}
  BY <1>1 DEF StartFails
<1>3. NodeTypes
  BY Facts
<1>4. m.stream \in Streams
  <2>1. inbox # <<>> /\ inbox \in Seq(Message)
    BY <1>2, Facts DEF Take, UpTypes
  <2>2. m \in Message
    BY <2>1, <1>1, TailAt DEF Got
  <2>. QED  BY <2>2 DEF Message
<1>5. failed' \in SUBSET Streams
  BY <1>2, <1>3, <1>4 DEF NodeTypes
<1>6. /\ NodeTypes' /\ HeldPart' /\ ControlTypes' /\ ControlPart'
      /\ pc' = "top" /\ replies' = <<>> /\ UNCHANGED <<given, stamp, closed>>
  BY <1>2, <1>5, Returned
<1>7. /\ UpTypes' /\ QueuePart' /\ OutType' /\ OrderPart'
      /\ Opened' /\ Live' = m.stream /\ \A s : Resumes(s)' => s = m.stream
  BY <1>1, <1>2, <1>5, Begun
<1>8. current' = None /\ SpanTypes' /\ FifoPart' /\ SpanPart' /\ DuePart'
  BY <1>2, <1>6, Aborted
<1>9. RestPart'
  BY <1>2, <1>7 DEF RestPart
<1>. QED
  BY <1>6, <1>7, <1>8, <1>9, TypesNext DEF ChunkInv, Types

-------------------------------------------------------------------------------
(* Steps that leave the inbox and the output alone.                          *)

\* The span goes on, with the same numbers.
LEMMA Goes ==
    ASSUME ChunkInv, current # None, failed' = failed,
           UNCHANGED <<given, stamp, closed, inbox, watermark, current, out>>
    PROVE  /\ UpTypes' /\ QueuePart' /\ OutType' /\ OrderPart' /\ SpanPart' /\ RestPart'
           /\ Opened' /\ Live' = Live
           /\ \A s : Done(s)' = Done(s)
           /\ \A s, k : Continues(s, k)' = Continues(s, k)
<1>1. OutType /\ Opened /\ SpanPart
  BY Facts DEF ChunkInv, SpanPart
<1>2. UpTypes' /\ QueuePart' /\ \A s, k : Continues(s, k)' = Continues(s, k)
  BY InboxKept
<1>3. Opened' /\ Live' = Live
  BY <1>1 DEF Opened, Live
<1>4. SpanPart'
  BY <1>1, <1>3 DEF SpanPart
<1>5. OutType' /\ RestPart' /\ \A s : Done(s)' = Done(s)
  BY <1>1 DEF OutType, RestPart, Done
<1>. QED  BY <1>2, <1>3, <1>4, <1>5, OrderKept

\* A stream that went void is left without a chunk.
LEMMA Left ==
    ASSUME ChunkInv, Return, current = None, current' = None, inbox' = inbox, out' = out,
           failed \subseteq failed', failed' \in SUBSET Streams, OrderPart',
           SpanTypes', FifoPart'
    PROVE  ChunkInv'
<1>1. /\ NodeTypes' /\ HeldPart' /\ ControlTypes' /\ ControlPart'
      /\ watermark' = watermark /\ UNCHANGED <<given, stamp, closed>>
  BY Returned
<1>2. OutType /\ watermark \in Nat
  BY Facts DEF ControlTypes
<1>3. UpTypes' /\ QueuePart'
  BY <1>1, InboxKept
<1>4. OutType' /\ SpanPart' /\ DuePart'
  BY <1>2 DEF OutType, SpanPart, DuePart
<1>5. RestPart'
  BY <1>1, <1>2, RestKept
<1>. QED  BY <1>1, <1>3, <1>4, <1>5, TypesNext DEF ChunkInv, Types

LEMMA LeaveVoidedStep == ASSUME ChunkInv, LeaveVoided PROVE ChunkInv'
<1>1. /\ NodeTypes /\ pc # "emit" /\ Voided /\ Return
      /\ UNCHANGED <<inbox, spanVars, serviceVars, failed, out>>
  BY Facts DEF LeaveVoided, Polled
<1>2. current = None /\ replies = <<>>
  BY <1>1, VoidedHasNoSpan DEF ChunkInv, FifoPart
<1>3. replies' = replies /\ UNCHANGED <<given, stamp, closed>>
  BY <1>1, <1>2 DEF Return, upstreamVars
<1>4. SpanTypes' /\ FifoPart' /\ current' = None
  BY <1>1, <1>2, <1>3, SpanKept
<1>5. OrderPart'
  BY <1>1, <1>3, OrderKept
<1>. QED  BY <1>1, <1>2, <1>4, <1>5, Left DEF NodeTypes

LEMMA GenerateCancelledStep == ASSUME ChunkInv, GenerateCancelled PROVE ChunkInv'
<1>1. /\ NodeTypes /\ Voided /\ Return /\ Abort
      /\ UNCHANGED <<inbox, failed, out>>
  BY Facts DEF GenerateCancelled
<1>2. current = None
  BY <1>1, VoidedHasNoSpan
<1>3. replies' = <<>> /\ pc' = "top" /\ UNCHANGED <<given, stamp, closed>>
  BY <1>1 DEF Return, upstreamVars
<1>4. SpanTypes' /\ FifoPart' /\ current' = None
  BY <1>1, <1>3, Aborted
<1>5. OrderPart'
  BY <1>1, <1>3, OrderKept
<1>. QED  BY <1>1, <1>2, <1>4, <1>5, Left DEF NodeTypes

LEMMA EmittedAllStep == ASSUME ChunkInv, EmittedAll PROVE ChunkInv'
<1>1. /\ NodeTypes /\ pc = "emit" /\ replies = <<>> /\ Return
      /\ UNCHANGED <<inbox, spanVars, serviceVars, failed, out>>
  BY Facts DEF EmittedAll
<1>2. current # None
  BY <1>1 DEF ChunkInv, HeldPart
<1>3. /\ NodeTypes' /\ HeldPart' /\ ControlTypes' /\ ControlPart' /\ pc' = "top"
      /\ replies' = replies /\ watermark' = watermark /\ UNCHANGED <<given, stamp, closed>>
  BY <1>1, Returned DEF NodeTypes
<1>4. /\ SpanTypes' /\ FifoPart'
      /\ UNCHANGED <<current, session, pending, connected, requests, ready>>
  BY <1>1, <1>3, SpanKept
<1>5. PICK l : l = Live
  OBVIOUS
<1>6. /\ UpTypes' /\ QueuePart' /\ OutType' /\ OrderPart' /\ SpanPart' /\ RestPart'
      /\ Live' = l /\ Done(l)' = Done(l)
      /\ \A k : Continues(l, k)' = Continues(l, k)
  BY <1>1, <1>2, <1>3, <1>4, <1>5, Goes
<1>7. DueOf(l)
  BY <1>2, <1>5, DueNow DEF ChunkInv
<1>8. DueOf(l)'
  BY <1>1, <1>3, <1>4, <1>6, <1>7 DEF DueOf, Busy
<1>9. DuePart'
  BY <1>6, <1>8, DueNext
<1>. QED  BY <1>3, <1>4, <1>6, <1>9, TypesNext DEF ChunkInv, Types

\* A blocking session takes up the input in hand, and has generated it.
LEMMA Works ==
    ASSUME ChunkInv, pc \in Busy, pc' \in {"generate", "generated"},
           current # None => session = "blocking",
           UNCHANGED <<upstreamVars, inbox, control, controls, waiting, held, loopVars,
                       spanVars, serviceVars, replies, failed, out>>
    PROVE  ChunkInv'
<1>1. /\ NodeTypes /\ OutType /\ watermark \in Nat /\ replies = <<>> /\ HeldPart
  BY Facts DEF ControlTypes, ChunkInv, FifoPart, Busy
<1>2. UNCHANGED <<given, stamp, closed, watermark, killed>>
  BY DEF upstreamVars, loopVars
<1>3. /\ SpanTypes' /\ FifoPart'
      /\ UNCHANGED <<current, session, pending, connected, requests, ready>>
  BY <1>1, SpanKept
<1>4. /\ NodeTypes' /\ OutType' /\ UpTypes' /\ QueuePart' /\ ControlTypes' /\ ControlPart'
      /\ OrderPart'
  <2>1. NodeTypes' /\ OutType'
    BY <1>1 DEF NodeTypes, OutType
  <2>. QED  BY <2>1, <1>2, InboxKept, ControlKept, OrderKept
<1>5. Opened' = Opened /\ Live' = Live
  BY DEF Opened, Live
<1>6. HeldPart'
  BY <1>1, <1>2, <1>3, <1>5 DEF HeldPart, Busy
<1>7. SpanPart'
  BY <1>2, <1>3, <1>5 DEF ChunkInv, SpanPart
<1>8. RestPart'
  BY <1>1, <1>2, <1>3, RestKept DEF RestPart
<1>9. DuePart'
  <2>1. PICK l : l = Live
    OBVIOUS
  <2>2. ASSUME current # None PROVE DueOf(l)'
    <3>1. DueOf(l)
      BY <2>1, <2>2, DueNow DEF ChunkInv
    <3>2. Done(l)' = Done(l)
      BY DEF Done
    <3>3. \A k : Continues(l, k)' = Continues(l, k)
      BY <1>2, InboxKept
    <3>. QED  BY <3>1, <3>2, <3>3, <1>2, <1>3 DEF DueOf, Busy
  <2>. QED  BY <2>1, <2>2, <1>3, <1>5, DueNext
<1>. QED  BY <1>3, <1>4, <1>6, <1>7, <1>8, <1>9, TypesNext DEF ChunkInv, Types

LEMMA GenerateStep == ASSUME ChunkInv, Generate PROVE ChunkInv'
  BY Works DEF Generate, Generates, Polled, Busy

LEMMA GeneratedStep == ASSUME ChunkInv, Generated PROVE ChunkInv'
<1>1. current # None => session = "blocking"
  BY DEF Generated, ChunkInv, HeldPart
<1>. QED  BY <1>1, Works DEF Generated, Busy

\* A session that fails takes its stream with it.
LEMMA GenerateFailsStep == ASSUME ChunkInv, GenerateFails PROVE ChunkInv'
<1>1. /\ NodeTypes /\ OutType /\ pc \in {"poll", "emit", "generate"}
      /\ failed' = failed \cup {held.stream} /\ Abort /\ Return
      /\ UNCHANGED <<inbox, out>>
  BY Facts DEF GenerateFails, Generates, Polled, Fail
<1>2. /\ Opened /\ held.stream = Live
  BY <1>1 DEF ChunkInv, HeldPart
<1>3. PICK l : l = Live
  OBVIOUS
<1>4. /\ l \in Streams /\ l \in Nat /\ Placed(l) /\ failed' = failed \cup {l}
  BY <1>1, <1>2, <1>3, LiveFacts
<1>5. failed' \in SUBSET Streams
  BY <1>1, <1>4 DEF NodeTypes
<1>6. /\ NodeTypes' /\ HeldPart' /\ ControlTypes' /\ ControlPart'
      /\ pc' = "top" /\ replies' = <<>> /\ watermark' = watermark
      /\ UNCHANGED <<given, stamp, closed>>
  BY <1>1, <1>5, Returned
<1>7. current' = None /\ SpanTypes' /\ FifoPart' /\ SpanPart' /\ DuePart'
  BY <1>1, <1>6, Aborted
<1>8. /\ UpTypes' /\ QueuePart' /\ Latest' = Latest /\ Placed(l)'
      /\ \A s : Resumes(s)' = Resumes(s)
  BY <1>1, <1>4, <1>6, InboxKept
<1>9. OrderPart'
  BY <1>1, <1>4, <1>8, Ordered
<1>10. OutType' /\ Opened' = Opened /\ Live' = Live
  BY <1>1 DEF OutType, Opened, Live
<1>11. RestPart'
  <2>1. CASE current = None
    <3>1. watermark \in Nat
      BY Facts DEF ControlTypes
    <3>. QED  BY <2>1, <3>1, <1>1, <1>6, RestKept
  <2>2. CASE current # None
    <3>1. \A s : Resumes(s)' => s = l
      BY <2>2, <1>1, <1>3, <1>8, OnlyLiveResumes
    <3>. QED  BY <3>1, <1>2, <1>3, <1>4, <1>10 DEF RestPart
  <2>. QED  BY <2>1, <2>2
<1>. QED  BY <1>6, <1>7, <1>8, <1>9, <1>10, <1>11, TypesNext DEF ChunkInv, Types

\* The envelope closes, whatever ended the wait.
LEMMA FinishStep ==
    ASSUME ChunkInv, Finish \/ FinishCancelled \/ FinishFails
    PROVE  ChunkInv'
<1>1. /\ NodeTypes /\ OutType /\ pc = "finish" /\ Abort /\ Relay("EoS", held.stream)
      /\ Return /\ failed' \in {failed, failed \cup {held.stream}} /\ inbox' = inbox
  BY Facts DEF Finish, FinishCancelled, FinishFails, Fail
<1>2. /\ Opened /\ held.stream = Live
      /\ IF inbox = <<>> THEN closed ELSE inbox[1].kind = "SoS"
  BY <1>1 DEF ChunkInv, HeldPart
<1>3. PICK l : l = Live
  OBVIOUS
<1>4. /\ l \in Streams /\ l \in Nat /\ Placed(l) /\ held.stream = l
  BY <1>2, <1>3, LiveFacts
<1>5. failed' \in SUBSET Streams
  BY <1>1, <1>4 DEF NodeTypes
<1>6. /\ NodeTypes' /\ HeldPart' /\ ControlTypes' /\ ControlPart'
      /\ pc' = "top" /\ replies' = <<>> /\ UNCHANGED <<given, stamp, closed>>
  BY <1>1, <1>5, Returned
<1>7. current' = None /\ SpanTypes' /\ FifoPart' /\ SpanPart' /\ DuePart'
  BY <1>1, <1>6, Aborted
<1>8. /\ UpTypes' /\ QueuePart' /\ Latest' = Latest /\ Placed(l)'
      /\ \A s : Resumes(s)' = Resumes(s)
  BY <1>1, <1>4, <1>6, InboxKept
<1>9. PICK e : e = [kind |-> "EoS", stream |-> l, input |-> 0, content |-> <<>>]
  OBVIOUS
<1>10. e \in Output /\ e.stream = l /\ out' = Append(out, e)
  BY <1>1, <1>4, <1>9 DEF Output, Relay
<1>11. /\ OutType' /\ \A k \in DOMAIN out' :
             out'[k].stream = l \/ (k \in DOMAIN out /\ out'[k].stream = out[k].stream)
  BY <1>1, <1>10, AppendAt DEF OutType
<1>12. OrderPart'
  BY <1>1, <1>4, <1>8, <1>11, Ordered
<1>13. \A s : ~Resumes(s)
  <2>1. closed \in BOOLEAN
    BY Facts DEF UpTypes
  <2>. QED  BY <2>1, <1>2 DEF Resumes
<1>14. RestPart'
  BY <1>8, <1>13 DEF RestPart
<1>. QED  BY <1>6, <1>7, <1>8, <1>11, <1>12, <1>14, TypesNext DEF ChunkInv, Types

-------------------------------------------------------------------------------
(* A chunk leaves.                                                           *)

\* The next chunk of the live stream is its next input's.
LEMMA Emitted ==
    ASSUME ChunkInv, current # None, UNCHANGED <<given, stamp, closed, inbox>>,
           UNCHANGED <<current, watermark, failed>>,
           NEW x \in Request, Emit(x, x), NEW l, l = Live, x[1] = l
    PROVE  /\ OutType' /\ OrderPart' /\ SpanPart' /\ RestPart'
           /\ UpTypes' /\ QueuePart'
           /\ Opened' /\ Live' = l /\ Done(l) \in Nat /\ Done(l)' = Done(l) + 1
           /\ \A k : Continues(l, k)' = Continues(l, k)
<1>1. OutType /\ SpanPart /\ Opened
  BY Facts DEF ChunkInv, SpanPart
<1>2. l \in Nat /\ l \in Streams /\ Placed(l)
  BY <1>1, LiveFacts
<1>3. PICK e : e = [kind |-> "chunk", stream |-> x[1], input |-> x[2], content |-> x]
  OBVIOUS
<1>4. e \in Output /\ e.stream = l /\ e.kind = "chunk" /\ out' = Append(out, e)
  BY <1>3 DEF Output, Request, Emit
<1>5. /\ OutType' /\ Len(out') = Len(out) + 1 /\ out'[Len(out) + 1] = e /\ out' # <<>>
      /\ \A k \in DOMAIN out' :
            out'[k].stream = l \/ (k \in DOMAIN out /\ out'[k].stream = out[k].stream)
  BY <1>1, <1>4, AppendAt DEF OutType
<1>6. Opened' /\ Live' = l
  BY <1>4, <1>5 DEF Opened, Live
<1>7. UpTypes' /\ QueuePart' /\ Latest' = Latest /\ Placed(l)'
  BY <1>2, InboxKept
<1>8. \A k : Continues(l, k)' = Continues(l, k)
  BY InboxKept
<1>9. OrderPart'
  BY <1>2, <1>5, <1>7, Ordered
<1>10. SpanPart' /\ RestPart'
  BY <1>1, <1>6 DEF SpanPart, RestPart
<1>11. Done(l) \in Nat /\ Done(l)' = Done(l) + 1
  BY <1>1, <1>4, ChunksAppend DEF OutType, Done
<1>. QED  BY <1>5, <1>6, <1>7, <1>8, <1>9, <1>10, <1>11

\* The input in hand, and its context.
LEMMA InHand ==
    ASSUME ChunkInv, pc \in Busy, current # None, NEW l, l = Live
    PROVE  /\ Context \in Request /\ Context = <<l, Done(l) + Len(pending) + 1>>
           /\ Done(l) + Len(pending) + 1 <= given[l]
           /\ DueOf(l) /\ replies = <<>>
<1>1. DueOf(l)
  BY DueNow DEF ChunkInv
<1>2. /\ held \in Message /\ held.stream = l /\ held.input <= given[l] /\ Opened
      /\ replies = <<>>
  BY DEF ChunkInv, HeldPart, FifoPart, Busy
<1>3. Done(l) \in Nat /\ Len(pending) \in Nat
  BY DueNumbers
<1>4. held.input = Done(l) + Len(pending) + 1
  BY <1>1 DEF DueOf
<1>5. held.input \in 1..MaxInputs /\ held.stream \in Streams
  <2>1. held.input \in 0..MaxInputs /\ held.stream \in Streams /\ MaxInputs \in Nat
    BY <1>2, Facts DEF Message
  <2>. QED  BY <2>1, <1>3, <1>4
<1>. QED  BY <1>1, <1>2, <1>4, <1>5 DEF Context, Request

\* A chunk generated at once leaves the node at the top of its loop.
LEMMA EmitsItsInput ==
    ASSUME ChunkInv, pc \in Busy, current # None, pending = <<>>, Emit(Context, Context),
           Return, UNCHANGED <<inbox, spanVars, serviceVars, failed>>
    PROVE  ChunkInv'
<1>1. NodeTypes
  BY Facts
<1>2. /\ NodeTypes' /\ HeldPart' /\ ControlTypes' /\ ControlPart' /\ pc' = "top"
      /\ replies' = <<>> /\ watermark' = watermark /\ UNCHANGED <<given, stamp, closed>>
  BY <1>1, Returned DEF NodeTypes
<1>3. PICK l : l = Live
  OBVIOUS
<1>4. PICK x : x = Context
  OBVIOUS
<1>5. /\ x \in Request /\ x = <<l, Done(l) + Len(pending) + 1>>
      /\ Done(l) + Len(pending) + 1 <= given[l] /\ DueOf(l) /\ replies = <<>>
  BY <1>3, <1>4, InHand
<1>6. /\ SpanTypes' /\ FifoPart'
      /\ UNCHANGED <<current, session, pending, connected, requests, ready>>
  BY <1>2, <1>5, SpanKept
<1>7. /\ OutType' /\ OrderPart' /\ SpanPart' /\ RestPart' /\ UpTypes' /\ QueuePart'
      /\ Live' = l /\ Done(l) \in Nat /\ Done(l)' = Done(l) + 1
      /\ \A k : Continues(l, k)' = Continues(l, k)
  BY <1>2, <1>3, <1>4, <1>5, <1>6, Emitted
<1>8. DueOf(l)'
  <2>1. Len(pending) = 0 /\ DOMAIN pending = {} /\ pending' = pending
    BY <1>6
  <2>2. Done(l)' + Len(pending') = Done(l) + Len(pending) + 1
    BY <2>1, <1>7
  <2>3. Continues(l, Done(l) + Len(pending) + 1)
    BY <1>5 DEF DueOf
  <2>. QED  BY <2>1, <2>2, <2>3, <1>2, <1>5, <1>7 DEF DueOf, Busy
<1>9. DuePart'
  BY <1>7, <1>8, DueNext
<1>. QED  BY <1>2, <1>6, <1>7, <1>9, TypesNext DEF ChunkInv, Types

LEMMA PassChunkStep == ASSUME ChunkInv, PassChunk PROVE ChunkInv'
<1>1. pc = "poll" /\ current # None /\ pending = <<>>
  BY DEF PassChunk, Generates, Polled, Voided, ChunkInv, FifoPart
<1>. QED  BY <1>1, EmitsItsInput DEF PassChunk, Busy

LEMMA EmitGeneratedStep == ASSUME ChunkInv, EmitGenerated PROVE ChunkInv'
<1>1. pc = "generated" /\ current # None
  BY DEF EmitGenerated, Polled, Voided
<1>2. pending = <<>>
  BY <1>1 DEF ChunkInv, HeldPart, FifoPart
<1>. QED  BY <1>1, <1>2, EmitsItsInput DEF EmitGenerated, Busy

\* The oldest context goes with the oldest reply.
LEMMA Answered ==
    ASSUME ChunkInv, pc \in {"emit", "finish"}, pc' = pc, current # None,
           pending # <<>>, NEW x, x = Head(pending), Emit(x, x), pending' = Tail(pending),
           SpanTypes', FifoPart',
           UNCHANGED <<upstreamVars, inbox, control, controls, waiting, held, loopVars,
                       current, session, failed>>
    PROVE  ChunkInv'
<1>1. /\ NodeTypes /\ HeldPart /\ Opened
      /\ UNCHANGED <<given, stamp, closed, watermark, killed>>
  BY Facts DEF upstreamVars, loopVars, ChunkInv, SpanPart
<1>2. PICK l : l = Live
  OBVIOUS
<1>3. /\ pending \in Seq(Request) /\ DueOf(l) /\ Len(pending) \in Nat
  BY <1>2, Facts, DueNow DEF ChunkInv, SpanTypes
<1>4. /\ x = pending[1] /\ x \in Request /\ 1 \in DOMAIN pending
      /\ DOMAIN pending = 1..Len(pending) /\ Len(pending) \in Nat \ {0}
      /\ DOMAIN pending' = 1..(Len(pending) - 1) /\ Len(pending') = Len(pending) - 1
      /\ \A i \in 1..(Len(pending) - 1) : pending'[i] = pending[i + 1]
  BY <1>3, TailAt
<1>5. x = <<l, Done(l) + 1>>
  BY <1>3, <1>4 DEF DueOf
<1>6. /\ OutType' /\ OrderPart' /\ SpanPart' /\ RestPart' /\ UpTypes' /\ QueuePart'
      /\ Opened' /\ Live' = l /\ Done(l) \in Nat /\ Done(l)' = Done(l) + 1
      /\ \A k : Continues(l, k)' = Continues(l, k)
  BY <1>1, <1>2, <1>4, <1>5, Emitted
<1>7. NodeTypes' /\ ControlTypes' /\ ControlPart'
  BY <1>1, ControlKept DEF NodeTypes
<1>8. HeldPart'
  BY <1>1, <1>2, <1>6 DEF HeldPart
<1>9. DueOf(l)'
  <2>1. Done(l)' + Len(pending') = Done(l) + Len(pending)
    BY <1>4, <1>6
  <2>2. ASSUME NEW k \in DOMAIN pending' PROVE pending'[k] = <<l, Done(l)' + k>>
    <3>1. k \in Nat /\ k + 1 \in DOMAIN pending /\ pending'[k] = pending[k + 1]
      BY <1>4
    <3>2. pending[k + 1] = <<l, Done(l) + (k + 1)>>
      BY <3>1, <1>3 DEF DueOf
    <3>3. Done(l) + (k + 1) = Done(l)' + k
      BY <3>1, <1>6
    <3>. QED  BY <3>1, <3>2, <3>3
  <2>. QED  BY <2>1, <2>2, <1>1, <1>3, <1>6 DEF DueOf, Busy
<1>10. DuePart'
  BY <1>6, <1>9, DueNext
<1>. QED  BY <1>6, <1>7, <1>8, <1>10, TypesNext DEF ChunkInv, Types

LEMMA EmitReplyStep == ASSUME ChunkInv, EmitReply PROVE ChunkInv'
<1>1. /\ SpanTypes /\ FifoPart /\ pc = "emit" /\ current # None
  BY Facts DEF ChunkInv, EmitReply, HeldPart
<1>2. /\ pc = "emit" /\ replies # <<>> /\ Emit(Head(pending), Head(replies))
      /\ replies' = Tail(replies) /\ pending' = Tail(pending)
      /\ UNCHANGED <<upstreamVars, inbox, control, controls, pc, waiting, held, loopVars,
                     current, session, connected, requests, ready, failed>>
  BY DEF EmitReply, serviceVars
<1>3. /\ pending = replies \o requests /\ replies \in Seq(Request)
      /\ requests \in Seq(Request)
  BY <1>1 DEF SpanTypes, FifoPart
<1>4. pending # <<>> /\ Head(pending) = Head(replies)
      /\ Tail(pending) = Tail(replies) \o requests
  BY <1>2, <1>3
<1>5. SpanTypes'
  <2>1. pending' \in Seq(Request) /\ replies' \in Seq(Request)
    BY <1>1, <1>2, <1>4, TailAt DEF SpanTypes
  <2>. QED  BY <2>1, <1>1, <1>2 DEF SpanTypes
<1>6. FifoPart'
  <2>1. session = "pipelined"
    BY <1>1, <1>4 DEF FifoPart
  <2>2. pending' = replies' \o requests'
    BY <1>2, <1>4
  <2>. QED  BY <2>1, <2>2, <1>1, <1>2 DEF FifoPart
<1>7. PICK x : x = Head(pending)
  OBVIOUS
<1>. QED  BY <1>1, <1>2, <1>4, <1>5, <1>6, <1>7, Answered

LEMMA AwaitReplyStep == ASSUME ChunkInv, AwaitReply PROVE ChunkInv'
<1>1. /\ SpanTypes /\ FifoPart /\ pc = "finish" /\ current # None
  BY Facts DEF ChunkInv, AwaitReply, Voided
<1>2. /\ ready > 0 /\ Emit(Head(pending), Head(requests))
      /\ pending' = Tail(pending) /\ requests' = Tail(requests) /\ ready' = ready - 1
      /\ UNCHANGED <<upstreamVars, inbox, control, controls, pc, waiting, held, loopVars,
                     current, session, connected, replies, failed>>
  BY DEF AwaitReply
<1>3. /\ pending = replies \o requests /\ replies = <<>> /\ requests \in Seq(Request)
      /\ ready \in Nat /\ ready <= Len(requests)
  BY <1>1 DEF SpanTypes, FifoPart
<1>4. pending = requests /\ pending # <<>>
  BY <1>2, <1>3
<1>5. /\ requests' \in Seq(Request) /\ Len(requests') = Len(requests) - 1
      /\ Len(requests) \in Nat
  BY <1>2, <1>3, <1>4, TailAt
<1>6. SpanTypes'
  <2>1. pending' \in Seq(Request) /\ ready' \in Nat
    BY <1>2, <1>3, <1>4, <1>5
  <2>. QED  BY <2>1, <1>1, <1>2, <1>5 DEF SpanTypes
<1>7. FifoPart'
  <2>1. pending' = replies' \o requests'
    BY <1>2, <1>3, <1>4, <1>5
  <2>2. session = "pipelined" /\ ready' <= Len(requests')
    BY <1>1, <1>2, <1>3, <1>4, <1>5 DEF FifoPart
  <2>. QED  BY <2>1, <2>2, <1>1, <1>2, <1>3 DEF FifoPart
<1>8. PICK x : x = Head(pending)
  OBVIOUS
<1>. QED  BY <1>1, <1>2, <1>4, <1>6, <1>7, <1>8, Answered

-------------------------------------------------------------------------------
(* A request is sent, and what has been answered is taken.                   *)

LEMMA SubmitStep ==
    ASSUME ChunkInv, NEW n \in 0..MaxInputs, Submit(n)
    PROVE  ChunkInv'
<1>. DEFINE sent == Append(requests, Context)
<1>1. /\ NodeTypes /\ ControlTypes /\ SpanTypes /\ FifoPart /\ HeldPart
      /\ pc = "poll" /\ current # None /\ session = "pipelined"
      /\ n \in ready..(Len(requests) + 1)
      /\ replies' = SubSeq(sent, 1, n) /\ requests' = SubSeq(sent, n + 1, Len(sent))
      /\ ready' = 0 /\ connected' = TRUE /\ pending' = Append(pending, Context)
      /\ pc' = "emit"
      /\ UNCHANGED <<given, stamp, closed, inbox, control, controls, waiting, held,
                     watermark, killed, current, session, failed, out>>
  BY Facts DEF Submit, Generates, Polled, Voided, upstreamVars, loopVars, ChunkInv
<1>2. PICK l : l = Live
  OBVIOUS
<1>3. PICK x : x = Context
  OBVIOUS
<1>4. /\ x \in Request /\ x = <<l, Done(l) + Len(pending) + 1>>
      /\ Done(l) + Len(pending) + 1 <= given[l] /\ DueOf(l) /\ replies = <<>>
  BY <1>1, <1>2, <1>3, InHand DEF Busy
<1>5. /\ pending = requests /\ requests \in Seq(Request) /\ pending \in Seq(Request)
      /\ Len(requests) \in Nat /\ ready \in Nat
  BY <1>1, <1>4 DEF SpanTypes, FifoPart
<1>6. /\ sent = Append(pending, x) /\ sent \in Seq(Request)
      /\ Len(sent) = Len(requests) + 1 /\ pending' = sent
      /\ n \in 0..Len(sent) /\ n \in Nat /\ Len(sent) \in Nat
  BY <1>1, <1>3, <1>4, <1>5
<1>. HIDE DEF sent
<1>7. pending' = replies' \o requests'
  <2>1. SubSeq(sent, 1, n) \o SubSeq(sent, n + 1, Len(sent)) = SubSeq(sent, 1, Len(sent))
    <3>1. /\ 1 \in 1..Len(sent)+1 /\ n \in (1 - 1)..Len(sent) /\ Len(sent) \in n..Len(sent)
      BY <1>6
    <3>. QED  BY <3>1, <1>6, ConcatAdjacentSubSeq
  <2>2. SubSeq(sent, 1, Len(sent)) = sent
    BY <1>6
  <2>. QED  BY <2>1, <2>2, <1>1, <1>6
<1>8. replies' \in Seq(Request) /\ requests' \in Seq(Request) /\ Len(requests') \in Nat
  <2>1. replies' \in Seq(Request)
    BY <1>1, <1>6
  <2>2. requests' \in Seq(Request)
    BY <1>1, <1>6
  <2>. QED  BY <2>1, <2>2
<1>9. SpanTypes' /\ FifoPart'
  <2>1. SpanTypes'
    BY <1>1, <1>6, <1>8 DEF SpanTypes
  <2>. QED  BY <2>1, <1>1, <1>7, <1>8 DEF FifoPart
<1>10. /\ UpTypes' /\ QueuePart' /\ OutType' /\ OrderPart' /\ SpanPart' /\ RestPart'
       /\ Opened' /\ Live' = l /\ Done(l)' = Done(l)
       /\ \A k : Continues(l, k)' = Continues(l, k)
  BY <1>1, <1>2, Goes
<1>11. NodeTypes' /\ ControlTypes' /\ ControlPart'
  BY <1>1, ControlKept DEF NodeTypes
<1>12. HeldPart'
  BY <1>1, <1>2, <1>10 DEF HeldPart
<1>13. DueOf(l)'
  <2>1. /\ DOMAIN pending = 1..Len(pending) /\ DOMAIN pending' = 1..(Len(pending) + 1)
        /\ Len(pending') = Len(pending) + 1 /\ pending'[Len(pending) + 1] = x
        /\ \A i \in 1..Len(pending) : pending'[i] = pending[i]
        /\ Len(pending) \in Nat /\ Done(l) \in Nat
    BY <1>4, <1>5, <1>6, AppendAt, DueNumbers
  <2>2. ASSUME NEW k \in DOMAIN pending' PROVE pending'[k] = <<l, Done(l)' + k>>
    <3>1. CASE k \in 1..Len(pending)
      BY <3>1, <2>1, <1>4, <1>10 DEF DueOf
    <3>2. CASE k = Len(pending) + 1
      <4>1. Done(l)' + k = Done(l) + Len(pending) + 1
        BY <3>2, <2>1, <1>10
      <4>. QED  BY <4>1, <3>2, <2>1, <1>4
    <3>. QED  BY <3>1, <3>2, <2>1
  <2>3. Done(l)' + Len(pending') = Done(l) + Len(pending) + 1
    BY <2>1, <1>10
  <2>4. Continues(l, Done(l) + Len(pending) + 1)
    BY <1>1, <1>4 DEF DueOf, Busy
  <2>. QED  BY <2>2, <2>3, <2>4, <1>1, <1>4, <1>10 DEF DueOf, Busy
<1>14. DuePart'
  BY <1>10, <1>13, DueNext
<1>. QED  BY <1>9, <1>10, <1>11, <1>12, <1>14, TypesNext DEF ChunkInv, Types

-------------------------------------------------------------------------------
LEMMA InvInit == Init => ChunkInv
<1>. SUFFICES ASSUME Init PROVE ChunkInv
  OBVIOUS
<1>1. /\ given = <<>> /\ stamp = <<>> /\ closed = TRUE /\ inbox = <<>> /\ control = <<>>
      /\ controls = 0 /\ pc = "top" /\ waiting = TRUE /\ held = None /\ current = None
      /\ watermark = 0 /\ killed = FALSE /\ session = None /\ pending = <<>>
      /\ connected = FALSE /\ requests = <<>> /\ ready = 0 /\ replies = <<>>
      /\ failed = {} /\ out = <<>>
  BY DEF Init
<1>2. \A S : <<>> \in Seq(S)
  OBVIOUS
<1>3. Len(<<>>) = 0 /\ DOMAIN <<>> = {} /\ 0 \in Nat /\ <<>> = <<>> \o <<>>
  OBVIOUS
<1>4. TypeOK
  BY <1>1, <1>2, <1>3 DEF TypeOK
<1>5. ControlPart /\ FifoPart /\ OrderPart /\ SpanPart /\ HeldPart /\ DuePart /\ RestPart
  BY <1>1, <1>3 DEF ControlPart, FifoPart, OrderPart, SpanPart, HeldPart, DuePart, RestPart
<1>6. QueuePart
  BY <1>1, <1>3, ChunkAssumption DEF QueuePart, Latest
<1>. QED  BY <1>4, <1>5, <1>6 DEF ChunkInv

LEMMA InvStutter == ASSUME ChunkInv, UNCHANGED vars PROVE ChunkInv'
<1>1. /\ UNCHANGED <<given, stamp, closed, inbox, control, controls, pc, waiting, held>>
      /\ UNCHANGED <<watermark, killed, current, session, pending, connected, requests>>
      /\ UNCHANGED <<ready, replies, failed, out>>
  BY DEF vars, upstreamVars, loopVars, spanVars, serviceVars
<1>2. UpTypes /\ ControlTypes /\ NodeTypes /\ SpanTypes /\ OutType
  BY Facts
<1>3. UpTypes' /\ ControlTypes' /\ NodeTypes' /\ SpanTypes' /\ OutType'
  BY <1>1, <1>2 DEF UpTypes, ControlTypes, NodeTypes, SpanTypes, OutType
<1>4. ControlPart' /\ FifoPart' /\ SpanPart' /\ HeldPart'
  BY <1>1 DEF ChunkInv, ControlPart, FifoPart, SpanPart, HeldPart, Opened, Live
<1>5. QueuePart' /\ OrderPart' /\ \A s : Resumes(s)' = Resumes(s)
  BY <1>1, InboxKept, OrderKept
<1>6. DuePart'
  BY <1>1 DEF ChunkInv, DuePart, Continues, Succeeds, Done, Live, Latest
<1>7. RestPart'
  BY <1>1, <1>5 DEF ChunkInv, RestPart, Opened, Live
<1>. QED  BY <1>3, <1>4, <1>5, <1>6, <1>7, TypesNext DEF ChunkInv, Types

LEMMA InvNext == ASSUME ChunkInv, [Next]_vars PROVE ChunkInv'
<1>1. CASE Environment
  BY <1>1, SendSoSStep, SendChunkStep, SendEoSStep, OutsideStep DEF Environment
<1>2. CASE ReadCancel \/ ReadKill \/ Exit \/ Discard
  BY <1>2, ReadCancelStep, ReadKillStep, ExitStep, DiscardStep
<1>3. CASE \E kind \in Sessions : StartStream(kind)
  BY <1>3, StartStreamStep
<1>4. CASE StartFails \/ DropChunk \/ TakeChunk \/ LeaveVoided \/ PassChunk
  BY <1>4, StartFailsStep, DropChunkStep, TakeChunkStep, LeaveVoidedStep, PassChunkStep
<1>5. CASE \E n \in 0..MaxInputs : Submit(n)
  BY <1>5, SubmitStep
<1>6. CASE EmitReply \/ EmittedAll \/ Generate \/ Generated
  BY <1>6, EmitReplyStep, EmittedAllStep, GenerateStep, GeneratedStep
<1>7. CASE GenerateCancelled \/ EmitGenerated \/ GenerateFails
  BY <1>7, GenerateCancelledStep, EmitGeneratedStep, GenerateFailsStep
<1>8. CASE EndNothing \/ EndStream \/ AwaitReply \/ Finish \/ FinishCancelled \/ FinishFails
  BY <1>8, EndNothingStep, EndStreamStep, AwaitReplyStep, FinishStep
<1>9. CASE UNCHANGED vars
  BY <1>9, InvStutter
<1>. QED
  BY <1>1, <1>2, <1>3, <1>4, <1>5, <1>6, <1>7, <1>8, <1>9 DEF Next, Node

\* In every reachable state the sequences of the node, its inbox and its output
\* fit together: the inductive invariant.
THEOREM ChunkInvariant == Spec => []ChunkInv
  BY InvInit, InvNext, PTL DEF Spec

\* Whatever ended a stream, between streams and after the thread's end the remote
\* slot is released and nothing is owed.
THEOREM SlotIsFree == Spec => []SlotInv
<1>1. ChunkInv => SlotInv
  <2>. SUFFICES ASSUME ChunkInv PROVE SlotInv
    OBVIOUS
  <2>1. TypeOK /\ FifoPart /\ SpanTypes
    BY Facts DEF ChunkInv
  <2>2. ASSUME pc \in {"top", "exited"}, current = None
        PROVE  ~connected /\ requests = <<>> /\ pending = <<>> /\ session = None
    <3>1. ~connected /\ session = None
      BY <2>1, <2>2 DEF FifoPart
    <3>2. pending = <<>> /\ replies = <<>> /\ pending = replies \o requests
      <4>1. session # "pipelined"
        BY <3>1, ChunkAssumption
      <4>. QED  BY <4>1, <2>1, <2>2 DEF FifoPart
    <3>3. requests \in Seq(Request)
      BY <2>1 DEF SpanTypes
    <3>. QED  BY <3>1, <3>2, <3>3
  <2>. QED  BY <2>1, <2>2 DEF SlotInv, SlotIsReleased
<1>. QED  BY <1>1, ChunkInvariant, PTL

-------------------------------------------------------------------------------
(* The refinement: what the steps are to Envelopes.                          *)

\* Envelopes counts the chunks of a stream as Done does.
LEMMA SameCount == \A s : Streamed!Count(s) = Done(s)
<1>1. \A S : Streamed!Cardinality(S) = Cardinality(S)
  BY DEF Streamed!Cardinality, Cardinality
<1>2. ASSUME NEW s PROVE Streamed!Count(s) = Streamed!Cardinality(ChunksIn(out, s))
  BY DEF Streamed!Count, ChunksIn
<1>. QED  BY <1>1, <1>2 DEF Done

Void == {s \in DOMAIN stamp : stamp[s] < watermark}

\* A chunk leaves.
LEMMA IsChunk ==
    ASSUME ChunkInv, current # None, NEW x, NEW l, l = Live, x = <<l, Done(l) + 1>>,
           Done(l) + 1 <= given[l], Emit(x, x), UNCHANGED <<given, stamp, watermark, failed>>
    PROVE  Streamed!Next
<1>1. /\ Opened /\ current = stamp[l] /\ current >= watermark /\ l \notin failed
  BY DEF ChunkInv, SpanPart
<1>2. l \in DOMAIN given /\ l \in DOMAIN stamp /\ given[l] \in Nat /\ Done(l) \in Nat
  BY <1>1, LiveFacts, DueNumbers, Facts
<1>3. l \notin Void
  <2>1. stamp[l] \in Nat /\ watermark \in Nat
    BY <1>2, Facts DEF ControlTypes
  <2>. QED  BY <2>1, <1>1 DEF Void
<1>4. PICK n : n = Done(l)
  OBVIOUS
<1>5. Streamed!Count(l) = n
  BY <1>4, SameCount
<1>6. Streamed!Within(l)
  BY <1>1 DEF Streamed!Within, Opened, Live
<1>7. x = <<l, n + 1>> /\ x[1] = l /\ x[2] = n + 1 /\ n < given[l]
  BY <1>2, <1>4
<1>8. out' = Append(out, [kind |-> "chunk", stream |-> l, input |-> n + 1,
                          content |-> <<l, n + 1>>])
  BY <1>7 DEF Emit
<1>9. Streamed!Chunk(l)
  BY <1>1, <1>3, <1>5, <1>6, <1>7, <1>8 DEF Streamed!Chunk, Streamed!Emit, Void
<1>. QED  BY <1>2, <1>9 DEF Streamed!Next

\* An envelope opens.
LEMMA IsBegin ==
    ASSUME ChunkInv, Take("SoS"), NEW m, m = Got, Relay("SoS", m.stream),
           failed \subseteq failed', UNCHANGED <<given, stamp, closed, watermark>>
    PROVE  Streamed!Next
<1>1. inbox # <<>> /\ m.kind = "SoS" /\ inbox' = Tail(inbox)
  BY DEF Take
<1>2. m.stream \in DOMAIN given /\ \A k \in DOMAIN out : out[k].stream < m.stream
  <2>1. m.stream \in DOMAIN stamp /\ DOMAIN stamp = DOMAIN given
    BY <1>1, InboxTaken, Facts
  <2>. QED  BY <2>1, <1>1, InboxTaken
<1>3. Streamed!Begin(m.stream)
  BY <1>2 DEF Streamed!Begin, Streamed!Newer, Streamed!Emit, Relay
<1>. QED  BY <1>2, <1>3 DEF Streamed!Next

\* An envelope closes.
LEMMA IsEnd ==
    ASSUME ChunkInv, Opened, NEW l, l = Live, Relay("EoS", l),
           Done(l) = given[l] \/ l \in Void \/ l \in failed',
           failed \subseteq failed', UNCHANGED <<given, stamp, watermark>>
    PROVE  Streamed!Next
<1>1. l \in DOMAIN given
  BY LiveFacts
<1>2. Streamed!Within(l)
  BY DEF Streamed!Within, Opened, Live
<1>3. Streamed!Count(l) = Done(l)
  BY SameCount
<1>4. Streamed!End(l)
  BY <1>2, <1>3 DEF Streamed!End, Streamed!Emit, Relay, Void
<1>. QED  BY <1>1, <1>4 DEF Streamed!Next

\* Nothing leaves.
LEMMA IsBreak ==
    ASSUME ChunkInv, watermark' \in Nat, watermark <= watermark', failed \subseteq failed',
           UNCHANGED <<given, stamp, out>>
    PROVE  Streamed!Next
<1>1. watermark \in Nat /\ \A s \in DOMAIN stamp : stamp[s] \in Nat
  BY Facts DEF ControlTypes
<1>2. Void \subseteq Void'
  BY <1>1 DEF Void
<1>. QED  BY <1>2 DEF Streamed!Next, Streamed!Break, Void

LEMMA UpstreamMaps ==
    ASSUME ChunkInv, (\E t \in Stamps : SendSoS(t)) \/ SendChunk \/ SendEoS
    PROVE  Streamed!Next
<1>1. UNCHANGED <<watermark, failed, out>> /\ watermark \in Nat
  BY Facts DEF SendSoS, SendChunk, SendEoS, nodeVars, loopVars, ControlTypes
<1>2. CASE \E t \in Stamps : SendSoS(t)
  <2>1. PICK t \in Stamps : given' = Append(given, 0) /\ stamp' = Append(stamp, t)
    BY <1>2 DEF SendSoS
  <2>2. stamp \in Seq(Stamps)
    BY Facts DEF UpTypes
  <2>3. Void \subseteq Void'
    BY <2>1, <2>2, <1>1, AppendAt DEF Void
  <2>. QED  BY <2>1, <2>3, <1>1 DEF Streamed!Next, Streamed!Give, Void
<1>3. CASE SendChunk
  <2>1. /\ given' = [given EXCEPT ![Latest] = @ + 1] /\ stamp' = stamp /\ ~closed
    BY <1>3 DEF SendChunk
  <2>2. Latest \in DOMAIN given
    BY <2>1, Facts DEF ChunkInv, QueuePart
  <2>. QED  BY <2>1, <2>2, <1>1 DEF Streamed!Next, Streamed!Give
<1>4. CASE SendEoS
  BY <1>1, <1>4, IsBreak DEF SendEoS
<1>. QED  BY <1>2, <1>3, <1>4

LEMMA QuietMaps ==
    ASSUME ChunkInv,
           \/ \E c \in Cancels : Cancel(c)
           \/ Teardown \/ Reply \/ ReadKill \/ Exit \/ Discard \/ DropChunk \/ TakeChunk
           \/ LeaveVoided \/ \E n \in 0..MaxInputs : Submit(n)
           \/ EmittedAll \/ Generate \/ Generated \/ GenerateCancelled \/ EndStream
           \/ UNCHANGED vars
    PROVE  Streamed!Next
<1>1. UNCHANGED <<given, stamp, out, failed, watermark>>
  <2>1. CASE \/ \E c \in Cancels : Cancel(c)
             \/ Teardown \/ Reply \/ ReadKill \/ Exit \/ UNCHANGED vars
    BY <2>1 DEF Cancel, Teardown, Reply, ReadKill, Exit, vars, upstreamVars, nodeVars, loopVars
  <2>2. CASE Discard \/ DropChunk \/ TakeChunk \/ LeaveVoided \/ EndStream
    BY <2>2 DEF Discard, DropChunk, TakeChunk, LeaveVoided, EndStream, Return, upstreamVars,
                loopVars
  <2>3. CASE \E n \in 0..MaxInputs : Submit(n)
    BY <2>3 DEF Submit, upstreamVars, loopVars
  <2>4. CASE EmittedAll \/ Generate \/ Generated \/ GenerateCancelled
    BY <2>4 DEF EmittedAll, Generate, Generated, GenerateCancelled, Return, upstreamVars,
                loopVars
  <2>. QED  BY <2>1, <2>2, <2>3, <2>4
<1>2. watermark \in Nat /\ watermark <= watermark
  BY Facts DEF ControlTypes
<1>. QED  BY <1>1, <1>2, IsBreak

LEMMA BreakMaps ==
    ASSUME ChunkInv, ReadCancel \/ GenerateFails
    PROVE  Streamed!Next
<1>1. UNCHANGED <<given, stamp, out>> /\ failed \subseteq failed'
  BY DEF ReadCancel, GenerateFails, Fail, Return, upstreamVars
<1>2. watermark' \in Nat /\ watermark <= watermark'
  <2>1. watermark \in Nat
    BY Facts DEF ControlTypes
  <2>2. CASE ReadCancel
    <3>1. /\ control # <<>> /\ Head(control) # Kill
          /\ watermark' = Larger(watermark, Head(control))
      BY <2>2 DEF ReadCancel
    <3>2. Head(control) \in Cancels \cup {Infinity, Kill}
      BY <3>1, Facts, TailAt DEF ControlTypes
    <3>3. Head(control) \in Nat
      BY <3>1, <3>2, ChunkAssumption
    <3>. QED  BY <2>1, <3>1, <3>3 DEF Larger
  <2>3. CASE GenerateFails
    BY <2>1, <2>3 DEF GenerateFails, Return, loopVars
  <2>. QED  BY <2>2, <2>3
<1>. QED  BY <1>1, <1>2, IsBreak

LEMMA BeginMaps ==
    ASSUME ChunkInv, (\E kind \in Sessions : StartStream(kind)) \/ StartFails
    PROVE  Streamed!Next
<1>1. PICK m : m = Got
  OBVIOUS
<1>2. /\ Take("SoS") /\ Relay("SoS", m.stream) /\ failed \subseteq failed'
      /\ UNCHANGED <<given, stamp, closed, watermark>>
  BY <1>1 DEF StartStream, StartFails, Return, upstreamVars, loopVars
<1>. QED  BY <1>1, <1>2, IsBegin

LEMMA ChunkMaps ==
    ASSUME ChunkInv, PassChunk \/ EmitGenerated \/ EmitReply \/ AwaitReply
    PROVE  Streamed!Next
<1>1. PICK l : l = Live
  OBVIOUS
<1>2. Done(l) \in Nat /\ Len(pending) \in Nat
  BY DueNumbers
<1>3. UNCHANGED <<given, stamp, watermark, failed>> /\ current # None
  <2>1. CASE PassChunk \/ EmitGenerated
    BY <2>1 DEF PassChunk, EmitGenerated, Generates, Voided, Return, upstreamVars, loopVars
  <2>2. CASE EmitReply \/ AwaitReply
    BY <2>2 DEF EmitReply, AwaitReply, Voided, upstreamVars, loopVars, ChunkInv, HeldPart
  <2>. QED  BY <2>1, <2>2
<1>4. CASE PassChunk \/ EmitGenerated
  <2>1. pc \in Busy /\ Emit(Context, Context)
    BY <1>4 DEF PassChunk, EmitGenerated, Generates, Polled, Busy
  <2>2. pending = <<>>
    BY <1>3, <1>4 DEF PassChunk, EmitGenerated, Generates, Polled, ChunkInv, FifoPart, HeldPart
  <2>3. PICK x : x = Context
    OBVIOUS
  <2>4. x = <<l, Done(l) + 1>> /\ Done(l) + 1 <= given[l]
    <3>1. /\ x = <<l, Done(l) + Len(pending) + 1>>
          /\ Done(l) + Len(pending) + 1 <= given[l]
      BY <2>1, <2>3, <1>1, <1>3, InHand
    <3>2. Done(l) + Len(pending) + 1 = Done(l) + 1
      BY <2>2, <1>2
    <3>. QED  BY <3>1, <3>2
  <2>. QED  BY <2>1, <2>3, <2>4, <1>1, <1>3, IsChunk
<1>5. CASE EmitReply \/ AwaitReply
  <2>1. /\ pending = replies \o requests /\ replies \in Seq(Request)
        /\ requests \in Seq(Request) /\ pending \in Seq(Request)
    BY Facts DEF ChunkInv, FifoPart, SpanTypes
  <2>2. pending # <<>> /\ Emit(Head(pending), Head(pending))
    <3>1. CASE EmitReply
      <4>1. replies # <<>> /\ Emit(Head(pending), Head(replies))
        BY <3>1 DEF EmitReply
      <4>. QED  BY <4>1, <2>1
    <3>2. CASE AwaitReply
      <4>1. /\ ready > 0 /\ ready <= Len(requests) /\ ready \in Nat /\ replies = <<>>
            /\ Emit(Head(pending), Head(requests))
        BY <3>2, Facts DEF AwaitReply, ChunkInv, FifoPart, SpanTypes
      <4>. QED  BY <4>1, <2>1
    <3>. QED  BY <3>1, <3>2, <1>5
  <2>3. Head(pending) = pending[1] /\ 1 \in DOMAIN pending /\ Len(pending) # 0
    BY <2>1, <2>2, TailAt
  <2>4. DueOf(l)
    BY <1>1, <1>3, DueNow DEF ChunkInv
  <2>5. Head(pending) = <<l, Done(l) + 1>> /\ Done(l) + Len(pending) <= given[l]
    BY <2>3, <2>4 DEF DueOf
  <2>6. Opened /\ given[l] \in Nat
    <3>1. Opened
      BY <1>3 DEF ChunkInv, SpanPart
    <3>. QED  BY <3>1, <1>1, LiveFacts, Facts
  <2>7. Done(l) + 1 <= given[l]
    BY <2>3, <2>5, <2>6, <1>2
  <2>8. PICK x : x = Head(pending)
    OBVIOUS
  <2>. QED  BY <2>2, <2>5, <2>7, <2>8, <1>1, <1>3, IsChunk
<1>. QED  BY <1>4, <1>5

LEMMA EndMaps ==
    ASSUME ChunkInv, EndNothing \/ Finish \/ FinishCancelled \/ FinishFails
    PROVE  Streamed!Next
<1>1. PICK l : l = Live
  OBVIOUS
<1>2. CASE EndNothing
  <2>1. PICK m : m = Got
    OBVIOUS
  <2>2. /\ inbox # <<>> /\ m.kind = "EoS" /\ stamp[m.stream] >= watermark
        /\ inbox' = Tail(inbox) /\ session = None /\ Relay("EoS", m.stream)
        /\ UNCHANGED <<given, stamp, closed, watermark, failed>>
    BY <1>2, <2>1 DEF EndNothing, Take, Return, upstreamVars, loopVars
  <2>3. m = inbox[1] /\ m.stream \in DOMAIN stamp
    <3>1. m = inbox[1]
      BY <2>1, <2>2, Facts, TailAt DEF UpTypes, Got
    <3>. QED  BY <3>1, <2>1, <2>2, InboxTaken
  <2>4. Resumes(m.stream) /\ current = None
    BY <2>2, <2>3 DEF Resumes, ChunkInv, FifoPart
  <2>5. Opened /\ m.stream = Live /\ m.stream \in failed
    BY <2>2, <2>3, <2>4 DEF ChunkInv, RestPart
  <2>. QED  BY <2>2, <2>5, <1>1, IsEnd
<1>3. CASE Finish \/ FinishCancelled \/ FinishFails
  <2>1. /\ pc = "finish" /\ Relay("EoS", held.stream) /\ failed \subseteq failed'
        /\ UNCHANGED <<given, stamp, watermark>>
    BY <1>3 DEF Finish, FinishCancelled, FinishFails, Fail, Return, upstreamVars, loopVars
  <2>2. Opened /\ held.stream = l
    BY <2>1, <1>1 DEF ChunkInv, HeldPart
  <2>3. Done(l) = given[l] \/ l \in Void \/ l \in failed'
    <3>1. CASE Finish
      <4>1. requests = <<>> /\ replies = <<>> /\ pending = replies \o requests /\ current # None
        BY <3>1 DEF Finish, Voided, ChunkInv, FifoPart
      <4>2. DueOf(l)
        BY <4>1, <1>1, DueNow DEF ChunkInv
      <4>3. Len(pending) = 0 /\ Done(l) \in Nat
        BY <4>1, DueNumbers
      <4>4. given[l] = Done(l) + Len(pending)
        BY <4>2, <2>1 DEF DueOf
      <4>. QED  BY <4>3, <4>4
    <3>2. CASE FinishCancelled
      <4>1. current = None
        BY <3>2, VoidedHasNoSpan DEF FinishCancelled
      <4>2. stamp[l] < watermark /\ l \in DOMAIN stamp
        BY <4>1, <2>1, <2>2, <1>1, LiveFacts DEF ChunkInv, HeldPart
      <4>. QED  BY <4>2 DEF Void
    <3>3. CASE FinishFails
      BY <3>3, <2>2 DEF FinishFails, Fail
    <3>. QED  BY <3>1, <3>2, <3>3, <1>3
  <2>. QED  BY <2>1, <2>2, <2>3, <1>1, IsEnd
<1>. QED  BY <1>2, <1>3

LEMMA StepMaps == ASSUME ChunkInv, [Next]_vars PROVE Streamed!Next
<1>1. CASE UNCHANGED vars
  BY <1>1, QuietMaps
<1>2. CASE Environment
  BY <1>2, UpstreamMaps, QuietMaps DEF Environment
<1>3. CASE Node
  BY <1>3, QuietMaps, BreakMaps, BeginMaps, ChunkMaps, EndMaps DEF Node
<1>. QED  BY <1>1, <1>2, <1>3 DEF Next

\* What leaves the node keeps the promise of Envelopes: per stream one envelope,
\* in it its own inputs' chunks in their order, none missing from the closed
\* envelope of a sound stream, and none for a stream that is void.
THEOREM EnvelopesAreKept == Spec => KeepsEnvelopes
<1>1. Init => Streamed!Init
  BY DEF Init, Streamed!Init
<1>2. ChunkInv /\ [Next]_vars => Streamed!Next
  BY StepMaps
<1>. QED  BY <1>1, <1>2, ChunkInvariant, PTL DEF Spec, KeepsEnvelopes, Streamed!Spec

-------------------------------------------------------------------------------
(* Voice activity: numbers and sequences.                                    *)

LEMMA MaxOfTwo ==
    ASSUME NEW a \in Int, NEW b \in Int
    PROVE  Max({a, b}) = IF a >= b THEN a ELSE b
<1>. DEFINE m == IF a >= b THEN a ELSE b
<1>1. m \in {a, b} /\ \A y \in {a, b} : m >= y
  OBVIOUS
<1>2. \A x \in {a, b} : (\A y \in {a, b} : x >= y) => x = m
  OBVIOUS
<1>. QED  BY <1>1, <1>2 DEF Max

LEMMA MinOfTwo ==
    ASSUME NEW a \in Int, NEW b \in Int
    PROVE  Min({a, b}) = IF a <= b THEN a ELSE b
<1>. DEFINE m == IF a <= b THEN a ELSE b
<1>1. m \in {a, b} /\ \A y \in {a, b} : m <= y
  OBVIOUS
<1>2. \A x \in {a, b} : (\A y \in {a, b} : x <= y) => x = m
  OBVIOUS
<1>. QED  BY <1>1, <1>2 DEF Min

LEMMA NonNegativeIs ==
    ASSUME NEW n \in Int
    PROVE  NonNegative(n) = IF n >= 0 THEN n ELSE 0
<1>1. Max({0, n}) = IF 0 >= n THEN 0 ELSE n
  BY MaxOfTwo
<1>. QED  BY <1>1 DEF NonNegative

Less == {pair \in Nat \X Nat : pair[1] < pair[2]}

\* Every set of numbers has a least one.
LEMMA MinIsLeast ==
    ASSUME NEW T \in SUBSET Nat, T # {}
    PROVE  Min(T) \in T /\ \A k \in T : Min(T) <= k
<1>1. IsWellFoundedOn(Less, Nat)
  <2>1. IsWellFoundedOn(OpToRel(<, Nat), Nat)
    BY NatLessThanWellFounded
  <2>2. OpToRel(<, Nat) = Less
    BY DEF OpToRel, Less
  <2>. QED  BY <2>1, <2>2
<1>2. \E x \in T : \A y \in T : <<y, x>> \notin Less
  BY <1>1, WFMin
<1>3. PICK m \in T : \A k \in T : <<k, m>> \notin Less
  BY <1>2
<1>4. ASSUME NEW k \in T PROVE m <= k
  <2>1. m \in Nat /\ k \in Nat
    OBVIOUS
  <2>2. ~(k < m)
    BY <1>3, <2>1 DEF Less
  <2>. QED  BY <2>1, <2>2
<1>. QED  BY <1>4 DEF Min

\* What is left of a sequence.
LEMMA SinceIs ==
    ASSUME NEW S, NEW s \in Seq(S), NEW P \in SUBSET DOMAIN s
    PROVE  /\ Since(s, P) \in Seq(S)
           /\ \E m \in 1..(Len(s) + 1) :
                /\ m \in P \/ m = Len(s) + 1
                /\ \A k \in P : m <= k
                /\ Len(Since(s, P)) = Len(s) - m + 1
                /\ \A i \in 1..(Len(s) - m + 1) : Since(s, P)[i] = s[m + i - 1]
<1>. DEFINE T == P \cup {Len(s) + 1}
            m == Min(T)
            r == SubSeq(s, m, Len(s))
<1>1. Len(s) \in Nat /\ DOMAIN s = 1..Len(s)
  OBVIOUS
<1>2. T \in SUBSET Nat /\ T # {}
  BY <1>1
<1>3. m \in T /\ \A k \in T : m <= k
  BY <1>2, MinIsLeast
<1>4. Since(s, P) = r
  BY DEF Since
<1>. HIDE DEF m
<1>5. m \in 1..(Len(s) + 1)
  BY <1>1, <1>3
<1>6. /\ r \in Seq(S) /\ Len(r) = Len(s) - m + 1
      /\ \A i \in 1..(Len(s) - m + 1) : r[i] = s[m + i - 1]
  <2>1. CASE m = Len(s) + 1
    <3>1. r = <<>>
      BY <1>1, <2>1, SubSeqEmpty
    <3>. QED  BY <1>1, <2>1, <3>1
  <2>2. CASE m # Len(s) + 1
    <3>1. m \in 1..Len(s) /\ Len(s) \in 1..Len(s)
      BY <1>1, <1>5, <2>2
    <3>2. /\ r \in Seq(S) /\ Len(r) = IF m <= Len(s) THEN Len(s) - m + 1 ELSE 0
          /\ \A i \in 1..(Len(s) - m + 1) : r[i] = s[m + i - 1]
      BY <3>1, SubSeqProperties
    <3>. QED  BY <1>1, <3>1, <3>2
  <2>. QED  BY <2>1, <2>2
<1>. HIDE DEF r
<1>. QED  BY <1>3, <1>4, <1>5, <1>6

-------------------------------------------------------------------------------
(* Voice activity: what is heard.                                            *)

\* Samples are named by the time they start at: no two in one unit.
Increasing(H) == \A i, j \in DOMAIN H : i < j => H[j] - H[i] >= j - i

HeardOK(H, c) ==
    /\ H \in Seq(Nat) /\ c \in Nat /\ Increasing(H) /\ \A i \in DOMAIN H : H[i] < c

\* The chunk tells the positions and times of samples that were heard.
Covers(k, H, c) ==
    /\ EndPosition(k) <= Len(H) /\ k.end <= c
    /\ \A i \in 1..k.len : H[k.start + i] = k.end - k.len + i - 1

\* Chunks that follow one another up to the last sample.
Line(s, H, c) ==
    /\ s \in Seq(Chunks) /\ \A i \in DOMAIN s : Covers(s[i], H, c)
    /\ \A i \in DOMAIN s : i # 1 => s[i].start = EndPosition(s[i - 1])
    /\ \A i, j \in DOMAIN s : i < j => EndPosition(s[i]) <= s[j].start
    /\ s # <<>> => EndPosition(s[Len(s)]) = Len(H)

\* The next chunk, after a gap or without one.
Follows(k, H, c) ==
    /\ k \in Chunks /\ k.start = Len(H) /\ c + k.len <= k.end

\* What is heard goes on with the samples of the next chunk, at times not passed yet.
LEMMA HeardGrows ==
    ASSUME NEW H, NEW c, HeardOK(H, c), NEW k, Follows(k, H, c)
    PROVE  /\ HeardOK(H \o Samples(k), k.end)
           /\ Len(H \o Samples(k)) = Len(H) + k.len
           /\ \A i \in DOMAIN H : i \in DOMAIN (H \o Samples(k)) /\ (H \o Samples(k))[i] = H[i]
           /\ \A i \in DOMAIN (H \o Samples(k)) : Len(H) < i => c <= (H \o Samples(k))[i]
           /\ Covers(k, H \o Samples(k), k.end)
           /\ Samples(k) \in Seq(Nat)
<1>. DEFINE X == Samples(k)
            G == H \o X
            n == Len(H)
            l == k.len
            e == k.end
<1>1. /\ H \in Seq(Nat) /\ c \in Nat /\ n \in Nat /\ Len(H) = n /\ DOMAIN H = 1..n
      /\ k.start = n /\ l \in Nat \ {0} /\ e \in Nat /\ c + l <= e
  BY DEF HeardOK, Follows, Chunks
<1>0. \A i, j \in DOMAIN H : i < j => H[j] - H[i] >= j - i
  BY DEF HeardOK, Increasing
<1>2. /\ X \in Seq(Nat) /\ Len(X) = l
      /\ \A i \in 1..l : X[i] = e - l + i - 1
  <2>1. X = [i \in 1..l |-> e - l + i - 1]
    BY DEF Samples
  <2>. HIDE DEF l, e
  <2>2. \A i \in 1..l : e - l + i - 1 \in Nat
    BY <1>1
  <2>. HIDE DEF X
  <2>3. X \in [1..l -> Nat]
    BY <2>1, <2>2
  <2>4. X \in Seq(Nat) /\ Len(X) = l
    BY <1>1, <2>3
  <2>. QED  BY <2>1, <2>4
<1>. HIDE DEF X, l, e, n
<1>3. /\ G \in Seq(Nat) /\ Len(G) = n + l /\ DOMAIN G = 1..(n + l)
      /\ \A i \in 1..n : G[i] = H[i]
      /\ \A i \in (n + 1)..(n + l) : G[i] = e - l + (i - n) - 1
  <2>0. H \in Seq(Nat) /\ X \in Seq(Nat) /\ Len(H) = n /\ Len(X) = l
    BY <1>1, <1>2
  <2>5. G \in Seq(Nat) /\ Len(G) = Len(H) + Len(X)
    BY <2>0, ConcatProperties
  <2>1. G \in Seq(Nat) /\ Len(G) = n + l
    BY <2>0, <2>5
  <2>2. DOMAIN G = 1..(n + l)
    BY <1>1, <2>1
  <2>3. \A i \in 1..n : G[i] = H[i]
    BY <1>1, <1>2
  <2>4. ASSUME NEW i \in (n + 1)..(n + l)
        PROVE  G[i] = e - l + (i - n) - 1
    <3>1. i - n \in 1..l
      BY <1>1
    <3>2. G[i] = X[i - n]
      BY <1>1, <1>2, <3>1
    <3>. QED  BY <1>2, <3>1, <3>2
  <2>. QED  BY <2>1, <2>2, <2>3, <2>4
<1>. HIDE DEF G
<1>4. \A i \in 1..n : H[i] \in Nat /\ H[i] < c
  BY <1>1 DEF HeardOK
<1>5. ASSUME NEW i \in DOMAIN G, NEW j \in DOMAIN G, i < j PROVE G[j] - G[i] >= j - i
  <2>1. CASE j <= n
    <3>1. i \in DOMAIN H /\ j \in DOMAIN H /\ G[i] = H[i] /\ G[j] = H[j]
      BY <1>1, <1>3, <1>5, <2>1
    <3>. QED  BY <1>0, <1>5, <3>1
  <2>2. CASE n < i
    <3>1. i \in (n + 1)..(n + l) /\ j \in (n + 1)..(n + l)
      BY <1>1, <1>3, <1>5, <2>2
    <3>. QED  BY <1>1, <1>3, <3>1
  <2>3. CASE i <= n /\ n < j
    <3>1. i \in 1..n /\ n \in 1..n /\ j \in (n + 1)..(n + l)
      BY <1>1, <1>3, <1>5, <2>3
    <3>2. G[i] = H[i] /\ G[j] = e - l + (j - n) - 1
      BY <1>3, <3>1
    <3>3. i = n \/ H[n] - H[i] >= n - i
      BY <1>0, <1>1, <3>1
    <3>4. H[n] \in Nat /\ H[i] \in Nat /\ H[n] < c
      BY <1>4, <3>1
    <3>. QED  BY <1>1, <3>1, <3>2, <3>3, <3>4
  <2>. QED  BY <1>1, <1>3, <2>1, <2>2, <2>3
<1>6. ASSUME NEW i \in DOMAIN G PROVE G[i] < e /\ (n < i => c <= G[i])
  <2>1. CASE i \in 1..n
    BY <1>1, <1>3, <1>4, <2>1
  <2>2. CASE i \in (n + 1)..(n + l)
    BY <1>1, <1>3, <2>2
  <2>. QED  BY <1>1, <1>3, <2>1, <2>2
<1>7. HeardOK(G, e)
  BY <1>1, <1>3, <1>5, <1>6 DEF HeardOK, Increasing
<1>8. Covers(k, G, e)
  <2>1. ASSUME NEW i \in 1..l PROVE G[k.start + i] = e - l + i - 1
    <3>1. n + i \in (n + 1)..(n + l) /\ (n + i) - n = i
      BY <1>1
    <3>. QED  BY <1>1, <1>3, <3>1
  <2>. QED  BY <1>1, <1>3, <2>1 DEF Covers, EndPosition, l, e
<1>. QED  BY <1>1, <1>2, <1>3, <1>6, <1>7, <1>8 DEF G, X, l, e, n

\* Heard samples stay what they are.
LEMMA CoversGrows ==
    ASSUME NEW H \in Seq(Nat), NEW c \in Nat, NEW G \in Seq(Nat), NEW d \in Nat, c <= d,
           Len(H) <= Len(G), \A i \in DOMAIN H : G[i] = H[i],
           NEW k \in Chunks, Covers(k, H, c)
    PROVE  Covers(k, G, d)
<1>1. k.start \in Nat /\ k.len \in Nat \ {0} /\ k.end \in Nat
  BY DEF Chunks
<1>2. ASSUME NEW i \in 1..k.len PROVE G[k.start + i] = k.end - k.len + i - 1
  <2>1. k.start + i \in DOMAIN H
    BY <1>1 DEF Covers, EndPosition
  <2>. QED  BY <2>1 DEF Covers
<1>. QED  BY <1>1, <1>2 DEF Covers, EndPosition

\* A line goes on with the next chunk.
LEMMA LineGrows ==
    ASSUME NEW H, NEW c, HeardOK(H, c), NEW k, Follows(k, H, c), NEW s, Line(s, H, c)
    PROVE  Line(Append(s, k), H \o Samples(k), k.end)
<1>. DEFINE G == H \o Samples(k)
            r == Append(s, k)
            n == Len(s)
<1>1. /\ HeardOK(G, k.end) /\ Len(G) = Len(H) + k.len /\ Covers(k, G, k.end)
      /\ \A i \in DOMAIN H : G[i] = H[i]
  BY HeardGrows
<1>. HIDE DEF G
<1>2. /\ k \in Chunks /\ k.start = Len(H) /\ k.len \in Nat \ {0} /\ k.end \in Nat
      /\ c \in Nat /\ c <= k.end /\ H \in Seq(Nat) /\ G \in Seq(Nat) /\ Len(H) \in Nat
  BY <1>1 DEF Follows, Chunks, HeardOK
<1>3. s \in Seq(Chunks) /\ n \in Nat /\ DOMAIN s = 1..n
  BY DEF Line
<1>4. /\ r \in Seq(Chunks) /\ Len(r) = n + 1 /\ DOMAIN r = 1..(n + 1)
      /\ \A i \in 1..n : r[i] = s[i] /\ r[n + 1] = k
  BY <1>2, <1>3
<1>5. ASSUME NEW i \in DOMAIN r PROVE Covers(r[i], G, k.end)
  <2>1. CASE i = n + 1
    BY <1>1, <1>2, <1>3, <1>4, <2>1, AppendProperties
  <2>2. CASE i # n + 1
    <3>1. i \in DOMAIN s /\ r[i] = s[i] /\ s[i] \in Chunks
      BY <1>3, <1>4, <2>2
    <3>2. Covers(s[i], H, c)
      BY <3>1 DEF Line
    <3>3. Len(H) <= Len(G)
      BY <1>1, <1>2
    <3>. QED  BY <1>1, <1>2, <3>1, <3>2, <3>3, CoversGrows
  <2>. QED  BY <2>1, <2>2
<1>6. r[n + 1] = k
  BY <1>2, <1>3, AppendProperties
<1>7. ASSUME NEW i \in 1..n
      PROVE  EndPosition(s[i]) \in Nat /\ EndPosition(s[i]) <= Len(H) /\ s[i].start \in Nat
  <2>1. s[i] \in Chunks
    BY <1>3
  <2>2. EndPosition(s[i]) \in Nat /\ s[i].start \in Nat
    BY <2>1 DEF Chunks, EndPosition
  <2>3. Covers(s[i], H, c)
    BY <1>3 DEF Line
  <2>. QED  BY <2>2, <2>3 DEF Covers
<1>8. n # 0 => EndPosition(s[n]) = Len(H)
  BY <1>3, EmptySeq DEF Line
<1>9. ASSUME NEW i \in DOMAIN r, i # 1 PROVE r[i].start = EndPosition(r[i - 1])
  <2>1. i - 1 \in 1..n /\ r[i - 1] = s[i - 1]
    BY <1>3, <1>4, <1>9
  <2>2. CASE i = n + 1
    BY <1>2, <1>3, <1>6, <1>8, <2>1, <2>2
  <2>3. CASE i # n + 1
    <3>1. i \in 1..n /\ r[i] = s[i]
      BY <1>3, <1>4, <2>3
    <3>. QED  BY <1>3, <1>9, <2>1, <3>1 DEF Line
  <2>. QED  BY <2>2, <2>3
<1>10. ASSUME NEW i \in DOMAIN r, NEW j \in DOMAIN r, i < j
       PROVE  EndPosition(r[i]) <= r[j].start
  <2>1. i \in 1..n /\ r[i] = s[i]
    BY <1>3, <1>4, <1>10
  <2>2. CASE j = n + 1
    BY <1>2, <1>6, <1>7, <2>1, <2>2
  <2>3. CASE j # n + 1
    <3>1. j \in 1..n /\ r[j] = s[j]
      BY <1>3, <1>4, <2>3
    <3>. QED  BY <1>3, <1>10, <2>1, <3>1 DEF Line
  <2>. QED  BY <2>2, <2>3
<1>11. EndPosition(r[Len(r)]) = Len(G)
  BY <1>1, <1>2, <1>4, <1>6 DEF EndPosition
<1>. HIDE DEF r
<1>. QED  BY <1>4, <1>5, <1>9, <1>10, <1>11 DEF Line, G, r

\* The end of a line is a line.
LEMMA LineSince ==
    ASSUME NEW H, NEW c, HeardOK(H, c), NEW s, Line(s, H, c), NEW P \in SUBSET DOMAIN s
    PROVE  /\ Line(Since(s, P), H, c)
           /\ \A i \in DOMAIN Since(s, P) : \E j \in DOMAIN s : i <= j /\ Since(s, P)[i] = s[j]
<1>. DEFINE r == Since(s, P)
            n == Len(s)
<1>1. s \in Seq(Chunks) /\ n \in Nat /\ DOMAIN s = 1..n
  BY DEF Line
<1>2. PICK m \in 1..(n + 1) :
         Len(r) = n - m + 1 /\ \A i \in 1..(n - m + 1) : r[i] = s[m + i - 1]
  BY <1>1, SinceIs
<1>3. r \in Seq(Chunks)
  BY <1>1, SinceIs
<1>. HIDE DEF r
<1>4. DOMAIN r = 1..(n - m + 1)
  BY <1>2, <1>3
<1>5. \A i \in DOMAIN r : m + i - 1 \in DOMAIN s /\ r[i] = s[m + i - 1] /\ i <= m + i - 1
  BY <1>1, <1>2, <1>4
<1>6. \A i \in DOMAIN r : Covers(r[i], H, c)
  BY <1>5 DEF Line
<1>7. ASSUME NEW i \in DOMAIN r, i # 1 PROVE r[i].start = EndPosition(r[i - 1])
  <2>1. i - 1 \in DOMAIN r /\ m + (i - 1) - 1 = (m + i - 1) - 1 /\ m + i - 1 # 1
    BY <1>1, <1>2, <1>4, <1>7
  <2>. QED  BY <1>5, <2>1 DEF Line
<1>8. ASSUME NEW i \in DOMAIN r, NEW j \in DOMAIN r, i < j
      PROVE  EndPosition(r[i]) <= r[j].start
  <2>1. m + i - 1 < m + j - 1
    BY <1>1, <1>2, <1>4, <1>8
  <2>. QED  BY <1>5, <2>1 DEF Line
<1>9. ASSUME r # <<>> PROVE EndPosition(r[Len(r)]) = Len(H)
  <2>1. Len(r) \in DOMAIN r /\ m + Len(r) - 1 = n
    BY <1>1, <1>2, <1>3, <1>4, <1>9, EmptySeq
  <2>2. s # <<>>
    BY <1>1, <1>5, <2>1
  <2>. QED  BY <1>5, <2>1, <2>2 DEF Line
<1>10. Line(r, H, c)
  BY <1>3, <1>6, <1>7, <1>8, <1>9 DEF Line
<1>. QED  BY <1>5, <1>10 DEF r

-------------------------------------------------------------------------------
(* Voice activity: boundaries and the ring.                                  *)

LEMMA ChunkIs ==
    ASSUME NEW k \in Chunks
    PROVE  k.start \in Nat /\ k.len \in Nat \ {0} /\ k.end \in Nat
BY DEF Chunks

\* Covers, with the fields named.
LEMMA CoversIs ==
    ASSUME NEW H, NEW c, NEW k \in Chunks, Covers(k, H, c)
    PROVE  /\ k.start + k.len <= Len(H) /\ k.end <= c
           /\ \A i \in 1..k.len : H[k.start + i] = k.end - k.len + i - 1
           /\ H[k.start + k.len] = k.end - 1
<1>1. k.len \in 1..k.len /\ k.len \in Nat /\ k.end \in Nat
  BY ChunkIs
<1>2. H[k.start + k.len] = k.end - k.len + k.len - 1
  BY <1>1 DEF Covers
<1>3. k.end - k.len + k.len - 1 = k.end - 1
  BY <1>1
<1>. QED  BY <1>2, <1>3 DEF Covers, EndPosition

\* The position of a time is where the audio from that time on begins; a time that
\* has none is still to come.
LEMMA PositionIs ==
    ASSUME NEW H, NEW c, HeardOK(H, c), NEW s, Line(s, H, c), NEW t \in Int
    PROVE  /\ Position(t, s) = Nil => \A i \in DOMAIN s : s[i].end < t
           /\ Position(t, s) # Nil =>
                /\ s # <<>> /\ Position(t, s) \in Nat
                /\ s[1].start <= Position(t, s) /\ Position(t, s) <= Len(H) /\ t <= c
                /\ \A i \in DOMAIN H : s[1].start < i => (t <= H[i] <=> Position(t, s) < i)
<1>. DEFINE C == {i \in DOMAIN s : t <= s[i].end}
            m == Min(C)
            p == Position(t, s)
<1>1. /\ s \in Seq(Chunks) /\ DOMAIN s = 1..Len(s) /\ Len(s) \in Nat
      /\ H \in Seq(Nat) /\ c \in Nat /\ Len(H) \in Nat /\ DOMAIN H = 1..Len(H)
  BY DEF Line, HeardOK
<1>2. ASSUME NEW i \in DOMAIN s
      PROVE  s[i] \in Chunks /\ s[i].start \in Nat /\ s[i].len \in Nat \ {0} /\ s[i].end \in Nat
  <2>1. s[i] \in Chunks
    BY <1>1
  <2>. QED  BY <2>1, ChunkIs
<1>3. CASE C = {}
  <2>1. p = Nil
    BY <1>3 DEF Position
  <2>2. ASSUME NEW i \in DOMAIN s PROVE s[i].end < t
    BY <1>2, <1>3
  <2>. QED  BY <2>1, <2>2
<1>4. CASE C # {}
  <2>1. C \in SUBSET Nat
    BY <1>1
  <2>2. m \in C /\ \A k \in C : m <= k
    BY <1>4, <2>1, MinIsLeast
  <2>. DEFINE st == s[m].start
              l == s[m].len
              e == s[m].end
              q == NonNegative(l - (e - t))
  <2>3. p = st + q
    BY <1>4 DEF Position
  <2>. HIDE DEF m
  <2>4. m \in DOMAIN s /\ t <= e
    BY <2>2
  <2>5. /\ st \in Nat /\ l \in Nat \ {0} /\ e \in Nat /\ st + l <= Len(H) /\ e <= c
        /\ \A i \in 1..l : H[st + i] = e - l + i - 1
    <3>1. Covers(s[m], H, c)
      BY <2>4 DEF Line
    <3>. QED  BY <1>2, <2>4, <3>1 DEF Covers, EndPosition
  <2>6. s[1].start <= st /\ s # <<>> /\ s[1].start \in Nat
    <3>1. 1 \in DOMAIN s /\ (m = 1 \/ 1 < m)
      BY <1>1, <2>4
    <3>2. CASE m = 1
      BY <1>2, <3>1, <3>2, EmptySeq
    <3>3. CASE 1 < m
      <4>1. EndPosition(s[1]) <= s[m].start
        BY <2>4, <3>1, <3>3 DEF Line
      <4>. QED  BY <1>2, <2>4, <3>1, <4>1, EmptySeq DEF EndPosition
    <3>. QED  BY <3>1, <3>2, <3>3
  <2>15. s[m].start = st
    OBVIOUS
  <2>. HIDE DEF st, l, e
  <2>7. ASSUME s[1].start < st PROVE st \in DOMAIN H /\ H[st] < t
    <3>. DEFINE b == s[m - 1]
    <3>1. m # 1
      BY <2>5, <2>6, <2>7, <2>15
    <3>2. m - 1 \in DOMAIN s /\ m - 1 \notin C
      BY <1>1, <2>2, <2>4, <3>1
    <3>3. st = EndPosition(b)
      BY <2>4, <2>15, <3>1 DEF Line
    <3>4. b \in Chunks /\ Covers(b, H, c)
      BY <1>2, <3>2 DEF Line
    <3>5. b.end < t
      BY <1>2, <3>2
    <3>. HIDE DEF b
    <3>6. H[b.start + b.len] = b.end - 1 /\ b.end \in Nat
      BY <3>4, CoversIs, ChunkIs
    <3>7. st = b.start + b.len
      BY <3>3 DEF EndPosition
    <3>8. st \in DOMAIN H
      BY <1>1, <2>5, <2>6, <2>7
    <3>. QED  BY <3>5, <3>6, <3>7, <3>8
  <2>8. q = IF l - (e - t) >= 0 THEN l - (e - t) ELSE 0
    BY <2>5, NonNegativeIs
  <2>. HIDE DEF q, C
  <2>9. q \in Nat /\ q <= l
    BY <2>4, <2>5, <2>8
  <2>10. p \in Nat /\ s[1].start <= p /\ p <= Len(H) /\ t <= c
    BY <1>1, <2>3, <2>4, <2>5, <2>6, <2>9
  <2>11. p # Nil
    BY <2>10, SegmentAssumption
  <2>. HIDE DEF p
  <2>12. ASSUME NEW i \in DOMAIN H, s[1].start < i PROVE t <= H[i] <=> p < i
    <3>0. /\ i \in Nat /\ \A a \in DOMAIN H : H[a] \in Nat
          /\ \A a, b \in DOMAIN H : a < b => H[b] - H[a] >= b - a
      BY <1>1 DEF HeardOK, Increasing
    <3>1. CASE i <= st
      <4>1. st \in DOMAIN H /\ H[st] < t
        BY <2>5, <2>6, <2>7, <2>12, <3>0, <3>1
      <4>2. H[st] \in Nat
        BY <3>0, <4>1
      <4>3. i < st => H[st] - H[i] >= st - i
        BY <3>0, <4>1
      <4>. QED  BY <2>3, <2>5, <2>9, <3>0, <3>1, <4>1, <4>2, <4>3
    <3>2. CASE st < i /\ i <= st + l
      <4>1. i - st \in 1..l /\ st + (i - st) = i
        BY <2>5, <3>0, <3>2
      <4>2. H[i] = e - l + (i - st) - 1
        BY <2>5, <4>1
      <4>. QED  BY <2>3, <2>5, <2>8, <3>0, <3>2, <4>2
    <3>3. CASE st + l < i
      <4>1. l \in 1..l /\ st + l \in DOMAIN H
        BY <1>1, <2>5
      <4>2. H[st + l] = e - l + l - 1
        BY <2>5, <4>1
      <4>3. H[i] - H[st + l] >= i - (st + l)
        BY <3>0, <3>3, <4>1
      <4>. QED  BY <2>3, <2>4, <2>5, <2>9, <3>0, <3>3, <4>2, <4>3
    <3>. QED  BY <2>5, <3>0, <3>1, <3>2, <3>3
  <2>. QED  BY <2>6, <2>10, <2>11, <2>12 DEF p
<1>. QED  BY <1>3, <1>4

RingOK(R, H, c) ==
    /\ Line(R, H, c) /\ \A i \in DOMAIN R : R[i].len <= ChunkLen
    /\ R # <<>> => Len(H) - R[1].start <= RingSize

\* A cancel drops the chunks before it and trims the one it falls in.
LEMMA EvictedIs ==
    ASSUME NEW H, NEW c, HeardOK(H, c), NEW R, RingOK(R, H, c), NEW w \in Nat
    PROVE  /\ RingOK(Evicted(R, w), H, c)
           /\ \A i \in DOMAIN Evicted(R, w) :
                \E j \in DOMAIN R : Evicted(R, w)[i].end = R[j].end
<1>. DEFINE P == {i \in DOMAIN R : R[i].end > w}
            k == Since(R, P)
            e == k[1].end
            l == k[1].len
            st == k[1].start
            cut == NonNegative(w - (e - l))
            f == [start |-> k[1].start + cut, len |-> k[1].len - cut, end |-> k[1].end]
            r == Evicted(R, w)
<1>1. /\ R \in Seq(Chunks) /\ DOMAIN R = 1..Len(R) /\ Len(R) \in Nat
      /\ Line(R, H, c) /\ \A i \in DOMAIN R : R[i].len <= ChunkLen
  BY DEF RingOK, Line
<1>5. P \in SUBSET DOMAIN R /\ \A i \in P : R[i].end > w
  OBVIOUS
<1>6. r = IF k = <<>> THEN k ELSE [k EXCEPT ![1] = f]
  BY DEF Evicted
<1>. HIDE DEF P, r
<1>2. /\ Line(k, H, c) /\ \A i \in DOMAIN k : \E j \in DOMAIN R : i <= j /\ k[i] = R[j]
  BY <1>1, <1>5, LineSince
<1>7. k \in Seq(Chunks)
  BY <1>2 DEF Line
<1>8. PICK m \in 1..(Len(R) + 1) :
         /\ m \in P \/ m = Len(R) + 1
         /\ Len(k) = Len(R) - m + 1
         /\ \A i \in 1..(Len(R) - m + 1) : k[i] = R[m + i - 1]
  BY <1>1, <1>5, SinceIs
<1>. HIDE DEF k
<1>3. CASE k = <<>>
  <2>1. r = k
    BY <1>3, <1>6
  <2>2. RingOK(k, H, c)
    BY <1>2, <1>3 DEF RingOK
  <2>3. DOMAIN k = {}
    BY <1>3
  <2>. QED  BY <2>1, <2>2, <2>3 DEF r
<1>4. CASE k # <<>>
  <2>1. r = [k EXCEPT ![1] = f]
    BY <1>4, <1>6
  <2>2. 1 \in DOMAIN k /\ DOMAIN k = 1..Len(k) /\ Len(k) \in Nat /\ k[1] \in Chunks
    BY <1>4, <1>7, EmptySeq
  <2>3. e > w
    <3>2. m # Len(R) + 1 /\ k[1] = R[m]
      BY <1>1, <1>8, <2>2
    <3>3. R[m].end > w
      BY <1>5, <1>8, <3>2
    <3>. QED  BY <3>2, <3>3
  <2>4. /\ st \in Nat /\ l \in Nat \ {0} /\ e \in Nat /\ st + l <= Len(H) /\ e <= c
        /\ \A i \in 1..l : H[st + i] = e - l + i - 1
    <3>1. Covers(k[1], H, c)
      BY <1>2, <2>2 DEF Line
    <3>. QED  BY <2>2, <3>1, CoversIs, ChunkIs
  <2>22. k[1] = [start |-> st, len |-> l, end |-> e]
    BY <2>2 DEF Chunks
  <2>. HIDE DEF e, l, st, cut
  <2>5. f = [start |-> st + cut, len |-> l - cut, end |-> e]
    BY DEF st, l, e
  <2>23. f.start = st + cut /\ f.len = l - cut /\ f.end = e
    BY <2>5
  <2>. HIDE DEF f
  <2>6. /\ r \in [1..Len(k) -> Chunks \cup {f}] /\ DOMAIN r = DOMAIN k /\ r[1] = f
        /\ \A i \in DOMAIN k : i # 1 => r[i] = k[i]
    BY <1>7, <2>1, <2>2
  <2>7. cut = IF w - (e - l) >= 0 THEN w - (e - l) ELSE 0
    BY <2>4, NonNegativeIs DEF cut
  <2>24. w \in Nat
    OBVIOUS
  <2>8. cut \in Nat /\ cut < l
    BY <2>3, <2>4, <2>7, <2>24
  <2>9. f \in Chunks
    BY <2>4, <2>5, <2>8 DEF Chunks
  <2>10. r \in Seq(Chunks) /\ Len(r) = Len(k)
    BY <2>2, <2>6, <2>9
  <2>11. EndPosition(f) = EndPosition(k[1]) /\ EndPosition(f) = st + l /\ k[1].start <= f.start
    BY <2>4, <2>8, <2>22, <2>23 DEF EndPosition
  <2>12. Covers(f, H, c)
    <3>1. ASSUME NEW i \in 1..(l - cut) PROVE H[(st + cut) + i] = e - (l - cut) + i - 1
      <4>0. i \in Nat /\ 1 <= i /\ i <= l - cut
        BY <2>4, <2>8
      <4>1. cut + i \in 1..l /\ st + (cut + i) = (st + cut) + i
        BY <2>4, <2>8, <4>0
      <4>2. H[st + (cut + i)] = e - l + (cut + i) - 1
        BY <2>4, <4>1
      <4>. QED  BY <2>4, <2>8, <4>0, <4>1, <4>2
    <3>. QED  BY <2>4, <2>11, <2>23, <3>1 DEF Covers
  <2>13. \A i \in DOMAIN r : EndPosition(r[i]) = EndPosition(k[i]) /\ Covers(r[i], H, c)
    BY <1>2, <2>6, <2>11, <2>12 DEF Line
  <2>14. ASSUME NEW i \in DOMAIN r, i # 1 PROVE r[i].start = EndPosition(r[i - 1])
    <3>1. i - 1 \in DOMAIN r /\ r[i] = k[i]
      BY <2>2, <2>6, <2>14
    <3>. QED  BY <1>2, <2>6, <2>13, <2>14, <3>1 DEF Line
  <2>15. ASSUME NEW i \in DOMAIN r, NEW j \in DOMAIN r, i < j
         PROVE  EndPosition(r[i]) <= r[j].start
    <3>1. j # 1 /\ r[j] = k[j]
      BY <2>2, <2>6, <2>15
    <3>. QED  BY <1>2, <2>6, <2>13, <2>15, <3>1 DEF Line
  <2>16. EndPosition(r[Len(r)]) = Len(H)
    <3>1. Len(r) \in DOMAIN r
      BY <2>2, <2>6, <2>10
    <3>. QED  BY <1>2, <1>4, <2>10, <2>13, <3>1 DEF Line
  <2>17. Line(r, H, c)
    BY <2>10, <2>13, <2>14, <2>15, <2>16 DEF Line
  <2>18. ASSUME NEW i \in DOMAIN r PROVE \E j \in DOMAIN R : r[i].end = R[j].end /\ r[i].len <= R[j].len
    <3>1. PICK j \in DOMAIN R : k[i] = R[j]
      BY <1>2, <2>6
    <3>2. k[i] \in Chunks
      BY <1>7, <2>6
    <3>3. r[i].end = k[i].end /\ r[i].len <= k[i].len
      <4>1. CASE i = 1
        BY <2>4, <2>6, <2>8, <2>22, <2>23, <4>1
      <4>2. CASE i # 1
        BY <2>6, <3>2, <4>2, ChunkIs
      <4>. QED  BY <4>1, <4>2
    <3>. QED  BY <3>1, <3>3
  <2>19. ASSUME NEW i \in DOMAIN r PROVE r[i].len <= ChunkLen
    <3>1. PICK j \in DOMAIN R : r[i].len <= R[j].len
      BY <2>18
    <3>2. r[i] \in Chunks /\ R[j] \in Chunks /\ R[j].len <= ChunkLen /\ ChunkLen \in Nat
      BY <1>1, <2>10, VadAssumption, SegmentAssumption
    <3>3. r[i].len \in Nat /\ R[j].len \in Nat
      BY <3>2, ChunkIs
    <3>. QED  BY <3>1, <3>2, <3>3
  <2>20. Len(H) - r[1].start <= RingSize
    <3>1. PICK j \in DOMAIN R : k[1] = R[j]
      BY <1>2, <2>2
    <3>2. R[1].start <= R[j].start /\ R # <<>> /\ R[1].start \in Nat
      <4>1. 1 \in DOMAIN R /\ R[1] \in Chunks /\ R[j] \in Chunks
        BY <1>1
      <4>2. j = 1 \/ EndPosition(R[1]) <= R[j].start
        BY <1>1, <4>1 DEF Line
      <4>. QED  BY <1>1, <4>1, <4>2, EmptySeq DEF EndPosition, Chunks
    <3>3. Len(H) - R[1].start <= RingSize /\ RingSize \in Nat /\ Len(H) \in Nat
      BY <3>2, SegmentAssumption DEF RingOK, HeardOK
    <3>4. R[1].start <= st /\ r[1].start = st + cut
      BY <2>2, <2>6, <2>22, <2>23, <3>1, <3>2
    <3>. QED  BY <2>4, <2>8, <3>2, <3>3, <3>4
  <2>21. RingOK(r, H, c)
    BY <2>17, <2>19, <2>20 DEF RingOK
  <2>. QED  BY <2>18, <2>21 DEF r
<1>. QED  BY <1>3, <1>4

\* The ring keeps its limit, and the newest chunk.
LEMMA IngestedIs ==
    ASSUME NEW H, NEW c, HeardOK(H, c), NEW R, RingOK(R, H, c),
           NEW k, Follows(k, H, c), k.len <= ChunkLen
    PROVE  RingOK(Ingested(R, k), H \o Samples(k), k.end)
<1>. DEFINE a == Append(R, k)
            fits == {i \in DOMAIN a : EndPosition(k) - a[i].start <= RingSize}
            P == fits \cup {Len(a)}
            r == Since(a, P)
            G == H \o Samples(k)
            n == Len(R)
<1>1. /\ Line(R, H, c) /\ R \in Seq(Chunks) /\ n \in Nat /\ k \in Chunks
  BY DEF RingOK, Line, Follows
<1>2. /\ Line(a, G, k.end) /\ HeardOK(G, k.end) /\ Len(G) = Len(H) + k.len
  BY <1>1, LineGrows, HeardGrows
<1>3. /\ a \in Seq(Chunks) /\ Len(a) = n + 1 /\ DOMAIN a = 1..(n + 1) /\ a[n + 1] = k
      /\ \A i \in 1..n : a[i] = R[i]
  BY <1>1, AppendProperties
<1>4. Ingested(R, k) = r
  BY DEF Ingested
<1>5. /\ P \in SUBSET DOMAIN a
      /\ \A i \in P : i = Len(a) \/ EndPosition(k) - a[i].start <= RingSize
  BY <1>1, <1>3
<1>. HIDE DEF P, a, G
<1>6. Line(r, G, k.end) /\ \A i \in DOMAIN r : \E j \in DOMAIN a : r[i] = a[j]
  BY <1>2, <1>5, LineSince
<1>7. \A i \in DOMAIN a : a[i].len <= ChunkLen
  BY <1>1, <1>3 DEF RingOK
<1>8. \A i \in DOMAIN r : r[i].len <= ChunkLen
  BY <1>6, <1>7
<1>9. ASSUME r # <<>> PROVE Len(G) - r[1].start <= RingSize
  <2>1. PICK m \in 1..(Len(a) + 1) :
           /\ m \in P \/ m = Len(a) + 1
           /\ Len(r) = Len(a) - m + 1
           /\ \A i \in 1..(Len(a) - m + 1) : r[i] = a[m + i - 1]
    BY <1>3, <1>5, SinceIs
  <2>2. r \in Seq(Chunks)
    BY <1>6 DEF Line
  <2>. HIDE DEF r
  <2>3. m # Len(a) + 1 /\ r[1] = a[m]
    BY <1>1, <1>3, <1>9, <2>1, <2>2, EmptySeq
  <2>4. EndPosition(k) = Len(G) /\ k.start = Len(H) /\ k.len \in Nat /\ Len(H) \in Nat
    BY <1>1, <1>2 DEF EndPosition, Follows, HeardOK, Chunks
  <2>5. CASE EndPosition(k) - a[m].start <= RingSize
    BY <2>3, <2>4, <2>5
  <2>6. CASE m = Len(a)
    <3>1. r[1].start = Len(H)
      BY <1>3, <2>3, <2>4, <2>6
    <3>2. ChunkLen \in Nat /\ RingSize \in Nat /\ ChunkLen <= RingSize
      BY VadAssumption, SegmentAssumption
    <3>. QED  BY <1>2, <2>4, <3>1, <3>2
  <2>. QED  BY <1>5, <2>1, <2>3, <2>5, <2>6
<1>. QED  BY <1>4, <1>6, <1>8, <1>9 DEF RingOK, G

-------------------------------------------------------------------------------
(* Voice activity: turns.                                                    *)

Voices == [turn : Turns \cup {Nil}, spoken : Seq(Nat), closed : Segments \cup {Nil}]

LEMMA TurnIs ==
    ASSUME NEW u \in Turns
    PROVE  /\ u # Nil /\ u.ts \in Nat /\ u.from \in Int /\ u.until \in Int \cup {Nil}
           /\ u.mark \in Nat \cup {Nil} /\ u.target \in Nat \cup {Nil}
           /\ u.timeline \in Seq(Chunks) /\ u.emitted \in Nat /\ u.tail \in Int
           /\ u.floor \in Nat \cup {Nil}
BY SegmentAssumption DEF Turns

LEMMA VoiceIs ==
    ASSUME NEW v \in Voices
    PROVE  /\ v.turn \in Turns \cup {Nil} /\ v.spoken \in Seq(Nat)
           /\ v.closed \in Segments \cup {Nil}
BY DEF Voices

\* A turn whose start is still to come.
Waiting(u, sp, R) ==
    /\ u.mark = Nil /\ u.target = Nil /\ u.timeline = <<>> /\ u.emitted = 0 /\ u.floor = Nil
    /\ sp = <<>> /\ \A i \in DOMAIN R : R[i].end < u.from
    /\ u.until # Nil => u.from < u.until

\* A turn that has found its start: the samples it asks for are those after its mark,
\* its own chunks reach back to the mark, and what is sent of it is a prefix.
Running(u, sp, H, c) ==
    /\ u.mark \in 0..Len(H) /\ u.from <= c /\ u.floor \in Nat /\ u.floor <= c
    /\ \A i \in DOMAIN H : u.from <= H[i] /\ u.floor <= H[i] <=> u.mark < i
    /\ Line(u.timeline, H, c) /\ u.timeline # <<>> /\ u.timeline[1].start <= u.mark
    /\ u.mark + u.emitted <= Len(H) /\ sp = SubSeq(H, u.mark + 1, u.mark + u.emitted)
    /\ u.emitted > 0 =>
         /\ u.target = Nil => H[u.mark + u.emitted] < c + u.tail
         /\ u.until # Nil => H[u.mark + u.emitted] < u.until
    /\ u.until = Nil => u.emitted <= RingSize

\* The target is the position of the end, and there is none while the end is to come.
TargetOK(u, H, c) ==
    /\ u.target # Nil =>
         /\ u.target <= Len(H)
         /\ u.until = Nil => u.target = u.mark + RingSize
         /\ u.until # Nil =>
              /\ u.until <= c
              /\ \A i \in DOMAIN H : u.mark < i => (u.until <= H[i] <=> u.target < i)
    /\ u.target = Nil /\ u.until # Nil => \A i \in DOMAIN H : H[i] < u.until

\* An end whose position is known is that of the first sample not asked for.
LEMMA EndResolvedIs ==
    ASSUME NEW H, NEW c, HeardOK(H, c), NEW u \in Turns, NEW sp, Running(u, sp, H, c),
           u.target = Nil, NEW R
    PROVE  LET w == EndResolved(u, R) IN
           /\ w \in Turns /\ Running(w, sp, H, c) /\ TargetOK(w, H, c)
           /\ w.until = Nil => w.target = Nil
           /\ w.mark = u.mark /\ w.until = u.until /\ w.emitted = u.emitted /\ w.tail = u.tail
<1>. DEFINE w == EndResolved(u, R)
            p == Position(u.until, u.timeline)
<1>1. CASE u.until = Nil
  <2>1. w = u
    BY <1>1 DEF EndResolved
  <2>. QED  BY <1>1, <2>1 DEF TargetOK
<1>2. CASE u.until # Nil
  <2>1. w = [u EXCEPT !.target = p]
    BY <1>2 DEF EndResolved, Running
  <2>2. /\ u.until \in Int /\ u.mark \in Nat /\ u.mark <= Len(H)
        /\ Line(u.timeline, H, c) /\ u.timeline # <<>> /\ u.timeline[1].start <= u.mark
        /\ H \in Seq(Nat) /\ Len(H) \in Nat /\ DOMAIN H = 1..Len(H) /\ c \in Nat
    BY <1>2, TurnIs DEF Running, HeardOK
  <2>3. u.timeline \in Seq(Chunks)
    BY <2>2 DEF Line
  <2>4. /\ p = Nil => \A i \in DOMAIN u.timeline : u.timeline[i].end < u.until
        /\ p # Nil =>
             /\ p \in Nat /\ p <= Len(H) /\ u.until <= c
             /\ \A i \in DOMAIN H : u.timeline[1].start < i => (u.until <= H[i] <=> p < i)
    BY <2>2, PositionIs
  <2>. HIDE DEF p
  <2>5. p \in Nat \cup {Nil}
    BY <2>4
  <2>6. /\ w \in Turns /\ w.target = p /\ w.ts = u.ts /\ w.from = u.from /\ w.until = u.until
        /\ w.mark = u.mark /\ w.timeline = u.timeline /\ w.emitted = u.emitted
        /\ w.tail = u.tail /\ w.floor = u.floor
    BY <2>1, <2>5 DEF Turns
  <2>. HIDE DEF w
  <2>7. Running(w, sp, H, c)
    BY <2>6 DEF Running
  <2>8. ASSUME p # Nil, NEW i \in DOMAIN H, u.mark < i PROVE u.until <= H[i] <=> p < i
    <3>1. 1 \in DOMAIN u.timeline
      BY <2>2, <2>3, EmptySeq
    <3>2. u.timeline[1].start \in Nat
      BY <2>3, <3>1, ChunkIs
    <3>3. u.timeline[1].start < i
      BY <2>2, <2>8, <3>2
    <3>. QED  BY <2>4, <2>8, <3>3
  <2>9. ASSUME p = Nil, NEW i \in DOMAIN H PROVE H[i] < u.until
    <3>. DEFINE n == Len(u.timeline)
                k == u.timeline[n]
    <3>1. n \in DOMAIN u.timeline
      BY <2>2, <2>3, EmptySeq
    <3>2. k \in Chunks /\ Covers(k, H, c) /\ EndPosition(k) = Len(H) /\ k.end < u.until
      BY <2>2, <2>3, <2>4, <2>9, <3>1 DEF Line
    <3>. HIDE DEF k
    <3>3. k.end \in Nat /\ H[Len(H)] = k.end - 1
      BY <3>2, ChunkIs, CoversIs DEF EndPosition
    <3>4. i \in Nat /\ i <= Len(H) /\ Len(H) \in DOMAIN H /\ H[i] \in Nat
      BY <2>2
    <3>5. \A a, b \in DOMAIN H : a < b => H[b] - H[a] >= b - a
      BY DEF HeardOK, Increasing
    <3>6. i < Len(H) => H[Len(H)] - H[i] >= Len(H) - i
      BY <2>9, <3>4, <3>5
    <3>. QED  BY <2>2, <3>2, <3>3, <3>4, <3>6
  <2>10. TargetOK(w, H, c)
    BY <1>2, <2>4, <2>6, <2>8, <2>9 DEF TargetOK
  <2>. QED  BY <1>2, <2>6, <2>7, <2>10 DEF w
<1>. QED  BY <1>1, <1>2

\* A start that is found has the turn's audio in the ring from there on, or from the
\* oldest sample the ring still has.
LEMMA StartResolvedIs ==
    ASSUME NEW H, NEW c, HeardOK(H, c), NEW R, RingOK(R, H, c), NEW u \in Turns,
           Waiting(u, <<>>, <<>>)
    PROVE  LET w == StartResolved(u, R) IN
           /\ w \in Turns /\ w.until = u.until /\ w.tail = u.tail /\ w.emitted = 0
           /\ w.mark = Nil => Waiting(w, <<>>, R)
           /\ w.mark # Nil => Running(w, <<>>, H, c) /\ TargetOK(w, H, c)
           /\ w.until = Nil =>
                w.target = Nil /\ (w.mark # Nil => Len(H) - w.mark <= RingSize)
<1>. DEFINE w == StartResolved(u, R)
            p == Position(u.from, R)
            P == {i \in DOMAIN R : EndPosition(R[i]) >= p}
            s == Since(R, P)
            st == R[1].start
            f == R[1].end - R[1].len
            x == [u EXCEPT !.mark = p, !.timeline = s, !.floor = f]
<1>1. /\ u.mark = Nil /\ u.target = Nil /\ u.timeline = <<>> /\ u.emitted = 0 /\ u.floor = Nil
      /\ u.until # Nil => u.from < u.until
  BY DEF Waiting
<1>2. /\ H \in Seq(Nat) /\ Len(H) \in Nat /\ DOMAIN H = 1..Len(H) /\ c \in Nat
      /\ u.from \in Int /\ u.tail \in Int
  BY TurnIs DEF HeardOK
<1>3. Line(R, H, c) /\ R \in Seq(Chunks) /\ DOMAIN R = 1..Len(R) /\ Len(R) \in Nat
  BY DEF RingOK, Line
<1>4. /\ p = Nil => \A i \in DOMAIN R : R[i].end < u.from
      /\ p # Nil =>
           /\ R # <<>> /\ p \in Nat /\ st <= p /\ p <= Len(H) /\ u.from <= c
           /\ \A i \in DOMAIN H : st < i => (u.from <= H[i] <=> p < i)
  BY <1>2, <1>3, PositionIs
<1>5. w = IF p = Nil THEN u ELSE EndResolved(x, R)
  BY <1>1 DEF StartResolved
<1>6. P \in SUBSET DOMAIN R /\ \A i \in DOMAIN R : i \in P <=> EndPosition(R[i]) >= p
  OBVIOUS
<1>. HIDE DEF p, P, w
<1>7. CASE p = Nil
  BY <1>1, <1>4, <1>5, <1>7 DEF Waiting, w
<1>8. CASE p # Nil
  <2>1. 1 \in DOMAIN R /\ R[1] \in Chunks /\ Covers(R[1], H, c)
    BY <1>3, <1>4, <1>8, EmptySeq DEF Line
  <2>2. /\ st \in Nat /\ R[1].len \in Nat \ {0} /\ R[1].end \in Nat /\ R[1].end <= c
        /\ st + R[1].len <= Len(H)
        /\ \A i \in 1..R[1].len : H[st + i] = R[1].end - R[1].len + i - 1
    BY <2>1, ChunkIs, CoversIs
  <2>. DEFINE l == R[1].len
              e == R[1].end
  <2>13. f = e - l
    OBVIOUS
  <2>. HIDE DEF f, st, l, e
  <2>3. H[st + 1] = f /\ st + 1 \in DOMAIN H /\ f \in Nat /\ f <= c
    <3>0. st \in Nat /\ l \in Nat \ {0} /\ e \in Nat /\ e <= c /\ st + l <= Len(H)
      BY <2>2 DEF st, l, e
    <3>1. 1 \in 1..l /\ st + 1 \in DOMAIN H
      BY <1>2, <3>0
    <3>2. H[st + 1] = e - l + 1 - 1
      BY <2>2, <3>1 DEF st, l, e
    <3>3. H[st + 1] \in Nat
      BY <1>2, <3>1
    <3>4. e - l + 1 - 1 = f /\ f <= c
      BY <2>13, <3>0, <1>2
    <3>5. H[st + 1] = f
      BY <3>2, <3>4
    <3>. QED  BY <3>1, <3>3, <3>4, <3>5
  <2>4. ASSUME NEW i \in DOMAIN H PROVE u.from <= H[i] /\ f <= H[i] <=> p < i
    <3>1. \A a, b \in DOMAIN H : a < b => H[b] - H[a] >= b - a
      BY DEF HeardOK, Increasing
    <3>2. i \in Nat /\ H[i] \in Nat /\ H[st + 1] \in Nat
      BY <1>2, <2>3
    <3>3. CASE i <= st
      <4>1. H[st + 1] - H[i] >= (st + 1) - i
        BY <2>2, <2>3, <3>1, <3>2, <3>3
      <4>. QED  BY <1>4, <1>8, <2>2, <2>3, <3>2, <3>3, <4>1
    <3>4. CASE st < i
      <4>1. f <= H[i]
        <5>1. i = st + 1 \/ H[i] - H[st + 1] >= i - (st + 1)
          BY <2>2, <2>3, <3>1, <3>2, <3>4
        <5>. QED  BY <2>2, <2>3, <3>2, <3>4, <5>1
      <4>. QED  BY <1>4, <1>8, <3>4, <4>1
    <3>. QED  BY <2>2, <3>2, <3>3, <3>4
  <2>5. Line(s, H, c)
    BY <1>3, <1>6, LineSince
  <2>6. s # <<>> /\ s[1].start <= p
    <3>1. PICK m \in 1..(Len(R) + 1) :
             /\ m \in P \/ m = Len(R) + 1
             /\ \A k \in P : m <= k
             /\ Len(s) = Len(R) - m + 1
             /\ \A i \in 1..(Len(R) - m + 1) : s[i] = R[m + i - 1]
      BY <1>3, <1>6, SinceIs
    <3>2. Len(R) \in P
      <4>1. EndPosition(R[Len(R)]) = Len(H) /\ Len(R) \in DOMAIN R
        BY <1>3, <1>4, <1>8, EmptySeq DEF Line
      <4>. QED  BY <1>2, <1>4, <1>6, <1>8, <4>1
    <3>3. m \in DOMAIN R /\ m <= Len(R)
      BY <1>3, <3>1, <3>2
    <3>. HIDE DEF s
    <3>4. Len(s) # 0 /\ s[1] = R[m]
      BY <1>3, <3>1, <3>3
    <3>5. s # <<>>
      BY <3>4
    <3>6. CASE m = 1
      BY <1>4, <1>8, <3>4, <3>5, <3>6 DEF st
    <3>7. CASE m # 1
      <4>1. m - 1 \in DOMAIN R /\ m - 1 \notin P
        BY <1>3, <3>1, <3>3, <3>7
      <4>2. R[m].start = EndPosition(R[m - 1])
        BY <1>3, <3>3, <3>7 DEF Line
      <4>3. R[m - 1] \in Chunks
        BY <1>3, <4>1
      <4>4. EndPosition(R[m - 1]) \in Nat /\ ~(EndPosition(R[m - 1]) >= p)
        BY <1>6, <4>1, <4>3, ChunkIs DEF EndPosition
      <4>. QED  BY <1>4, <1>8, <3>4, <3>5, <4>2, <4>4
    <3>. QED  BY <3>6, <3>7
  <2>. HIDE DEF s
  <2>7. s \in Seq(Chunks)
    BY <2>5 DEF Line
  <2>8. /\ x \in Turns /\ x.ts = u.ts /\ x.from = u.from /\ x.until = u.until /\ x.mark = p
        /\ x.target = u.target /\ x.timeline = s /\ x.emitted = u.emitted /\ x.tail = u.tail
        /\ x.floor = f
    BY <1>4, <1>8, <2>3, <2>7 DEF Turns
  <2>. HIDE DEF x
  <2>9. SubSeq(H, p + 1, p + 0) = <<>>
    BY <1>4, <1>8, SubSeqEmpty
  <2>10. Running(x, <<>>, H, c)
    BY <1>1, <1>2, <1>4, <1>8, <2>3, <2>4, <2>5, <2>6, <2>8, <2>9, SegmentAssumption DEF Running
  <2>11. /\ w \in Turns /\ Running(w, <<>>, H, c) /\ TargetOK(w, H, c)
         /\ w.until = Nil => w.target = Nil
         /\ w.mark = x.mark /\ w.until = x.until /\ w.emitted = x.emitted /\ w.tail = x.tail
    BY <1>1, <1>5, <1>8, <2>8, <2>10, EndResolvedIs
  <2>12. Len(H) - p <= RingSize
    <3>1. Len(H) - st <= RingSize /\ RingSize \in Nat
      BY <1>4, <1>8, SegmentAssumption DEF RingOK, st
    <3>. QED  BY <1>2, <1>4, <1>8, <2>2, <3>1
  <2>. QED  BY <1>1, <1>4, <1>8, <2>8, <2>11, <2>12, SegmentAssumption DEF w
<1>. QED  BY <1>7, <1>8

-------------------------------------------------------------------------------
(* Voice activity: what a turn sends.                                        *)

LEMMA SegmentIs ==
    ASSUME NEW k \in Segments
    PROVE  /\ k # Nil /\ k.audio \in Seq(Nat) /\ k.from \in Int /\ k.until \in Int \cup {Nil}
           /\ k.floor \in Nat \cup {Nil}
BY SegmentAssumption DEF Segments

\* The segment has the samples after position a, up to position e if it has an end.
Exact(k, a, e, H) ==
    /\ k.audio = SubSeq(H, a + 1, e)
    /\ \A i \in DOMAIN H :
         H[i] >= k.from /\ (k.floor # Nil => H[i] >= k.floor) /\ (k.until # Nil => H[i] < k.until)
           <=> a < i /\ (k.until # Nil => i <= e)
    /\ k.until = Nil => e = a + RingSize

\* The last finished turn; what is heard from now on does not change what it asked for.
ClosedOK(k, H, c) ==
    k # Nil =>
      /\ k.until # Nil => k.until <= c \/ k.until <= k.from
      /\ k.until = Nil => k.from <= c /\ (k.floor # Nil => k.floor <= c)
      /\ \E a, e \in 0..Len(H) : Exact(k, a, e, H)

\* Finishing sends the rest up to the target, and what was sent with it is exact.
LEMMA FinalizedIs ==
    ASSUME NEW H, NEW c, HeardOK(H, c), NEW v \in Voices, v.turn # Nil,
           Running(v.turn, v.spoken, H, c), TargetOK(v.turn, H, c), v.turn.target # Nil
    PROVE  /\ Finalized(v, H) \in Voices /\ Finalized(v, H).turn = Nil
           /\ ClosedOK(Finalized(v, H).closed, H, c)
           /\ Finalized(v, H).closed # Nil /\ Finalized(v, H).closed.until = v.turn.until
<1>. DEFINE u == v.turn
            m == u.mark
            t == u.target
            n == u.emitted
            z == Max({m, t})
            rest == SubSeq(H, m + n + 1, z)
            k == [audio |-> v.spoken \o rest, from |-> u.from, until |-> u.until,
                  floor |-> u.floor]
            w == Finalized(v, H)
<1>1. u \in Turns /\ v.spoken \in Seq(Nat)
  BY VoiceIs
<1>2. w = [turn |-> Nil, spoken |-> <<>>, closed |-> k]
  BY DEF Finalized
<1>3. /\ u.from \in Int /\ u.until \in Int \cup {Nil} /\ n \in Nat /\ t \in Nat
      /\ m \in Nat /\ m <= Len(H) /\ t <= Len(H) /\ m + n <= Len(H) /\ u.floor \in Nat
      /\ H \in Seq(Nat) /\ Len(H) \in Nat /\ DOMAIN H = 1..Len(H) /\ c \in Nat
      /\ v.spoken = SubSeq(H, m + 1, m + n) /\ u.from <= c /\ u.floor <= c
  BY <1>1, TurnIs DEF Running, TargetOK, HeardOK
<1>4. \A i \in DOMAIN H : u.from <= H[i] /\ u.floor <= H[i] <=> m < i
  BY DEF Running
<1>5. /\ u.until = Nil => t = m + RingSize /\ n <= RingSize
      /\ u.until # Nil =>
           /\ u.until <= c
           /\ \A i \in DOMAIN H : m < i => (u.until <= H[i] <=> t < i)
      /\ u.until # Nil /\ n > 0 => H[m + n] < u.until
  <2>1. /\ u.until = Nil => n <= RingSize
        /\ u.until # Nil /\ n > 0 => H[m + n] < u.until
    BY DEF Running
  <2>2. /\ u.until = Nil => t = m + RingSize
        /\ u.until # Nil =>
             /\ u.until <= c
             /\ \A i \in DOMAIN H : m < i => (u.until <= H[i] <=> t < i)
    BY DEF TargetOK
  <2>. QED  BY <2>1, <2>2
<1>. HIDE DEF u, m, t, n
<1>17. /\ m \in Nat /\ n \in Nat /\ t \in Nat /\ Len(H) \in Nat
       /\ m <= Len(H) /\ t <= Len(H) /\ m + n <= Len(H)
  BY <1>3
<1>6. z = IF m >= t THEN m ELSE t
  BY <1>17, MaxOfTwo
<1>. HIDE DEF z
<1>7. z \in Nat /\ z <= Len(H) /\ m <= z /\ m + n <= z
  <2>1. CASE u.until = Nil
    <3>1. t = m + RingSize /\ n <= RingSize /\ RingSize \in Nat
      BY <1>5, <2>1, SegmentAssumption
    <3>. QED  BY <1>6, <1>17, <3>1
  <2>2. CASE u.until # Nil /\ n > 0
    <3>1. m + n \in DOMAIN H /\ m < m + n
      BY <1>3, <2>2
    <3>2. H[m + n] < u.until /\ u.until \in Int /\ H[m + n] \in Nat
      BY <1>3, <1>5, <2>2, <3>1
    <3>3. u.until <= H[m + n] <=> t < m + n
      BY <1>5, <2>2, <3>1
    <3>4. ~(t < m + n)
      BY <3>2, <3>3
    <3>. QED  BY <1>6, <1>17, <3>4
  <2>3. CASE n = 0
    BY <1>6, <1>17, <2>3
  <2>. QED  BY <1>17, <2>1, <2>2, <2>3
<1>8. v.spoken \o rest = SubSeq(H, m + 1, z)
  <2>1. m + 1 \in 1..(Len(H) + 1) /\ m + n \in ((m + 1) - 1)..Len(H) /\ z \in (m + n)..Len(H)
    BY <1>7, <1>17
  <2>. QED  BY <1>3, <2>1, ConcatAdjacentSubSeq
<1>9. SubSeq(H, m + 1, z) \in Seq(Nat)
  <2>1. ASSUME NEW i \in (m + 1)..z PROVE H[i] \in Nat
    <3>1. i \in DOMAIN H
      BY <1>3, <1>7, <1>17
    <3>. QED  BY <1>3, <3>1
  <2>. QED  BY <1>7, <1>17, <2>1, SubSeqProperties
<1>. HIDE DEF rest
<1>10. k \in Segments
  BY <1>3, <1>8, <1>9 DEF Segments
<1>11. w \in Voices /\ w.turn = Nil /\ w.closed = k
  BY <1>2, <1>10 DEF Voices
<1>12. /\ k.audio = SubSeq(H, m + 1, z) /\ k.from = u.from /\ k.until = u.until
       /\ k.floor = u.floor
  BY <1>8
<1>. HIDE DEF k, w
<1>13. ASSUME NEW i \in DOMAIN H
       PROVE  H[i] >= k.from /\ (k.floor # Nil => H[i] >= k.floor) /\ (k.until # Nil => H[i] < k.until)
                <=> m < i /\ (k.until # Nil => i <= z)
  <2>4. H[i] \in Nat /\ i \in Nat
    BY <1>3
  <2>5. k.floor # Nil
    BY <1>3, <1>12, SegmentAssumption
  <2>1. k.floor # Nil /\ H[i] \in Nat /\ i \in Nat
    BY <2>4, <2>5
  <2>2. H[i] >= k.from /\ H[i] >= k.floor <=> m < i
    BY <1>3, <1>4, <1>12, <2>1
  <2>3. ASSUME k.until # Nil, m < i PROVE H[i] < k.until <=> i <= z
    <3>1. u.until \in Int /\ (u.until <= H[i] <=> t < i)
      BY <1>3, <1>5, <1>12, <2>3
    <3>2. H[i] < u.until <=> i <= t
      BY <1>3, <2>1, <3>1
    <3>. QED  BY <1>6, <1>12, <1>17, <2>1, <2>3, <3>2
  <2>. QED  BY <2>1, <2>2, <2>3
<1>14. k.until = Nil => z = m + RingSize
  BY <1>3, <1>5, <1>6, <1>12, SegmentAssumption
<1>15. Exact(k, m, z, H)
  BY <1>12, <1>13, <1>14 DEF Exact
<1>16. ClosedOK(k, H, c)
  <2>1. m \in 0..Len(H) /\ z \in 0..Len(H)
    BY <1>3, <1>7
  <2>. QED  BY <1>3, <1>5, <1>12, <1>15, <2>1 DEF ClosedOK
<1>18. k # Nil /\ k.until = v.turn.until
  BY <1>10, <1>12, SegmentAssumption DEF u
<1>. QED  BY <1>11, <1>16, <1>18 DEF w

LEMMA FullChunks ==
    ASSUME NEW n \in Nat, NEW d \in Nat \ {0}
    PROVE  d * (n \div d) \in 0..n
OBVIOUS

\* A drain sends full chunks, never past what is known to be the turn's.
LEMMA DrainedIs ==
    ASSUME NEW H, NEW c, HeardOK(H, c), NEW v \in Voices, v.turn # Nil,
           Running(v.turn, v.spoken, H, c), TargetOK(v.turn, H, c),
           v.turn.until = Nil => Len(H) - v.turn.mark <= RingSize \/ v.turn.target # Nil
    PROVE  LET d == Drained(v, H) IN
           /\ d \in Voices /\ d.turn # Nil /\ d.closed = v.closed
           /\ Running(d.turn, d.spoken, H, c) /\ TargetOK(d.turn, H, c)
           /\ d.turn.until = v.turn.until /\ d.turn.tail = v.turn.tail
           /\ d.turn.mark = v.turn.mark /\ d.turn.target = v.turn.target
<1>. DEFINE u == v.turn
            m == u.mark
            n == u.emitted
            L == Limit(u, Len(H))
            enough == NonNegative(L - n)
            to == n + StreamChunk * (enough \div StreamChunk)
            more == SubSeq(H, m + n + 1, m + to)
            x == [u EXCEPT !.emitted = to]
            d == Drained(v, H)
<1>1. u \in Turns /\ v.spoken \in Seq(Nat)
  BY VoiceIs
<1>2. d = [v EXCEPT !.turn = x, !.spoken = v.spoken \o more]
  BY DEF Drained
<1>3. /\ u.from \in Int /\ u.until \in Int \cup {Nil} /\ n \in Nat /\ u.target \in Nat \cup {Nil}
      /\ u.tail \in Int /\ m \in Nat /\ m <= Len(H) /\ m + n <= Len(H)
      /\ H \in Seq(Nat) /\ Len(H) \in Nat /\ DOMAIN H = 1..Len(H) /\ c \in Nat
      /\ v.spoken = SubSeq(H, m + 1, m + n)
  <2>1. /\ u.from \in Int /\ u.until \in Int \cup {Nil} /\ n \in Nat
        /\ u.target \in Nat \cup {Nil} /\ u.tail \in Int
    BY <1>1, TurnIs
  <2>2. H \in Seq(Nat) /\ Len(H) \in Nat /\ DOMAIN H = 1..Len(H) /\ c \in Nat
    BY DEF HeardOK
  <2>3. m \in 0..Len(H) /\ m + n <= Len(H) /\ v.spoken = SubSeq(H, m + 1, m + n)
    BY DEF Running
  <2>. QED  BY <2>1, <2>2, <2>3
<1>. HIDE DEF u, m, n
<1>. DEFINE back == NonNegative(-u.tail)
<1>4. back = (IF -u.tail >= 0 THEN -u.tail ELSE 0) /\ back \in Nat
  <2>1. -u.tail \in Int
    BY <1>3
  <2>. QED  BY <2>1, NonNegativeIs
<1>. HIDE DEF back
<1>5. /\ L \in Int
      /\ L > 0 => L <= Len(H) - m
      /\ u.target = Nil /\ L > 0 => L <= Len(H) - m - back
      /\ u.target # Nil /\ L > 0 => L <= u.target - m
  <2>1. CASE u.target = Nil
    <3>. DEFINE a == Len(H) - m - back
    <3>1. L = NonNegative(a)
      BY <2>1 DEF Limit, back, m
    <3>2. a \in Int
      BY <1>3, <1>4
    <3>3. L = IF a >= 0 THEN a ELSE 0
      BY <3>1, <3>2, NonNegativeIs
    <3>. HIDE DEF L
    <3>. QED  BY <1>3, <1>4, <2>1, <3>3
  <2>2. CASE u.target # Nil
    <3>. DEFINE a == Len(H) - m
                b == u.target - m
    <3>1. L = Min({a, NonNegative(b)})
      BY <2>2 DEF Limit, m
    <3>2. a \in Int /\ b \in Int /\ a = Len(H) - m /\ b = u.target - m
      BY <1>3, <2>2
    <3>. HIDE DEF a, b, L
    <3>3. NonNegative(b) = IF b >= 0 THEN b ELSE 0
      BY <3>2, NonNegativeIs
    <3>4. NonNegative(b) \in Int
      BY <3>2, <3>3
    <3>5. L = IF a <= NonNegative(b) THEN a ELSE NonNegative(b)
      BY <3>1, <3>2, <3>4, MinOfTwo
    <3>. QED  BY <2>2, <3>2, <3>3, <3>5
  <2>. QED  BY <2>1, <2>2
<1>. HIDE DEF L
<1>6. enough = (IF L - n >= 0 THEN L - n ELSE 0) /\ enough \in Nat
  <2>1. L - n \in Int
    BY <1>3, <1>5
  <2>. QED  BY <2>1, NonNegativeIs
<1>. HIDE DEF enough
<1>7. to \in Nat /\ n <= to /\ to - n <= enough
  <2>. DEFINE full == StreamChunk * (enough \div StreamChunk)
  <2>1. full \in 0..enough
    BY <1>6, FullChunks, SegmentAssumption
  <2>2. to = n + full
    OBVIOUS
  <2>. HIDE DEF full, to
  <2>3. n \in Nat /\ enough \in Nat
    BY <1>3, <1>6
  <2>. QED  BY <2>1, <2>2, <2>3
<1>. HIDE DEF to
<1>8. to = n \/ (to > 0 /\ L > 0 /\ to <= L)
  BY <1>3, <1>5, <1>6, <1>7
<1>9. m + to <= Len(H)
  BY <1>3, <1>5, <1>7, <1>8
<1>10. v.spoken \o more = SubSeq(H, m + 1, m + to)
  <2>1. /\ m + 1 \in 1..(Len(H) + 1) /\ m + n \in ((m + 1) - 1)..Len(H)
        /\ m + to \in (m + n)..Len(H)
    BY <1>3, <1>7, <1>9
  <2>. QED  BY <1>3, <2>1, ConcatAdjacentSubSeq
<1>11. SubSeq(H, m + 1, m + to) \in Seq(Nat)
  <2>1. ASSUME NEW i \in (m + 1)..(m + to) PROVE H[i] \in Nat
    <3>1. i \in DOMAIN H
      BY <1>3, <1>7, <1>9
    <3>. QED  BY <1>3, <3>1
  <2>. QED  BY <1>3, <1>7, <2>1, SubSeqProperties
<1>. HIDE DEF more
<1>12. /\ x \in Turns /\ x.emitted = to /\ x.ts = u.ts /\ x.from = u.from /\ x.until = u.until
       /\ x.mark = u.mark /\ x.target = u.target /\ x.timeline = u.timeline
       /\ x.tail = u.tail /\ x.floor = u.floor
  BY <1>1, <1>7 DEF Turns, u
<1>. HIDE DEF x
<1>13. /\ d \in Voices /\ d.turn = x /\ d.spoken = SubSeq(H, m + 1, m + to)
       /\ d.closed = v.closed
  BY <1>2, <1>10, <1>11, <1>12 DEF Voices
<1>14. ASSUME to > 0
       PROVE  /\ u.target = Nil => H[m + to] < c + u.tail
              /\ u.until # Nil => H[m + to] < u.until
  <2>1. CASE to = n
    BY <1>14, <2>1 DEF Running, u, m, n
  <2>2. CASE to # n
    <3>. DEFINE q == m + to
                z == Len(H)
    <3>1. L > 0 /\ to <= L
      BY <1>8, <2>2
    <3>6. /\ q = m + to /\ m \in Nat /\ to \in Nat /\ z \in Nat /\ L \in Int /\ c \in Nat
          /\ u.tail \in Int /\ z = Len(H) /\ q \in Nat /\ q <= z /\ m < q
      BY <1>3, <1>5, <1>7, <1>9, <1>14
    <3>7. z \in DOMAIN H /\ q \in DOMAIN H
      BY <1>3, <3>6
    <3>. HIDE DEF q, z
    <3>2. H[q] \in Nat /\ H[z] \in Nat /\ H[z] < c /\ q \in DOMAIN H
      BY <3>7 DEF HeardOK
    <3>3. q < z => H[z] - H[q] >= z - q
      BY <3>7 DEF HeardOK, Increasing
    <3>4. CASE u.target = Nil
      <4>1. L <= Len(H) - m - back
        BY <1>5, <3>1, <3>4
      <4>2. q + back <= z
        BY <1>4, <3>1, <3>6, <4>1
      <4>3. H[q] < c + u.tail
        <5>1. H[q] + back <= H[z]
          <6>1. CASE q = z
            BY <1>4, <3>2, <3>6, <4>2, <6>1
          <6>2. CASE q < z
            <7>1. H[z] - H[q] >= z - q
              BY <3>3, <6>2
            <7>. QED  BY <1>4, <3>2, <3>6, <4>2, <7>1
          <6>. QED  BY <3>6, <6>1, <6>2
        <5>2. -u.tail <= back
          BY <1>4, <3>6
        <5>. QED  BY <1>4, <3>2, <3>6, <5>1, <5>2
      <4>4. u.until # Nil => H[q] < u.until
        BY <3>2, <3>4 DEF TargetOK, u
      <4>. QED  BY <3>4, <4>3, <4>4 DEF q
    <3>5. CASE u.target # Nil
      <4>1. L <= u.target - m /\ u.target \in Nat
        BY <1>3, <1>5, <3>1, <3>5
      <4>2. q <= u.target
        BY <3>1, <3>6, <4>1
      <4>3. u.until # Nil => (u.until <= H[q] <=> u.target < q)
        BY <3>2, <3>5, <3>6 DEF TargetOK, u, m
      <4>4. u.until # Nil => u.until \in Int
        BY <1>3
      <4>. QED  BY <3>2, <3>5, <3>6, <4>1, <4>2, <4>3, <4>4 DEF q
    <3>. QED  BY <3>4, <3>5
  <2>. QED  BY <2>1, <2>2
<1>15. ASSUME u.until = Nil PROVE to <= RingSize
  <2>1. CASE to = n
    BY <1>15, <2>1 DEF Running, u, n
  <2>2. CASE to # n /\ u.target = Nil
    <3>1. Len(H) - m <= RingSize
      BY <1>15, <2>2 DEF u, m
    <3>. QED  BY <1>3, <1>7, <1>9, <3>1, SegmentAssumption
  <2>3. CASE to # n /\ u.target # Nil
    <3>1. u.target = m + RingSize
      BY <1>15, <2>3 DEF TargetOK, u, m
    <3>. QED  BY <1>3, <1>5, <1>7, <1>8, <2>3, <3>1, SegmentAssumption
  <2>. QED  BY <2>1, <2>2, <2>3
<1>16. Running(x, SubSeq(H, m + 1, m + to), H, c)
  <2>1. /\ m \in 0..Len(H) /\ u.from <= c /\ u.floor \in Nat /\ u.floor <= c
        /\ \A i \in DOMAIN H : u.from <= H[i] /\ u.floor <= H[i] <=> m < i
        /\ Line(u.timeline, H, c) /\ u.timeline # <<>> /\ u.timeline[1].start <= m
    BY DEF Running, u, m
  <2>2. x.mark = m
    BY <1>12 DEF m
  <2>. HIDE DEF m
  <2>. QED  BY <1>9, <1>12, <1>14, <1>15, <2>1, <2>2 DEF Running
<1>17. TargetOK(x, H, c)
  BY <1>12 DEF TargetOK, u
<1>. QED  BY <1>12, <1>13, <1>16, <1>17, TurnIs DEF u, m

-------------------------------------------------------------------------------
(* Voice activity: the handlers.                                             *)

OpenOK(v, R, H, c, b) ==
    v.turn # Nil =>
      /\ v.turn.target = Nil /\ v.turn.tail \in {ManualEnd, AutoEnd}
      /\ ~b => v.turn.emitted = 0
      /\ v.turn.mark = Nil => Waiting(v.turn, v.spoken, R)
      /\ v.turn.mark # Nil =>
           /\ Running(v.turn, v.spoken, H, c)
           /\ v.turn.until = Nil => Len(H) - v.turn.mark <= RingSize

VoiceOK(v, R, H, c, b) ==
    v \in Voices /\ OpenOK(v, R, H, c, b) /\ ClosedOK(v.closed, H, c)

\* The turn u goes on with the same end, or is the one closed in v.
Follower(u, v) ==
    IF v.turn # Nil THEN v.turn.until = u.until
    ELSE v.closed # Nil /\ v.closed.until = u.until

\* A turn whose end is known and heard is finished, any other goes on.
LEMMA SettledIs ==
    ASSUME NEW H, NEW c, HeardOK(H, c), NEW R, NEW b \in BOOLEAN,
           NEW v \in Voices, v.turn # Nil, v.turn.mark # Nil,
           Running(v.turn, v.spoken, H, c), TargetOK(v.turn, H, c),
           v.turn.tail \in {ManualEnd, AutoEnd}, ~b => v.turn.emitted = 0,
           v.turn.until = Nil => Len(H) - v.turn.mark <= RingSize \/ v.turn.target # Nil,
           ClosedOK(v.closed, H, c)
    PROVE  /\ VoiceOK(Settled(v, H, b), R, H, c, b)
           /\ v.turn.target = Nil => Settled(v, H, b).turn # Nil
           /\ Follower(v.turn, Settled(v, H, b))
<1>. DEFINE d == IF b THEN Drained(v, H) ELSE v
            w == Settled(v, H, b)
<1>1. /\ d \in Voices /\ d.turn # Nil /\ d.closed = v.closed
      /\ Running(d.turn, d.spoken, H, c) /\ TargetOK(d.turn, H, c)
      /\ d.turn.until = v.turn.until /\ d.turn.tail = v.turn.tail
      /\ d.turn.mark = v.turn.mark /\ d.turn.target = v.turn.target
      /\ ~b => d.turn.emitted = 0
  <2>1. CASE b
    BY <2>1, DrainedIs
  <2>2. CASE ~b
    BY <2>2
  <2>. QED  BY <2>1, <2>2
<1>2. w = IF Complete(d.turn, Len(H)) THEN Finalized(d, H) ELSE d
  BY DEF Settled
<1>. HIDE DEF d, w
<1>3. CASE d.turn.target = Nil
  <2>1. w = d
    BY <1>2, <1>3 DEF Complete
  <2>2. d.turn.until = Nil => Len(H) - d.turn.mark <= RingSize
    BY <1>1, <1>3
  <2>. QED  BY <1>1, <1>3, <2>1, <2>2 DEF VoiceOK, OpenOK, Follower, w
<1>4. CASE d.turn.target # Nil
  <2>1. d.turn.mark \in Nat /\ d.turn.target \in Nat /\ d.turn.mark # Nil
    <3>1. d.turn \in Turns
      BY <1>1, VoiceIs
    <3>. QED  BY <1>1, <1>4, <3>1, TurnIs
  <2>2. d.turn.mark <= Len(H) /\ d.turn.target <= Len(H) /\ Len(H) \in Nat
    BY <1>1, <1>4 DEF Running, TargetOK, HeardOK
  <2>3. Max({d.turn.mark, d.turn.target}) <= Len(H)
    BY <2>1, <2>2, MaxOfTwo
  <2>4. Len(H) >= Max({d.turn.mark, d.turn.target})
    BY <2>1, <2>2, <2>3, MaxOfTwo
  <2>5. w = Finalized(d, H)
    BY <1>2, <1>4, <2>1, <2>4 DEF Complete
  <2>6. /\ w \in Voices /\ w.turn = Nil /\ ClosedOK(w.closed, H, c)
        /\ w.closed # Nil /\ w.closed.until = d.turn.until
    BY <1>1, <1>4, <2>5, FinalizedIs
  <2>. QED  BY <1>1, <1>4, <2>6 DEF VoiceOK, OpenOK, Follower, w
<1>. QED  BY <1>3, <1>4

\* The limit sets a target a ring's length after the mark, which is heard already.
LEMMA CappedIs ==
    ASSUME NEW H, NEW c, HeardOK(H, c), NEW u \in Turns, NEW sp, u.mark # Nil,
           Running(u, sp, H, c), TargetOK(u, H, c)
    PROVE  LET x == Capped(u, Len(H)) IN
           /\ x \in Turns /\ Running(x, sp, H, c) /\ TargetOK(x, H, c)
           /\ x.mark = u.mark /\ x.until = u.until /\ x.tail = u.tail /\ x.emitted = u.emitted
           /\ x.until = Nil => Len(H) - x.mark <= RingSize \/ x.target # Nil
<1>. DEFINE x == Capped(u, Len(H))
            t == u.mark + RingSize
            y == [u EXCEPT !.target = t]
            long == u.until = Nil /\ u.target = Nil /\ Len(H) - u.mark >= RingSize
<1>1. x = IF long THEN y ELSE u
  BY DEF Capped
<1>2. /\ u.mark \in Nat /\ RingSize \in Nat /\ Len(H) \in Nat
  BY TurnIs, SegmentAssumption DEF HeardOK
<1>3. CASE long
  <2>1. x = y
    BY <1>1, <1>3
  <2>2. t \in Nat /\ t # Nil /\ t <= Len(H)
    BY <1>2, <1>3, SegmentAssumption
  <2>3. /\ y \in Turns /\ y.target = t /\ y.ts = u.ts /\ y.from = u.from /\ y.until = u.until
        /\ y.mark = u.mark /\ y.timeline = u.timeline /\ y.emitted = u.emitted
        /\ y.tail = u.tail /\ y.floor = u.floor
    BY <2>2 DEF Turns
  <2>. HIDE DEF y
  <2>4. Running(y, sp, H, c)
    BY <1>3, <2>3 DEF Running
  <2>5. TargetOK(y, H, c)
    BY <1>3, <2>2, <2>3 DEF TargetOK
  <2>. QED  BY <2>1, <2>2, <2>3, <2>4, <2>5 DEF x
<1>4. CASE ~long
  <2>1. x = u
    BY <1>1, <1>4
  <2>2. u.until = Nil => Len(H) - u.mark <= RingSize \/ u.target # Nil
    BY <1>2, <1>4
  <2>. QED  BY <2>1, <2>2 DEF x
<1>. QED  BY <1>3, <1>4

LEMMA NewTurnIs ==
    ASSUME NEW ts \in Nat, NEW from \in Int, NEW tail \in Int
    PROVE  Turn(ts, from, tail) \in Turns
BY DEF Turns, Turn

\* A start opens a turn, which discards one that is still open.
LEMMA StartedIs ==
    ASSUME NEW H, NEW c, HeardOK(H, c), NEW R, RingOK(R, H, c), NEW b \in BOOLEAN,
           NEW v \in Voices, ClosedOK(v.closed, H, c),
           NEW ts \in Nat, NEW offset \in Int, NEW tail \in {ManualEnd, AutoEnd}
    PROVE  /\ VoiceOK(Started(v, ts, offset, tail, R, H, b), R, H, c, b)
           /\ Started(v, ts, offset, tail, R, H, b).turn # Nil
           /\ Started(v, ts, offset, tail, R, H, b).turn.until = Nil
<1>. DEFINE u == Turn(ts, ts + offset, tail)
            x == StartResolved(u, R)
            y == [v EXCEPT !.turn = x, !.spoken = <<>>]
            w == Started(v, ts, offset, tail, R, H, b)
<1>1. w = Settled(y, H, b)
  BY DEF Started
<1>2. u = [ts |-> ts, from |-> ts + offset, until |-> Nil, mark |-> Nil, target |-> Nil,
           timeline |-> <<>>, emitted |-> 0, tail |-> tail, floor |-> Nil]
  BY DEF Turn
<1>3. u \in Turns /\ Waiting(u, <<>>, <<>>) /\ u.until = Nil /\ u.tail = tail
  <2>1. tail \in Int /\ ts + offset \in Int
    BY VadAssumption
  <2>2. <<>> \in Seq(Chunks) /\ DOMAIN <<>> = {}
    OBVIOUS
  <2>3. u \in Turns
    BY <2>1, NewTurnIs
  <2>. QED  BY <1>2, <2>2, <2>3 DEF Waiting
<1>. HIDE DEF u
<1>4. /\ x \in Turns /\ x.until = u.until /\ x.tail = u.tail /\ x.emitted = 0
      /\ x.mark = Nil => Waiting(x, <<>>, R)
      /\ x.mark # Nil => Running(x, <<>>, H, c) /\ TargetOK(x, H, c)
      /\ x.until = Nil => x.target = Nil /\ (x.mark # Nil => Len(H) - x.mark <= RingSize)
  BY <1>3, StartResolvedIs
<1>. HIDE DEF x
<1>5. y \in Voices /\ y.turn = x /\ y.spoken = <<>> /\ y.closed = v.closed /\ y.turn # Nil
  <2>1. <<>> \in Seq(Nat)
    OBVIOUS
  <2>. QED  BY <1>4, <2>1, TurnIs DEF Voices
<1>. HIDE DEF y, w
<1>6. CASE x.mark = Nil
  <2>1. w = y
    BY <1>1, <1>5, <1>6 DEF Settled
  <2>. QED  BY <1>3, <1>4, <1>5, <1>6, <2>1 DEF VoiceOK, OpenOK, w
<1>7. CASE x.mark # Nil
  <2>1. VoiceOK(w, R, H, c, b) /\ w.turn # Nil /\ Follower(x, w)
    BY <1>1, <1>3, <1>4, <1>5, <1>7, SettledIs
  <2>. QED  BY <1>3, <1>4, <2>1 DEF Follower, w
<1>. QED  BY <1>6, <1>7

\* An end finishes the turn, or tells where it will be finished.
LEMMA EndedIs ==
    ASSUME NEW H, NEW c, HeardOK(H, c), NEW R, RingOK(R, H, c), NEW b \in BOOLEAN,
           NEW v, VoiceOK(v, R, H, c, b), NEW ts \in Nat, b => c <= ts
    PROVE  VoiceOK(Ended(v, ts, R, H, b), R, H, c, b)
<1>. DEFINE u == v.turn
            end == ts + u.tail
            x == [u EXCEPT !.until = end, !.target = Nil]
            w == Ended(v, ts, R, H, b)
            n == Len(H)
<1>1. v \in Voices /\ OpenOK(v, R, H, c, b) /\ ClosedOK(v.closed, H, c)
  BY DEF VoiceOK
<1>2. CASE u = Nil
  BY <1>2 DEF Ended
<1>3. CASE u # Nil
  <2>1. /\ u \in Turns /\ u.tail \in Int /\ u.from \in Int /\ u.emitted \in Nat
        /\ u.tail \in {ManualEnd, AutoEnd} /\ u.target = Nil /\ (~b => u.emitted = 0)
        /\ u.mark \in Nat \cup {Nil}
    <3>1. u \in Turns
      BY <1>1, <1>3, VoiceIs
    <3>. QED  BY <1>1, <1>3, <3>1, TurnIs DEF OpenOK
  <2>2. end \in Int /\ end # Nil
    BY <2>1, SegmentAssumption
  <2>3. n \in Nat /\ H \in Seq(Nat) /\ c \in Nat /\ n # Nil
    BY SegmentAssumption DEF HeardOK
  <2>. DEFINE x0 == [x EXCEPT !.mark = n, !.target = n]
              y0 == [v EXCEPT !.turn = x0]
              e == [v EXCEPT !.turn = EndResolved(x, R)]
  <2>4. w = IF x.mark = Nil /\ x.until <= x.from THEN Finalized(y0, H)
            ELSE IF Complete(e.turn, n) THEN Settled(e, H, b) ELSE e
    BY <1>3 DEF Ended
  <2>5. /\ x \in Turns /\ x.target = Nil /\ x.ts = u.ts /\ x.from = u.from /\ x.until = end
        /\ x.mark = u.mark /\ x.timeline = u.timeline /\ x.emitted = u.emitted
        /\ x.tail = u.tail /\ x.floor = u.floor
    BY <2>1, <2>2 DEF Turns
  <2>. HIDE DEF x, w, u
  <2>6. CASE u.mark = Nil /\ end <= u.from
    <3>1. Waiting(u, v.spoken, R)
      BY <1>1, <1>3, <2>6 DEF OpenOK, u
    <3>2. /\ x0.mark = n /\ x0.target = n /\ x0.emitted = 0 /\ x0.from = u.from
          /\ x0.until = end /\ x0.floor = Nil
      BY <2>5, <3>1 DEF Waiting, Turns
    <3>. HIDE DEF x0
    <3>3. y0.turn = x0 /\ y0.spoken = <<>>
      BY <1>1, <3>1 DEF Voices, Waiting
    <3>. HIDE DEF y0
    <3>. DEFINE rest == SubSeq(H, n + 0 + 1, Max({n, n}))
                k == [audio |-> <<>> \o rest, from |-> u.from, until |-> end, floor |-> Nil]
    <3>4. Max({n, n}) = n
      BY <2>3, MaxOfTwo
    <3>5. rest = <<>>
      BY <2>3, <3>4, SubSeqEmpty
    <3>6. <<>> \o rest = <<>> /\ SubSeq(H, 0 + 1, 0) = <<>>
      <4>1. <<>> \o <<>> = <<>>
        OBVIOUS
      <4>2. SubSeq(H, 0 + 1, 0) = <<>>
        BY SubSeqEmpty
      <4>. QED  BY <3>5, <4>1, <4>2
    <3>7. w = [turn |-> Nil, spoken |-> <<>>, closed |-> k]
      BY <2>4, <2>5, <2>6, <3>2, <3>3 DEF Finalized
    <3>. HIDE DEF rest
    <3>8. /\ k \in Segments /\ k.audio = <<>> /\ k.from = u.from /\ k.until = end
          /\ k.floor = Nil
      <4>1. <<>> \in Seq(Nat)
        OBVIOUS
      <4>. QED  BY <2>1, <2>2, <3>6, <4>1 DEF Segments
    <3>. HIDE DEF k
    <3>9. Exact(k, 0, 0, H)
      <4>1. ASSUME NEW i \in DOMAIN H
            PROVE  /\ ~(H[i] >= k.from /\ H[i] < k.until)
                   /\ ~(0 < i /\ i <= 0) /\ k.until # Nil
        <5>1. H[i] \in Nat /\ i \in Nat
          BY <2>3
        <5>. QED  BY <2>1, <2>2, <2>6, <3>8, <5>1
      <4>. QED  BY <2>2, <3>6, <3>8, <4>1 DEF Exact
    <3>10. ClosedOK(k, H, c)
      <4>1. 0 \in 0..Len(H)
        BY <2>3
      <4>. QED  BY <2>2, <2>6, <3>8, <3>9, <4>1 DEF ClosedOK
    <3>11. w \in Voices /\ w.turn = Nil /\ w.closed = k
      BY <3>7, <3>8 DEF Voices
    <3>. QED  BY <3>10, <3>11 DEF VoiceOK, OpenOK, w
  <2>7. CASE u.mark = Nil /\ ~(end <= u.from)
    <3>1. Waiting(u, v.spoken, R)
      BY <1>1, <1>3, <2>7 DEF OpenOK, u
    <3>2. Position(end, R) = Nil
      <4>1. R \in Seq(Chunks)
        BY DEF RingOK, Line
      <4>2. ASSUME NEW i \in DOMAIN R PROVE ~(end <= R[i].end)
        <5>1. R[i] \in Chunks
          BY <4>1
        <5>2. R[i].end \in Nat /\ R[i].end < u.from
          BY <3>1, <5>1, ChunkIs DEF Waiting
        <5>. QED  BY <2>1, <2>2, <2>7, <5>2
      <4>3. {i \in DOMAIN R : end <= R[i].end} = {}
        BY <4>2
      <4>. QED  BY <4>3 DEF Position
    <3>3. EndResolved(x, R) = [x EXCEPT !.target = Nil]
      BY <2>2, <2>5, <3>1, <3>2 DEF EndResolved, Waiting
    <3>4. [x EXCEPT !.target = Nil] = x
      BY <2>5 DEF Turns
    <3>5. e \in Voices /\ e.turn = x /\ e.spoken = v.spoken /\ e.closed = v.closed
      BY <1>1, <2>5, <3>3, <3>4 DEF Voices
    <3>. HIDE DEF e
    <3>6. w = e
      BY <2>4, <2>5, <2>7, <3>1, <3>5 DEF Complete, Waiting
    <3>7. Waiting(x, v.spoken, R)
      BY <2>1, <2>2, <2>5, <2>7, <3>1 DEF Waiting
    <3>. QED  BY <1>1, <2>1, <2>5, <3>5, <3>6, <3>7 DEF VoiceOK, OpenOK, w, Waiting
  <2>8. CASE u.mark # Nil
    <3>1. Running(u, v.spoken, H, c)
      BY <1>1, <1>3, <2>8 DEF OpenOK, u
    <3>2. ASSUME u.emitted > 0 PROVE H[u.mark + u.emitted] < end
      <4>1. b /\ c <= ts /\ H[u.mark + u.emitted] < c + u.tail
        BY <2>1, <3>1, <3>2 DEF Running
      <4>2. u.mark + u.emitted \in DOMAIN H
        BY <2>1, <2>3, <2>8, <3>1, <3>2 DEF Running
      <4>3. H[u.mark + u.emitted] \in Nat
        BY <2>3, <4>2
      <4>. QED  BY <2>1, <2>3, <4>1, <4>3
    <3>3. Running(x, v.spoken, H, c)
      <4>1. u.emitted > 0 => H[u.mark + u.emitted] < c + u.tail
        BY <2>1, <3>1 DEF Running
      <4>. QED  BY <2>2, <2>5, <3>1, <3>2, <4>1 DEF Running
    <3>. DEFINE y == EndResolved(x, R)
    <3>4. /\ y \in Turns /\ Running(y, v.spoken, H, c) /\ TargetOK(y, H, c)
          /\ y.mark = x.mark /\ y.until = x.until /\ y.emitted = x.emitted /\ y.tail = x.tail
      BY <2>5, <3>3, EndResolvedIs
    <3>. HIDE DEF y
    <3>5. /\ e \in Voices /\ e.turn = y /\ e.spoken = v.spoken /\ e.closed = v.closed
          /\ y # Nil
      BY <1>1, <3>4, TurnIs DEF Voices, y
    <3>. HIDE DEF e
    <3>6. w = IF Complete(y, n) THEN Settled(e, H, b) ELSE e
      BY <2>4, <2>5, <2>8, <3>5
    <3>7. VoiceOK(Settled(e, H, b), R, H, c, b)
      BY <1>1, <2>1, <2>2, <2>5, <2>8, <3>4, <3>5, SettledIs
    <3>8. CASE Complete(y, n)
      BY <3>6, <3>7, <3>8 DEF w
    <3>9. CASE ~Complete(y, n)
      <4>1. y.target = Nil
        <5>1. ASSUME y.target # Nil PROVE FALSE
          <6>1. y.mark \in Nat /\ y.target \in Nat /\ y.mark <= n /\ y.target <= n
            BY <2>3, <2>5, <2>8, <3>4, <5>1, TurnIs DEF Running, TargetOK
          <6>2. n >= Max({y.mark, y.target})
            BY <2>3, <6>1, MaxOfTwo
          <6>. QED  BY <2>5, <2>8, <3>4, <3>9, <5>1, <6>2 DEF Complete
        <5>. QED  BY <5>1
      <4>. QED  BY <1>1, <2>1, <2>2, <2>5, <2>8, <3>4, <3>5, <3>6, <3>9, <4>1 DEF VoiceOK, OpenOK, w
    <3>. QED  BY <3>8, <3>9
  <2>. QED  BY <2>6, <2>7, <2>8
<1>. QED  BY <1>2, <1>3

-------------------------------------------------------------------------------
(* Voice activity: time passes, and more is heard.                           *)

LEMMA SubSeqGrows ==
    ASSUME NEW H \in Seq(Nat), NEW G \in Seq(Nat), Len(H) <= Len(G),
           \A i \in DOMAIN H : G[i] = H[i], NEW m \in Nat \ {0}, NEW e \in 0..Len(H)
    PROVE  SubSeq(G, m, e) = SubSeq(H, m, e)
<1>1. Len(H) \in Nat /\ Len(G) \in Nat /\ DOMAIN H = 1..Len(H) /\ DOMAIN G = 1..Len(G)
  OBVIOUS
<1>2. ASSUME NEW i \in m..e PROVE H[i] \in Nat /\ G[i] = H[i] /\ G[i] \in Nat
  <2>1. i \in DOMAIN H
    BY <1>1
  <2>. QED  BY <1>1, <2>1
<1>3. /\ SubSeq(H, m, e) \in Seq(Nat) /\ Len(SubSeq(H, m, e)) = IF m <= e THEN e - m + 1 ELSE 0
      /\ \A i \in 1..(e - m + 1) : SubSeq(H, m, e)[i] = H[m + i - 1]
  BY <1>2, SubSeqProperties
<1>4. /\ SubSeq(G, m, e) \in Seq(Nat) /\ Len(SubSeq(G, m, e)) = IF m <= e THEN e - m + 1 ELSE 0
      /\ \A i \in 1..(e - m + 1) : SubSeq(G, m, e)[i] = G[m + i - 1]
  BY <1>2, SubSeqProperties
<1>. DEFINE h == SubSeq(H, m, e)
            g == SubSeq(G, m, e)
<1>. HIDE DEF h, g
<1>5. ASSUME NEW i \in 1..Len(g) PROVE g[i] = h[i]
  <2>1. m <= e /\ i \in 1..(e - m + 1)
    BY <1>4, <1>5 DEF g
  <2>2. m + i - 1 \in m..e
    BY <2>1
  <2>. QED  BY <1>2, <1>3, <1>4, <2>1, <2>2 DEF g, h
<1>6. g \in Seq(Nat) /\ h \in Seq(Nat) /\ Len(g) = Len(h)
  BY <1>3, <1>4 DEF g, h
<1>. QED  BY <1>5, <1>6, SeqEqual DEF g, h

\* What is heard later is nothing that the last finished turn asked for, or has no
\* room for it.
LEMMA ClosedGrows ==
    ASSUME NEW H \in Seq(Nat), NEW G \in Seq(Nat), NEW c \in Nat, NEW d \in Nat, c <= d,
           Len(H) <= Len(G), \A i \in DOMAIN H : G[i] = H[i],
           \A i \in DOMAIN G : Len(H) < i => c <= G[i],
           NEW k \in Segments \cup {Nil}, ClosedOK(k, H, c)
    PROVE  ClosedOK(k, G, d)
<1>. SUFFICES ASSUME k # Nil PROVE ClosedOK(k, G, d)
  BY DEF ClosedOK
<1>1. /\ k.from \in Int /\ k.until \in Int \cup {Nil} /\ k.floor \in Nat \cup {Nil}
      /\ Len(H) \in Nat /\ Len(G) \in Nat /\ DOMAIN H = 1..Len(H) /\ DOMAIN G = 1..Len(G)
  BY SegmentIs
<1>2. PICK a \in 0..Len(H), e \in 0..Len(H) : Exact(k, a, e, H)
  BY DEF ClosedOK
<1>3. SubSeq(G, a + 1, e) = SubSeq(H, a + 1, e)
  BY SubSeqGrows
<1>4. ASSUME NEW i \in DOMAIN G
      PROVE  G[i] >= k.from /\ (k.floor # Nil => G[i] >= k.floor) /\ (k.until # Nil => G[i] < k.until)
               <=> a < i /\ (k.until # Nil => i <= e)
  <2>1. CASE i <= Len(H)
    <3>1. i \in DOMAIN H /\ G[i] = H[i]
      BY <1>1, <2>1
    <3>. QED  BY <1>2, <3>1 DEF Exact
  <2>2. CASE Len(H) < i
    <3>1. G[i] \in Nat /\ c <= G[i] /\ i \in Nat /\ a < i /\ ~(i <= e)
      BY <1>1, <2>2
    <3>2. CASE k.until = Nil
      <4>1. k.from <= c /\ (k.floor # Nil => k.floor <= c)
        BY <3>2 DEF ClosedOK
      <4>. QED  BY <1>1, <3>1, <3>2, <4>1
    <3>3. CASE k.until # Nil
      <4>1. k.until <= c \/ k.until <= k.from
        BY <3>3 DEF ClosedOK
      <4>2. ~(G[i] >= k.from /\ G[i] < k.until)
        BY <1>1, <3>1, <3>3, <4>1
      <4>. QED  BY <3>1, <3>3, <4>2
    <3>. QED  BY <3>2, <3>3
  <2>. QED  BY <1>1, <2>1, <2>2
<1>5. Exact(k, a, e, G)
  BY <1>2, <1>3, <1>4 DEF Exact
<1>6. a \in 0..Len(G) /\ e \in 0..Len(G)
  BY <1>1
<1>7. /\ k.until # Nil => k.until <= d \/ k.until <= k.from
      /\ k.until = Nil => k.from <= d /\ (k.floor # Nil => k.floor <= d)
  BY <1>1 DEF ClosedOK
<1>. QED  BY <1>5, <1>6, <1>7 DEF ClosedOK

\* The open turn goes on with the next chunk.
LEMMA RunningGrows ==
    ASSUME NEW H, NEW c, HeardOK(H, c), NEW k, Follows(k, H, c),
           NEW u \in Turns, u.target = Nil, NEW sp, Running(u, sp, H, c)
    PROVE  LET x == [u EXCEPT !.timeline = Append(@, k)] IN
           /\ x \in Turns /\ Running(x, sp, H \o Samples(k), k.end)
           /\ x.target = Nil /\ x.mark = u.mark /\ x.until = u.until /\ x.tail = u.tail
           /\ x.emitted = u.emitted
<1>. DEFINE G == H \o Samples(k)
            d == k.end
            s == Append(u.timeline, k)
            x == [u EXCEPT !.timeline = Append(@, k)]
<1>1. /\ HeardOK(G, d) /\ Len(G) = Len(H) + k.len
      /\ \A i \in DOMAIN H : i \in DOMAIN G /\ G[i] = H[i]
      /\ \A i \in DOMAIN G : Len(H) < i => c <= G[i]
  BY HeardGrows
<1>2. /\ k \in Chunks /\ k.len \in Nat \ {0} /\ d \in Nat /\ c \in Nat /\ c + k.len <= d
      /\ H \in Seq(Nat) /\ Len(H) \in Nat /\ DOMAIN H = 1..Len(H)
  BY ChunkIs DEF Follows, HeardOK
<1>3. G \in Seq(Nat) /\ Len(G) \in Nat /\ DOMAIN G = 1..Len(G)
  BY <1>1 DEF HeardOK
<1>4. /\ u.mark \in Nat /\ u.mark <= Len(H) /\ u.from \in Int /\ u.until \in Int \cup {Nil}
      /\ u.emitted \in Nat /\ u.tail \in Int /\ u.from <= c /\ u.floor \in Nat /\ u.floor <= c
      /\ u.mark + u.emitted <= Len(H) /\ sp = SubSeq(H, u.mark + 1, u.mark + u.emitted)
  <2>1. u.mark \in 0..Len(H)
    BY DEF Running
  <2>. QED  BY <1>2, <2>1, TurnIs DEF Running
<1>5. Line(u.timeline, H, c) /\ u.timeline # <<>> /\ u.timeline[1].start <= u.mark
  BY DEF Running
<1>6. Line(s, G, d)
  BY <1>5, LineGrows
<1>7. u.timeline \in Seq(Chunks) /\ s \in Seq(Chunks)
  BY <1>5, <1>6 DEF Line
<1>8. s # <<>> /\ s[1] = u.timeline[1]
  <2>1. Len(u.timeline) \in Nat \ {0}
    BY <1>5, <1>7, EmptySeq
  <2>. QED  BY <1>2, <1>7, <2>1, AppendProperties
<1>. HIDE DEF G, s, d
<1>9. x = [u EXCEPT !.timeline = s]
  BY DEF s
<1>10. /\ x \in Turns /\ x.target = u.target /\ x.ts = u.ts /\ x.from = u.from
       /\ x.until = u.until /\ x.mark = u.mark /\ x.timeline = s /\ x.emitted = u.emitted
       /\ x.tail = u.tail /\ x.floor = u.floor
  BY <1>7, <1>9 DEF Turns
<1>. HIDE DEF x
<1>. DEFINE m == u.mark
            n == u.emitted
            l == k.len
            z == Len(H)
<1>17. /\ m \in Nat /\ n \in Nat /\ l \in Nat /\ z \in Nat /\ m <= z /\ m + n <= z
       /\ c \in Nat /\ d \in Nat /\ c + l <= d /\ Len(G) = z + l
       /\ u.from \in Int /\ u.floor \in Nat /\ u.from <= c /\ u.floor <= c
  BY <1>1, <1>2, <1>4
<1>. HIDE DEF m, n, l, z
<1>11. ASSUME NEW i \in DOMAIN G PROVE u.from <= G[i] /\ u.floor <= G[i] <=> u.mark < i
  <2>1. CASE i <= Len(H)
    <3>1. i \in DOMAIN H /\ G[i] = H[i]
      BY <1>1, <1>2, <1>3, <2>1
    <3>. QED  BY <3>1 DEF Running
  <2>2. CASE Len(H) < i
    <3>1. c <= G[i] /\ G[i] \in Nat /\ i \in Nat /\ z < i
      BY <1>1, <1>3, <2>2 DEF z
    <3>2. u.from <= G[i] /\ u.floor <= G[i] /\ m < i
      BY <1>17, <3>1
    <3>. QED  BY <3>2 DEF m
  <2>. QED  BY <1>2, <1>3, <2>1, <2>2
<1>12. sp = SubSeq(G, u.mark + 1, u.mark + u.emitted)
  <2>1. u.mark + 1 \in Nat \ {0} /\ u.mark + u.emitted \in 0..Len(H) /\ Len(H) <= Len(G)
    BY <1>17 DEF m, n, z
  <2>. QED  BY <1>1, <1>2, <1>3, <1>4, <2>1, SubSeqGrows
<1>13. ASSUME u.emitted > 0
       PROVE  /\ G[u.mark + u.emitted] < d + u.tail
              /\ u.until # Nil => G[u.mark + u.emitted] < u.until
  <2>. DEFINE q == u.mark + u.emitted
  <2>1. H[q] < c + u.tail /\ (u.until # Nil => H[q] < u.until)
    BY <1>13 DEF Running
  <2>2. q \in DOMAIN H
    <3>1. n > 0 /\ q = m + n
      BY <1>13 DEF n, m
    <3>2. q \in 1..z
      BY <1>17, <3>1
    <3>. QED  BY <1>2, <3>2 DEF z
  <2>3. G[q] = H[q] /\ H[q] \in Nat
    BY <1>1, <1>2, <2>2
  <2>. HIDE DEF q
  <2>4. G[q] < d + u.tail
    BY <1>2, <1>4, <2>1, <2>3
  <2>. QED  BY <2>1, <2>3, <2>4 DEF q
<1>14. u.until = Nil => u.emitted <= RingSize
  BY DEF Running
<1>15. /\ u.mark \in 0..Len(G) /\ u.from <= d /\ u.floor <= d /\ u.mark + u.emitted <= Len(G)
  <2>1. m \in 0..(z + l) /\ u.from <= d /\ u.floor <= d /\ m + n <= z + l
    BY <1>17
  <2>. QED  BY <1>17, <2>1 DEF m, n
<1>16. Running(x, sp, G, d)
  BY <1>4, <1>5, <1>6, <1>8, <1>10, <1>11, <1>12, <1>13, <1>14, <1>15 DEF Running
<1>. QED  BY <1>10, <1>16 DEF G, d, x

\* A chunk is heard.
LEMMA HeardIs ==
    ASSUME NEW H, NEW c, HeardOK(H, c), NEW k, Follows(k, H, c), NEW R, NEW b \in BOOLEAN,
           NEW v, VoiceOK(v, R, H, c, b),
           NEW Q, RingOK(Q, H \o Samples(k), k.end)
    PROVE  /\ VoiceOK(Heard(v, k, Q, H \o Samples(k), b), Q, H \o Samples(k), k.end, b)
           /\ v.turn # Nil => Follower(v.turn, Heard(v, k, Q, H \o Samples(k), b))
<1>. DEFINE G == H \o Samples(k)
            d == k.end
            u == v.turn
            w == Heard(v, k, Q, G, b)
<1>1. v \in Voices /\ OpenOK(v, R, H, c, b) /\ ClosedOK(v.closed, H, c)
  BY DEF VoiceOK
<1>2. /\ HeardOK(G, d) /\ Len(G) = Len(H) + k.len
      /\ \A i \in DOMAIN H : i \in DOMAIN G /\ G[i] = H[i]
      /\ \A i \in DOMAIN G : Len(H) < i => c <= G[i]
  BY HeardGrows
<1>3. /\ k \in Chunks /\ k.len \in Nat \ {0} /\ d \in Nat /\ c \in Nat /\ c + k.len <= d
      /\ H \in Seq(Nat) /\ Len(H) \in Nat
  BY ChunkIs DEF Follows, HeardOK
<1>. HIDE DEF G
<1>4. ClosedOK(v.closed, G, d)
  <2>1. G \in Seq(Nat) /\ c <= d /\ Len(H) <= Len(G)
    BY <1>2, <1>3 DEF HeardOK
  <2>. QED  BY <1>1, <1>2, <1>3, <2>1, ClosedGrows, VoiceIs
<1>5. CASE u = Nil
  <2>1. w = v
    BY <1>5 DEF Heard
  <2>. QED  BY <1>1, <1>4, <1>5, <2>1 DEF VoiceOK, OpenOK, G
<1>6. CASE u # Nil
  <2>. DEFINE x == Extended(u, k, Q)
              y == Capped(x, Len(G))
              e == [v EXCEPT !.turn = y]
  <2>1. u \in Turns
    BY <1>1, <1>6, VoiceIs
  <2>2. w = Settled(e, G, b)
    BY <1>6 DEF Heard
  <2>3. /\ u.target = Nil /\ u.tail \in {ManualEnd, AutoEnd} /\ (~b => u.emitted = 0)
        /\ u.mark = Nil => Waiting(u, v.spoken, R)
        /\ u.mark # Nil => Running(u, v.spoken, H, c)
    BY <1>1, <1>6 DEF OpenOK
  <2>4. /\ x \in Turns /\ x.tail = u.tail /\ x.until = u.until /\ (~b => x.emitted = 0)
        /\ x.mark = Nil => Waiting(x, v.spoken, Q)
        /\ x.mark # Nil => Running(x, v.spoken, G, d) /\ TargetOK(x, G, d)
    <3>1. CASE u.mark = Nil
      <4>1. Waiting(u, <<>>, <<>>) /\ v.spoken = <<>>
        BY <2>3, <3>1 DEF Waiting
      <4>2. x = StartResolved(u, Q)
        BY <3>1 DEF Extended
      <4>. QED  BY <1>2, <2>1, <4>1, <4>2, StartResolvedIs DEF G
    <3>2. CASE u.mark # Nil
      <4>. DEFINE z == [u EXCEPT !.timeline = Append(@, k)]
      <4>1. x = EndResolved(z, Q)
        BY <3>2 DEF Extended
      <4>2. /\ z \in Turns /\ Running(z, v.spoken, G, d) /\ z.target = Nil
            /\ z.mark = u.mark /\ z.until = u.until /\ z.tail = u.tail
            /\ z.emitted = u.emitted
        BY <2>1, <2>3, <3>2, RunningGrows DEF G
      <4>. HIDE DEF z
      <4>3. /\ x \in Turns /\ Running(x, v.spoken, G, d) /\ TargetOK(x, G, d)
            /\ x.mark = z.mark /\ x.until = z.until /\ x.emitted = z.emitted
            /\ x.tail = z.tail
        BY <1>2, <4>1, <4>2, EndResolvedIs
      <4>. QED  BY <2>3, <3>2, <4>2, <4>3
    <3>. QED  BY <3>1, <3>2
  <2>. HIDE DEF x, u, w
  <2>5. CASE x.mark = Nil
    <3>1. y = x
      BY <2>5 DEF Capped
    <3>2. e \in Voices /\ e.turn = x /\ e.spoken = v.spoken /\ e.closed = v.closed
      BY <1>1, <2>4, <3>1 DEF Voices
    <3>3. w = e
      BY <2>2, <2>5, <3>2 DEF Settled
    <3>4. Follower(u, w)
      BY <2>4, <3>2, <3>3, TurnIs DEF Follower
    <3>5. VoiceOK(w, Q, G, d, b)
      BY <1>4, <2>3, <2>4, <2>5, <3>2, <3>3 DEF VoiceOK, OpenOK, Waiting
    <3>. QED  BY <3>4, <3>5 DEF G, u, w
  <2>6. CASE x.mark # Nil
    <3>1. /\ y \in Turns /\ Running(y, v.spoken, G, d) /\ TargetOK(y, G, d)
          /\ y.mark = x.mark /\ y.until = x.until /\ y.tail = x.tail
          /\ y.emitted = x.emitted
          /\ y.until = Nil => Len(G) - y.mark <= RingSize \/ y.target # Nil
      BY <1>2, <2>4, <2>6, CappedIs
    <3>. HIDE DEF y
    <3>2. /\ e \in Voices /\ e.turn = y /\ e.spoken = v.spoken /\ e.closed = v.closed
          /\ y # Nil
      BY <1>1, <3>1, TurnIs DEF Voices
    <3>. HIDE DEF e
    <3>3. VoiceOK(Settled(e, G, b), Q, G, d, b) /\ Follower(y, Settled(e, G, b))
      BY <1>2, <1>4, <2>3, <2>4, <2>6, <3>1, <3>2, SettledIs
    <3>4. VoiceOK(w, Q, G, d, b)
      BY <2>2, <3>3
    <3>5. Follower(u, w)
      BY <2>2, <2>4, <3>1, <3>3 DEF Follower
    <3>. QED  BY <3>4, <3>5 DEF G, u, w
  <2>. QED  BY <2>5, <2>6
<1>. QED  BY <1>5, <1>6

\* A clock that only grows, with nothing heard.
LEMMA LineLater ==
    ASSUME NEW H \in Seq(Nat), NEW c \in Nat, NEW d \in Nat, c <= d, NEW s, Line(s, H, c)
    PROVE  Line(s, H, d)
<1>1. s \in Seq(Chunks)
  BY DEF Line
<1>2. ASSUME NEW i \in DOMAIN s PROVE Covers(s[i], H, d)
  <2>1. s[i] \in Chunks /\ Covers(s[i], H, c)
    BY <1>1 DEF Line
  <2>. QED  BY <2>1, CoversGrows
<1>. QED  BY <1>2 DEF Line

LEMMA Later ==
    ASSUME NEW H, NEW c, HeardOK(H, c), NEW d \in Nat, c <= d, NEW R, RingOK(R, H, c),
           NEW b \in BOOLEAN, NEW v, VoiceOK(v, R, H, c, b)
    PROVE  HeardOK(H, d) /\ RingOK(R, H, d) /\ VoiceOK(v, R, H, d, b)
<1>1. H \in Seq(Nat) /\ c \in Nat /\ DOMAIN H = 1..Len(H) /\ Len(H) \in Nat
  BY DEF HeardOK
<1>2. HeardOK(H, d)
  <2>1. ASSUME NEW i \in DOMAIN H PROVE H[i] < d
    <3>1. H[i] \in Nat /\ H[i] < c
      BY <1>1 DEF HeardOK
    <3>. QED  BY <1>1, <3>1
  <2>. QED  BY <1>1, <2>1 DEF HeardOK
<1>3. RingOK(R, H, d)
  BY <1>1, LineLater DEF RingOK
<1>4. v \in Voices /\ OpenOK(v, R, H, c, b) /\ ClosedOK(v.closed, H, c)
  BY DEF VoiceOK
<1>5. ClosedOK(v.closed, H, d)
  <2>1. \A i \in DOMAIN H : Len(H) < i => c <= H[i]
    BY <1>1
  <2>. QED  BY <1>1, <1>4, <2>1, ClosedGrows, VoiceIs
<1>6. ASSUME v.turn # Nil, v.turn.mark # Nil PROVE Running(v.turn, v.spoken, H, d)
  <2>. DEFINE u == v.turn
  <2>1. u \in Turns /\ Running(u, v.spoken, H, c) /\ u.target = Nil
    BY <1>4, <1>6, VoiceIs DEF OpenOK
  <2>. HIDE DEF u
  <2>2. /\ u.mark \in Nat /\ u.emitted \in Nat /\ u.tail \in Int /\ u.from \in Int
        /\ u.floor \in Nat /\ u.mark + u.emitted <= Len(H) /\ u.from <= c /\ u.floor <= c
    <3>1. u.mark \in 0..Len(H)
      BY <2>1 DEF Running
    <3>. QED  BY <1>1, <2>1, <3>1, TurnIs DEF Running
  <2>3. Line(u.timeline, H, d)
    BY <1>1, <2>1, LineLater DEF Running
  <2>4. u.emitted > 0 => H[u.mark + u.emitted] < d + u.tail
    <3>1. ASSUME u.emitted > 0 PROVE H[u.mark + u.emitted] < d + u.tail
      <4>. DEFINE q == u.mark + u.emitted
      <4>1. H[q] < c + u.tail
        BY <2>1, <3>1 DEF Running
      <4>2. q \in DOMAIN H
        BY <1>1, <2>2, <3>1
      <4>3. H[q] \in Nat
        BY <1>1, <4>2
      <4>. HIDE DEF q
      <4>4. H[q] < d + u.tail
        BY <1>1, <2>2, <4>1, <4>3
      <4>. QED  BY <4>4 DEF q
    <3>. QED  BY <3>1
  <2>5. u.from <= d /\ u.floor <= d
    BY <1>1, <2>2
  <2>6. Running(u, v.spoken, H, d)
    BY <2>1, <2>3, <2>4, <2>5 DEF Running
  <2>. QED  BY <2>6 DEF u
<1>7. OpenOK(v, R, H, d, b)
  BY <1>4, <1>6 DEF OpenOK
<1>. QED  BY <1>2, <1>3, <1>4, <1>5, <1>7 DEF VoiceOK

\* A ring that loses audio has still no start of a turn that waits for it.
LEMMA RingShrinks ==
    ASSUME NEW H, NEW c, NEW R, NEW Q, NEW b, NEW v, VoiceOK(v, R, H, c, b),
           \A i \in DOMAIN Q : \E j \in DOMAIN R : Q[i].end = R[j].end
    PROVE  VoiceOK(v, Q, H, c, b)
<1>1. ASSUME Waiting(v.turn, v.spoken, R) PROVE Waiting(v.turn, v.spoken, Q)
  BY <1>1 DEF Waiting
<1>. QED  BY <1>1 DEF VoiceOK, OpenOK

-------------------------------------------------------------------------------
(* Voice activity: the node.                                                 *)

Books ==
    /\ stream \in BOOLEAN /\ cancel_timestamp \in Nat /\ manual \in BOOLEAN
    /\ detector \in {"silent", "speech", "gone"} /\ orphans \in Nat
    /\ astray \in {"no", "lost", "cut"} /\ alive \in BOOLEAN
    /\ chunks \in 0..MaxChunks /\ signals \in 0..MaxSignals /\ faults \in 0..MaxFaults

VoiceInv ==
    /\ Books /\ HeardOK(heard, clock) /\ RingOK(ring, heard, clock)
    /\ VoiceOK(voice, ring, heard, clock, stream)

\* The inductive invariant: the ring and the turn's own chunks tell positions and times
\* of what was heard, the open turn has sent a prefix of what it asks for, and the last
\* finished turn was exact and stays so.
LEMMA VoiceStarts == ASSUME VoiceInit PROVE VoiceInv
<1>. USE DEF VoiceInit
<1>1. Books
  <2>1. 0 \in 0..MaxChunks /\ 0 \in 0..MaxSignals /\ 0 \in 0..MaxFaults /\ stream \in BOOLEAN
    BY VadAssumption
  <2>. QED  BY <2>1 DEF Books
<1>2. <<>> \in Seq(Nat) /\ <<>> \in Seq(Chunks) /\ DOMAIN <<>> = {}
  OBVIOUS
<1>3. HeardOK(heard, clock) /\ RingOK(ring, heard, clock)
  BY <1>2 DEF HeardOK, Increasing, RingOK, Line
<1>4. voice = [turn |-> Nil, spoken |-> <<>>, closed |-> Nil]
  BY DEF Silent
<1>5. VoiceOK(voice, ring, heard, clock, stream)
  BY <1>2, <1>4 DEF VoiceOK, Voices, OpenOK, ClosedOK
<1>. QED  BY <1>1, <1>3, <1>5 DEF VoiceInv

LEMMA RequestsKeep ==
    ASSUME Books, Reset \/ Keep
    PROVE  /\ detector' \in {"silent", "speech", "gone"} /\ orphans' \in Nat
           /\ astray' \in {"no", "lost", "cut"} /\ faults' \in 0..MaxFaults
<1>1. orphans \in Nat /\ faults \in 0..MaxFaults /\ MaxFaults \in Nat
  BY VadAssumption DEF Books
<1>2. CASE Keep
  BY <1>2 DEF Books, Keep
<1>3. CASE Close /\ detector' = "silent" /\ astray' = "no"
  <2>1. CASE orphans' = orphans /\ faults' = faults
    BY <1>1, <1>3, <2>1
  <2>2. CASE /\ faults < MaxFaults /\ faults' = faults + 1
             /\ orphans' = orphans + (IF detector = "gone" THEN 0 ELSE 1)
    <3>1. orphans' = orphans \/ orphans' = orphans + 1
      BY <1>1, <2>2
    <3>2. orphans' \in Nat
      BY <1>1, <3>1
    <3>3. faults' \in 0..MaxFaults
      BY <1>1, <2>2
    <3>. QED  BY <1>3, <3>2, <3>3
  <2>. QED  BY <1>3, <2>1, <2>2 DEF Close
<1>4. CASE /\ faults < MaxFaults /\ faults' = faults + 1
           /\ detector' = "gone" /\ astray' = "no"
           /\ orphans' \in {orphans, orphans + 1}
  BY <1>1, <1>4
<1>5. CASE /\ faults + 1 < MaxFaults /\ faults' = faults + 2
           /\ detector' = detector /\ astray' = "lost"
           /\ orphans' \in {orphans, orphans + 1}
  <2>1. detector \in {"silent", "speech", "gone"}
    BY DEF Books
  <2>. QED  BY <1>1, <1>5, <2>1
<1>. QED  BY <1>2, <1>3, <1>4, <1>5 DEF Reset

\* Evicting on a message keeps what the open turn needs: it has chunks of its own.
LEMMA SweptIs ==
    ASSUME VoiceInv
    PROVE  RingOK(Swept, heard, clock) /\ VoiceOK(voice, Swept, heard, clock, stream)
<1>1. /\ RingOK(Swept, heard, clock)
      /\ \A i \in DOMAIN Swept : \E j \in DOMAIN ring : Swept[i].end = ring[j].end
  BY EvictedIs DEF VoiceInv, Books, Swept
<1>2. VoiceOK(voice, ring, heard, clock, stream)
  BY DEF VoiceInv
<1>. HIDE DEF Swept
<1>. QED  BY <1>1, <1>2, RingShrinks

\* A chunk enters the ring and the open turn.
LEMMA IngestIs ==
    ASSUME VoiceInv, NEW gap \in Gaps, Ingest(gap)
    PROVE  /\ HeardOK(heard', clock') /\ RingOK(ring', heard', clock')
           /\ VoiceOK(Extend(gap), ring', heard', clock', stream')
           /\ stream' = stream /\ clock' \in Nat /\ chunks' \in 0..MaxChunks
           /\ signals' = signals /\ alive' = alive
           /\ IF voice.turn = Nil THEN Extend(gap) = voice ELSE Follower(voice.turn, Extend(gap))
<1>. DEFINE k == NextChunk(gap)
<1>1. /\ HeardOK(heard, clock) /\ RingOK(Swept, heard, clock) /\ stream \in BOOLEAN
      /\ VoiceOK(voice, ring, heard, clock, stream) /\ chunks \in 0..MaxChunks
  BY SweptIs DEF VoiceInv, Books
<1>2. /\ heard' = heard \o Samples(k) /\ clock' = k.end /\ ring' = Ingested(Swept, k)
      /\ stream' = stream /\ signals' = signals /\ alive' = alive /\ chunks' = chunks + 1
      /\ chunks < MaxChunks
  BY DEF Ingest
<1>3. k = [start |-> Len(heard), len |-> ChunkLen, end |-> clock + gap + ChunkLen]
  BY DEF NextChunk, Chunk
<1>4. /\ Len(heard) \in Nat /\ clock \in Nat /\ gap \in Nat /\ ChunkLen \in Nat \ {0}
  BY <1>1, VadAssumption, SegmentAssumption DEF HeardOK
<1>5. k \in Chunks
  BY <1>3, <1>4 DEF Chunks
<1>6. /\ k.start = Len(heard) /\ k.len = ChunkLen /\ k.end = clock + gap + ChunkLen
      /\ k.end \in Nat
  BY <1>3, <1>4
<1>. HIDE DEF k
<1>7. Follows(k, heard, clock) /\ k.len <= ChunkLen
  BY <1>4, <1>5, <1>6 DEF Follows
<1>8. HeardOK(heard \o Samples(k), k.end)
  BY <1>1, <1>7, HeardGrows
<1>9. RingOK(Ingested(Swept, k), heard \o Samples(k), k.end)
  BY <1>1, <1>7, IngestedIs
<1>. DEFINE w == Heard(voice, k, Ingested(Swept, k), heard \o Samples(k), stream)
<1>10. /\ VoiceOK(w, Ingested(Swept, k), heard \o Samples(k), k.end, stream)
       /\ voice.turn # Nil => Follower(voice.turn, w)
  BY <1>1, <1>7, <1>9, HeardIs
<1>13. voice.turn = Nil => w = voice
  BY DEF Heard
<1>. HIDE DEF w
<1>11. Extend(gap) = w
  BY <1>2 DEF Extend, k, w
<1>12. chunks' \in 0..MaxChunks
  BY <1>1, <1>2, VadAssumption
<1>. QED  BY <1>2, <1>6, <1>8, <1>9, <1>10, <1>11, <1>12, <1>13

\* A turn as the detector's events find and leave it.
Fit(v) == VoiceOK(v, ring', heard', clock', stream)

LEMMA OpenedIs ==
    ASSUME VoiceInv, NEW gap \in Gaps, Ingest(gap), NEW v, Fit(v)
    PROVE  Fit(TurnOpened(v)) /\ TurnOpened(v).turn # Nil /\ TurnOpened(v).turn.until = Nil
<1>1. HeardOK(heard', clock') /\ RingOK(ring', heard', clock') /\ clock' \in Nat
  BY IngestIs
<1>2. AutoStart \in Int /\ AutoEnd \in {ManualEnd, AutoEnd} /\ stream \in BOOLEAN
  BY VadAssumption DEF VoiceInv, Books
<1>3. v \in Voices /\ ClosedOK(v.closed, heard', clock')
  BY DEF Fit, VoiceOK
<1>4. TurnOpened(v) = Started(v, clock', AutoStart, AutoEnd, ring', heard', stream)
  BY DEF TurnOpened
<1>. QED  BY <1>1, <1>2, <1>3, <1>4, StartedIs DEF Fit

LEMMA StoppedIs ==
    ASSUME VoiceInv, NEW gap \in Gaps, Ingest(gap), NEW v, Fit(v)
    PROVE  Fit(TurnStopped(v))
<1>1. HeardOK(heard', clock') /\ RingOK(ring', heard', clock') /\ clock' \in Nat
  BY IngestIs
<1>2. stream \in BOOLEAN /\ (stream => clock' <= clock')
  BY <1>1 DEF VoiceInv, Books
<1>3. TurnStopped(v) = Ended(v, clock', ring', heard', stream)
  BY DEF TurnStopped
<1>. QED  BY <1>1, <1>2, <1>3, EndedIs DEF Fit

\* What the detector's events make of the turn, in each order they may come in.
LEMMA SpeechIs ==
    ASSUME VoiceInv, NEW gap \in Gaps, Ingest(gap),
           \/ SpeechStarted(gap) \/ SpeechStopped(gap)
           \/ SpeechResumed(gap) \/ SpeechPassed(gap)
    PROVE  /\ Fit(voice') /\ cancel_timestamp' \in Nat
           /\ SpeechStarted(gap) \/ SpeechResumed(gap) =>
                voice'.turn # Nil /\ voice'.turn.until = Nil
<1>. DEFINE e == Extend(gap)
<1>1. Fit(e)
  BY IngestIs DEF Fit
<1>. HIDE DEF e
<1>2. Fit(TurnOpened(e)) /\ TurnOpened(e).turn # Nil /\ TurnOpened(e).turn.until = Nil
  BY <1>1, OpenedIs
<1>3. Fit(TurnStopped(e))
  BY <1>1, StoppedIs
<1>4. /\ Fit(TurnOpened(TurnStopped(e))) /\ TurnOpened(TurnStopped(e)).turn # Nil
      /\ TurnOpened(TurnStopped(e)).turn.until = Nil
  BY <1>3, OpenedIs
<1>5. Fit(TurnStopped(TurnOpened(e)))
  BY <1>2, StoppedIs
<1>6. voice' \in {TurnOpened(e), TurnStopped(e),
                  TurnOpened(TurnStopped(e)), TurnStopped(TurnOpened(e))}
  BY DEF SpeechStarted, SpeechStopped, SpeechResumed, SpeechPassed, e
<1>7. Fit(voice')
  BY <1>2, <1>3, <1>4, <1>5, <1>6
<1>8. SpeechStarted(gap) \/ SpeechResumed(gap) =>
        voice' \in {TurnOpened(e), TurnOpened(TurnStopped(e))}
  BY DEF SpeechStarted, SpeechResumed, e
<1>9. cancel_timestamp' \in Nat
  <2>1. cancel_timestamp \in Nat /\ clock' \in Nat
    BY IngestIs DEF VoiceInv, Books
  <2>2. \/ cancel_timestamp' = Max({cancel_timestamp, clock'})
        \/ cancel_timestamp' = cancel_timestamp
    BY DEF SpeechStarted, SpeechStopped, SpeechResumed, SpeechPassed, BargeIn
  <2>. QED  BY <2>1, <2>2, MaxOfTwo
<1>. QED  BY <1>2, <1>4, <1>7, <1>8, <1>9

\* One step of the node, from a state that has the invariant.
LEMMA VoiceKeeps ==
    ASSUME VoiceInv, [VoiceNext]_voiceVars
    PROVE  VoiceInv'
<1>1. /\ Books /\ HeardOK(heard, clock) /\ RingOK(ring, heard, clock)
      /\ VoiceOK(voice, ring, heard, clock, stream)
  BY DEF VoiceInv
<1>2. RingOK(Swept, heard, clock) /\ VoiceOK(voice, Swept, heard, clock, stream)
  BY SweptIs
<1>3. voice \in Voices /\ ClosedOK(voice.closed, heard, clock)
  BY <1>1 DEF VoiceOK
<1>4. ASSUME Signal, voice' \in Voices, VoiceOK(voice', Swept, heard, clock, stream),
             manual' \in BOOLEAN, Reset \/ Keep
      PROVE  VoiceInv'
  <2>1. /\ ring' = Swept /\ heard' = heard /\ clock' = clock /\ stream' = stream
        /\ cancel_timestamp' = cancel_timestamp /\ chunks' = chunks /\ alive' = alive
        /\ signals' = signals + 1 /\ signals < MaxSignals
    BY <1>4 DEF Signal
  <2>2. /\ detector' \in {"silent", "speech", "gone"} /\ orphans' \in Nat
        /\ astray' \in {"no", "lost", "cut"} /\ faults' \in 0..MaxFaults
    BY <1>1, <1>4, RequestsKeep
  <2>3. signals' \in 0..MaxSignals
    BY <1>1, <2>1, VadAssumption DEF Books
  <2>4. Books'
    BY <1>1, <1>4, <2>1, <2>2, <2>3 DEF Books
  <2>. QED  BY <1>1, <1>2, <1>4, <2>1, <2>4 DEF VoiceInv
<1>5. ASSUME NEW ts \in SignalStamps, RecordingStart(ts) PROVE VoiceInv'
  <2>1. ts \in Nat /\ ManualStart \in Int /\ ManualEnd \in {ManualEnd, AutoEnd}
    BY VadAssumption
  <2>2. VoiceOK(voice', Swept, heard, clock, stream)
    BY <1>1, <1>2, <1>3, <1>5, <2>1, StartedIs DEF RecordingStart, Books
  <2>. QED  BY <1>4, <1>5, <2>2 DEF RecordingStart, VoiceOK
<1>6. ASSUME NEW ts \in SignalStamps, IgnoreEnd(ts) PROVE VoiceInv'
  BY <1>1, <1>2, <1>3, <1>4, <1>6 DEF IgnoreEnd, Books
<1>7. ASSUME NEW ts \in SignalStamps, RecordingEnd(ts) PROVE VoiceInv'
  <2>1. ts \in Nat /\ (stream => clock <= ts)
    BY <1>1, <1>7, VadAssumption DEF RecordingEnd, HeardOK
  <2>2. VoiceOK(voice', Swept, heard, clock, stream)
    BY <1>1, <1>2, <1>7, <2>1, EndedIs DEF RecordingEnd, Books
  <2>. QED  BY <1>4, <1>7, <2>2 DEF RecordingEnd, VoiceOK
<1>8. ASSUME NEW gap \in Gaps, DiscardChunk(gap) PROVE VoiceInv'
  <2>1. clock' \in Nat /\ clock <= clock' /\ chunks' \in 0..MaxChunks
    <3>1. /\ clock' = clock + gap + ChunkLen /\ chunks' = chunks + 1 /\ chunks < MaxChunks
      BY <1>8 DEF DiscardChunk
    <3>2. /\ clock \in Nat /\ gap \in Nat /\ ChunkLen \in Nat
          /\ chunks \in 0..MaxChunks /\ MaxChunks \in Nat
      BY <1>1, VadAssumption, SegmentAssumption DEF HeardOK, Books
    <3>. QED  BY <3>1, <3>2
  <2>2. /\ HeardOK(heard, clock') /\ RingOK(ring, heard, clock')
        /\ VoiceOK(voice, ring, heard, clock', stream)
    BY <1>1, <2>1, Later DEF Books
  <2>. QED  BY <1>1, <1>8, <2>1, <2>2 DEF DiscardChunk, VoiceInv, Books
<1>9. ASSUME NEW gap \in Gaps, ManualChunk(gap) PROVE VoiceInv'
  <2>1. /\ HeardOK(heard', clock') /\ RingOK(ring', heard', clock')
        /\ VoiceOK(voice', ring', heard', clock', stream')
        /\ stream' = stream /\ clock' \in Nat /\ chunks' \in 0..MaxChunks
        /\ signals' = signals /\ alive' = alive
    BY <1>9, IngestIs DEF ManualChunk
  <2>2. /\ detector' \in {"silent", "speech", "gone"} /\ orphans' \in Nat
        /\ astray' \in {"no", "lost", "cut"} /\ faults' \in 0..MaxFaults
    BY <1>1, <1>9, RequestsKeep DEF ManualChunk
  <2>3. manual' \in BOOLEAN /\ cancel_timestamp' = cancel_timestamp
    BY <1>9 DEF ManualChunk
  <2>. QED  BY <1>1, <2>1, <2>2, <2>3 DEF VoiceInv, Books
<1>10. ASSUME NEW gap \in Gaps, QuietChunk(gap) PROVE VoiceInv'
  <2>1. /\ HeardOK(heard', clock') /\ RingOK(ring', heard', clock')
        /\ VoiceOK(voice', ring', heard', clock', stream')
        /\ stream' = stream /\ clock' \in Nat /\ chunks' \in 0..MaxChunks
        /\ signals' = signals /\ alive' = alive
    BY <1>10, IngestIs DEF QuietChunk
  <2>2. /\ detector' \in {"silent", "speech", "gone"} /\ faults' \in 0..MaxFaults
        /\ orphans' = orphans /\ manual' = manual /\ cancel_timestamp' = cancel_timestamp
    BY <1>1, <1>10, VadAssumption DEF QuietChunk, Books
  <2>3. astray' \in {"no", "lost", "cut"}
    BY <1>1, <1>10 DEF QuietChunk, Books
  <2>. QED  BY <1>1, <2>1, <2>2, <2>3 DEF VoiceInv, Books
<1>11. ASSUME NEW gap \in Gaps,
              \/ SpeechStarted(gap) \/ SpeechStopped(gap)
              \/ SpeechResumed(gap) \/ SpeechPassed(gap)
       PROVE  VoiceInv'
  <2>1. /\ Ingest(gap) /\ manual' = manual /\ orphans' = orphans /\ faults' = faults
        /\ detector' \in {"silent", "speech"} /\ astray' = "no"
    BY <1>11 DEF SpeechStarted, SpeechStopped, SpeechResumed, SpeechPassed, Events
  <2>2. /\ HeardOK(heard', clock') /\ RingOK(ring', heard', clock')
        /\ stream' = stream /\ chunks' \in 0..MaxChunks
        /\ signals' = signals /\ alive' = alive
    BY <2>1, IngestIs
  <2>3. VoiceOK(voice', ring', heard', clock', stream) /\ cancel_timestamp' \in Nat
    BY <1>11, <2>1, SpeechIs DEF Fit
  <2>. QED  BY <1>1, <2>1, <2>2, <2>3 DEF VoiceInv, Books
<1>12. ASSUME NEW at \in CancelStamps, Interrupt(at) PROVE VoiceInv'
  <2>1. cancel_timestamp' \in Nat
    <3>1. cancel_timestamp' = Max({cancel_timestamp, at}) /\ cancel_timestamp \in Nat /\ at \in Nat
      BY <1>1, <1>12, VadAssumption DEF Interrupt, Books
    <3>. QED  BY <3>1, MaxOfTwo
  <2>2. signals' \in 0..MaxSignals
    BY <1>1, <1>12, VadAssumption DEF Interrupt, Books
  <2>3. /\ detector' \in {"silent", "speech", "gone"} /\ orphans' \in Nat
        /\ astray' \in {"no", "lost", "cut"} /\ faults' \in 0..MaxFaults
    BY <1>1, <1>12, RequestsKeep DEF Interrupt
  <2>4. VoiceOK(Discarded(voice), ring, heard, clock, stream)
    <3>1. /\ Discarded(voice) \in Voices /\ Discarded(voice).turn = Nil
          /\ Discarded(voice).closed = voice.closed
      <4>1. <<>> \in Seq(Nat)
        OBVIOUS
      <4>. QED  BY <1>3, <4>1 DEF Discarded, Voices
    <3>. QED  BY <1>3, <3>1 DEF VoiceOK, OpenOK
  <2>5. VoiceOK(voice', ring, heard, clock, stream) /\ manual' \in BOOLEAN
    BY <1>1, <1>12, <2>4 DEF Interrupt, Books
  <2>. QED  BY <1>1, <1>12, <2>1, <2>2, <2>3, <2>5 DEF Interrupt, VoiceInv, Books
<1>13. CASE Dispose
  <2>1. orphans' \in Nat /\ faults' \in 0..MaxFaults
    BY <1>1, <1>13, VadAssumption DEF Dispose, Close, Books
  <2>. QED  BY <1>1, <1>13, <2>1 DEF Dispose, VoiceInv, Books
<1>14. CASE Reap
  <2>1. orphans' \in Nat
    BY <1>1, <1>14 DEF Reap, Books
  <2>. QED  BY <1>1, <1>14, <2>1 DEF Reap, VoiceInv, Books
<1>15. CASE Expire
  <2>1. faults' \in 0..MaxFaults
    BY <1>1, <1>15, VadAssumption DEF Expire, Books
  <2>. QED  BY <1>1, <1>15, <2>1 DEF Expire, VoiceInv, Books
<1>16. CASE UNCHANGED voiceVars
  BY <1>1, <1>16 DEF voiceVars, VoiceInv, Books
<1>. QED
  BY <1>5, <1>6, <1>7, <1>8, <1>9, <1>10, <1>11, <1>12, <1>13, <1>14, <1>15, <1>16
  DEF VoiceNext, Hear

LEMMA VoiceHolds == VoiceSpec => []VoiceInv
<1>1. VoiceInit => VoiceInv
  BY VoiceStarts
<1>2. VoiceInv /\ [VoiceNext]_voiceVars => VoiceInv'
  BY VoiceKeeps
<1>. QED  BY <1>1, <1>2, PTL DEF VoiceSpec

\* Types, and the ring's promise: it keeps at most RingSize samples, as chunks that
\* follow one another, whatever _ingest and _evict_cancelled take from it.
THEOREM VoiceTyped == VoiceSpec => []VoiceTypes
<1>1. VoiceInv => VoiceTypes
  <2>. SUFFICES ASSUME VoiceInv PROVE VoiceTypes
    OBVIOUS
  <2>1. /\ Books /\ HeardOK(heard, clock) /\ RingOK(ring, heard, clock)
        /\ voice \in Voices /\ OpenOK(voice, ring, heard, clock, stream)
    BY DEF VoiceInv, VoiceOK
  <2>2. heard \in Seq(Nat) /\ clock \in Nat /\ Len(heard) \in Nat
    BY <2>1 DEF HeardOK
  <2>3. /\ Line(ring, heard, clock) /\ ring \in Seq(Chunks) /\ DOMAIN ring = 1..Len(ring)
        /\ Len(ring) \in Nat
    BY <2>1 DEF RingOK, Line
  <2>4. ASSUME NEW i \in DOMAIN ring PROVE ring[i].len \in 1..ChunkLen
    <3>1. ring[i] \in Chunks /\ ring[i].len <= ChunkLen
      BY <2>1, <2>3, <2>4 DEF RingOK
    <3>. QED  BY <3>1, ChunkIs, VadAssumption, SegmentAssumption
  <2>5. ASSUME NEW i \in 2..Len(ring) PROVE ring[i].start = EndPosition(ring[i - 1])
    <3>1. i \in DOMAIN ring /\ i # 1
      BY <2>3
    <3>. QED  BY <2>3, <3>1 DEF Line
  <2>6. ring # <<>> => EndPosition(Last(ring)) - ring[1].start <= RingSize
    BY <2>1, <2>3 DEF RingOK, Line, Last
  <2>7. TurnOK
    <3>. SUFFICES ASSUME voice.turn # Nil
                  PROVE  /\ voice.turn \in Turns /\ voice.turn.tail \in {ManualEnd, AutoEnd}
                         /\ voice.turn.mark \in 0..Len(heard) \cup {Nil}
                         /\ voice.turn.emitted \in 0..Len(heard)
      BY DEF TurnOK
    <3>. DEFINE u == voice.turn
    <3>1. /\ u \in Turns /\ u.tail \in {ManualEnd, AutoEnd} /\ u.emitted \in Nat
          /\ u.mark = Nil => Waiting(u, voice.spoken, ring)
          /\ u.mark # Nil => Running(u, voice.spoken, heard, clock)
      BY <2>1, VoiceIs, TurnIs DEF OpenOK
    <3>. HIDE DEF u
    <3>2. CASE u.mark = Nil
      BY <2>2, <3>1, <3>2 DEF Waiting, u
    <3>3. CASE u.mark # Nil
      <4>1. u.mark \in 0..Len(heard) /\ u.mark + u.emitted <= Len(heard)
        BY <3>1, <3>3 DEF Running
      <4>2. u.emitted \in 0..Len(heard)
        BY <2>2, <3>1, <4>1
      <4>. QED  BY <3>1, <4>1, <4>2 DEF u
    <3>. QED  BY <3>2, <3>3
  <2>. QED  BY <2>1, <2>2, <2>4, <2>5, <2>6, <2>7, VoiceIs DEF VoiceTypes, Books
<1>. QED  BY <1>1, VoiceHolds, PTL

\* A finished turn has sent the audio of its interval, each sample once and in order: no
\* more than was asked and all of it that the ring still had at the start, for any sizes
\* of chunk, ring and stream chunk, any gaps, offsets, stamps and cancels, streamed or not
\* (_timestamp_to_sample, _drain_chunks, _finalize).
THEOREM Segmented == VoiceSpec => []SegmentIsExact
<1>1. VoiceInv => SegmentIsExact
  <2>. SUFFICES ASSUME VoiceInv, voice.closed # Nil PROVE SegmentIsExact
    BY DEF SegmentIsExact
  <2>1. ClosedOK(voice.closed, heard, clock)
    BY DEF VoiceInv, VoiceOK
  <2>2. PICK first \in 0..Len(heard), past \in 0..Len(heard) :
           Exact(voice.closed, first, past, heard)
    BY <2>1 DEF ClosedOK
  <2>. QED  BY <2>2 DEF SegmentIsExact, Exact
<1>. QED  BY <1>1, VoiceHolds, PTL

\* A start leaves a turn open whose end is to come, and a chunk keeps the end of the
\* turn it extends or closes, so that the agreement is inductive once turns are.
LEMMA AgreementStarts == ASSUME VoiceInit PROVE DetectorAgrees
BY DEF VoiceInit, DetectorAgrees

LEMMA AgreementKept ==
    ASSUME VoiceInv, DetectorAgrees, [VoiceNext]_voiceVars
    PROVE  DetectorAgrees'
<1>1. /\ manual => voice.turn # Nil
      /\ ~manual /\ detector = "speech" /\ astray # "lost" =>
           IF voice.turn # Nil THEN voice.turn.until = Nil
           ELSE astray = "cut" /\ voice.closed # Nil /\ voice.closed.until = Nil
  BY DEF DetectorAgrees
<1>2. manual \in BOOLEAN /\ astray \in {"no", "lost", "cut"}
  BY DEF VoiceInv, Books
<1>3. ASSUME Reset, ~manual' PROVE DetectorAgrees'
  <2>1. CASE detector' = "silent" \/ detector' = "gone"
    BY <1>3, <2>1 DEF DetectorAgrees
  <2>2. CASE detector' = detector /\ astray' = "lost"
    BY <1>3, <2>2 DEF DetectorAgrees
  <2>. QED  BY <1>3, <2>1, <2>2 DEF Reset
<1>4. ASSUME manual', voice'.turn # Nil PROVE DetectorAgrees'
  BY <1>4 DEF DetectorAgrees
<1>5. ASSUME manual' = manual, voice' = voice, detector' = detector, astray' = astray
      PROVE  DetectorAgrees'
  BY <1>1, <1>5 DEF DetectorAgrees
<1>6. ASSUME NEW ts \in SignalStamps, RecordingStart(ts) PROVE DetectorAgrees'
  <2>1. /\ HeardOK(heard, clock) /\ RingOK(Swept, heard, clock) /\ stream \in BOOLEAN
        /\ voice \in Voices /\ ClosedOK(voice.closed, heard, clock)
    BY SweptIs DEF VoiceInv, VoiceOK, Books
  <2>2. ts \in Nat /\ ManualStart \in Int /\ ManualEnd \in {ManualEnd, AutoEnd}
    BY VadAssumption
  <2>3. voice'.turn # Nil
    BY <1>6, <2>1, <2>2, StartedIs DEF RecordingStart
  <2>. QED  BY <1>4, <1>6, <2>3 DEF RecordingStart
<1>7. ASSUME NEW ts \in SignalStamps, IgnoreEnd(ts) PROVE DetectorAgrees'
  BY <1>5, <1>7 DEF IgnoreEnd, Keep
<1>8. ASSUME NEW ts \in SignalStamps, RecordingEnd(ts) PROVE DetectorAgrees'
  BY <1>3, <1>4, <1>8 DEF RecordingEnd
<1>9. ASSUME NEW gap \in Gaps, DiscardChunk(gap) PROVE DetectorAgrees'
  BY <1>5, <1>9 DEF DiscardChunk
<1>10. ASSUME NEW gap \in Gaps, ManualChunk(gap) PROVE DetectorAgrees'
  BY <1>3, <1>4, <1>10 DEF ManualChunk
<1>11. ASSUME NEW gap \in Gaps, QuietChunk(gap) PROVE DetectorAgrees'
  <2>1. ~manual /\ manual' = manual /\ Ingest(gap) /\ voice' = Extend(gap)
    BY <1>11 DEF QuietChunk
  <2>2. IF voice.turn = Nil THEN voice' = voice ELSE Follower(voice.turn, voice')
    BY <2>1, IngestIs
  <2>3. CASE detector' # detector
    <3>1. astray' = "lost"
      BY <1>11, <2>3 DEF QuietChunk
    <3>. QED  BY <2>1, <3>1 DEF DetectorAgrees
  <2>4. CASE detector' = detector /\ CutOff
    <3>1. astray' = "cut" /\ voice.turn # Nil /\ voice'.turn = Nil
      BY <1>11, <2>4 DEF QuietChunk, CutOff
    <3>2. voice.turn.until = Nil
      BY <1>1, <2>1, <2>4, <3>1 DEF CutOff
    <3>. QED  BY <2>1, <2>2, <3>1, <3>2 DEF Follower, DetectorAgrees
  <2>5. CASE detector' = detector /\ ~CutOff
    <3>1. astray' = astray
      BY <1>11, <2>5 DEF QuietChunk
    <3>2. CASE voice.turn = Nil
      BY <1>5, <2>1, <2>2, <2>5, <3>1, <3>2
    <3>3. CASE voice.turn # Nil
      <4>. SUFFICES ASSUME detector = "speech", astray # "lost"
                    PROVE  IF voice'.turn # Nil THEN voice'.turn.until = Nil
                           ELSE astray = "cut" /\ voice'.closed # Nil
                                  /\ voice'.closed.until = Nil
        BY <2>1, <2>5, <3>1 DEF DetectorAgrees
      <4>1. voice.turn.until = Nil
        BY <1>1, <2>1, <3>3
      <4>2. voice'.turn # Nil \/ astray # "no"
        BY <2>5, <3>3 DEF CutOff
      <4>. QED  BY <1>2, <2>2, <3>3, <4>1, <4>2 DEF Follower
    <3>. QED  BY <3>2, <3>3
  <2>. QED  BY <2>3, <2>4, <2>5
<1>12. ASSUME NEW gap \in Gaps, SpeechStarted(gap) \/ SpeechResumed(gap)
       PROVE  DetectorAgrees'
  <2>1. voice'.turn # Nil /\ voice'.turn.until = Nil
    <3>1. Ingest(gap)
      BY <1>12 DEF SpeechStarted, SpeechResumed
    <3>. QED  BY <1>12, <3>1, SpeechIs
  <2>. QED  BY <2>1 DEF DetectorAgrees
<1>13. ASSUME NEW gap \in Gaps, SpeechStopped(gap) \/ SpeechPassed(gap)
       PROVE  DetectorAgrees'
  <2>1. detector' = "silent" /\ ~manual /\ manual' = manual
    BY <1>13 DEF SpeechStopped, SpeechPassed, Events
  <2>. QED  BY <2>1 DEF DetectorAgrees
<1>14. ASSUME NEW at \in CancelStamps, Interrupt(at) PROVE DetectorAgrees'
  <2>1. CASE manual' = FALSE /\ Reset
    BY <1>3, <2>1
  <2>2. CASE UNCHANGED <<voice, manual>> /\ Keep
    BY <1>5, <2>2 DEF Keep
  <2>. QED  BY <1>14, <2>1, <2>2 DEF Interrupt
<1>15. CASE Dispose \/ Expire
  <2>1. detector' = "gone" /\ manual' = manual /\ voice' = voice
    BY <1>15 DEF Dispose, Expire
  <2>. QED  BY <1>1, <2>1 DEF DetectorAgrees
<1>16. CASE Reap
  BY <1>5, <1>16 DEF Reap
<1>17. CASE UNCHANGED voiceVars
  BY <1>5, <1>17 DEF voiceVars
<1>. QED
  BY <1>6, <1>7, <1>8, <1>9, <1>10, <1>11, <1>12, <1>13, <1>14, <1>15, <1>16, <1>17
  DEF VoiceNext, Hear

\* Detection is suspended only while a recording is open, however signals, cancels, faults
\* and speech overlap (_resume_detection, on_span_cancel).  A detector in speech has an
\* open turn with its end to come, unless a request to the service failed or its turn
\* reached the ring's length: there the turn it had is the one closed last, without an
\* end, and the code leaves the detector as it is (VADStep.py:240-251).
THEOREM Agreed == VoiceSpec => []DetectorAgrees
<1>1. VoiceInit => VoiceInv /\ DetectorAgrees
  BY VoiceStarts, AgreementStarts
<1>2. VoiceInv /\ DetectorAgrees /\ [VoiceNext]_voiceVars => VoiceInv' /\ DetectorAgrees'
  BY VoiceKeeps, AgreementKept
<1>. QED  BY <1>1, <1>2, PTL DEF VoiceSpec

================================================================================
