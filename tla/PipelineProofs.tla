---------------------------- MODULE PipelineProofs ----------------------------
(***************************************************************************)
(* Proofs about the linear chain for every number of nodes, every routing  *)
(* declaration, every set of stamps and every bound.                       *)
(***************************************************************************)
EXTENDS Pipeline, TLAPS

-------------------------------------------------------------------------------
(* Type correctness.                                                       *)

\* A node reads the queue of its own number and writes the next one.
LEMMA NodeQueues ==
    /\ N + 1 \in Queues /\ 1 \in Queues /\ 1 \in Nodes /\ 0 \in 0..N
    /\ \A n \in Nodes : n \in Queues /\ n + 1 \in Queues /\ n + 1 # n /\ n \in 0..N
  BY ChainAssumption DEF Nodes, Queues

\* The elements of a queue after a put, and after a take.
LEMMA AppendElements ==
    ASSUME NEW S, NEW q \in Seq(S), NEW x \in S
    PROVE  \A i \in DOMAIN Append(q, x) :
              \/ i \in DOMAIN q /\ Append(q, x)[i] = q[i]
              \/ i = Len(q) + 1 /\ Append(q, x)[i] = x
<1>1. DOMAIN q = 1..Len(q) /\ DOMAIN Append(q, x) = 1..(Len(q) + 1) /\ Len(q) \in Nat
  OBVIOUS
<1>2. \A i \in 1..Len(q) : Append(q, x)[i] = q[i]
  OBVIOUS
<1>3. Append(q, x)[Len(q) + 1] = x
  OBVIOUS
<1>4. \A i \in 1..(Len(q) + 1) : i \in 1..Len(q) \/ i = Len(q) + 1
  BY <1>1
<1>. QED  BY <1>1, <1>2, <1>3, <1>4, Zenon

\* What is left of a queue when its head is taken.
LEMMA TailElements ==
    ASSUME NEW S, NEW q \in Seq(S), q # <<>>
    PROVE  \A i \in DOMAIN Tail(q) : i + 1 \in DOMAIN q /\ Tail(q)[i] = q[i + 1]
  OBVIOUS

\* Putting on, taking from and passing along a data queue keeps them typed.
LEMMA QueueTypes ==
    ASSUME TypeOK, NEW n \in Queues, NEW m \in Message
    PROVE  /\ Put(n, m) \in [Queues -> Seq(Message)]
           /\ dataQ[n] # <<>> =>
                /\ Head(dataQ[n]) \in Message
                /\ Take(n) \in [Queues -> Seq(Message)]
                /\ n \in Nodes => Pass(n, m) \in [Queues -> Seq(Message)]
<1>. n \in Nodes => n + 1 \in Queues /\ n + 1 # n
  BY NodeQueues
<1>. DEFINE D == dataQ
<1>1. D \in [Queues -> Seq(Message)]
  BY DEF TypeOK
<1>2. Put(n, m) \in [Queues -> Seq(Message)]
  <2>1. Append(D[n], m) \in Seq(Message)
    BY <1>1
  <2>. QED  BY <1>1, <2>1 DEF Put
<1>3. ASSUME D[n] # <<>>
      PROVE  /\ Head(D[n]) \in Message
             /\ Take(n) \in [Queues -> Seq(Message)]
             /\ n \in Nodes => Pass(n, m) \in [Queues -> Seq(Message)]
  <2>1. Head(D[n]) \in Message /\ Tail(D[n]) \in Seq(Message)
    BY <1>1, <1>3
  <2>2. n \in Nodes => Append(D[n + 1], m) \in Seq(Message)
    BY <1>1
  <2>. QED  BY <1>1, <2>1, <2>2 DEF Take, Pass
<1>. QED  BY <1>2, <1>3

\* What a node takes from its queue is a message, the first one.
LEMMA IncomingType ==
    ASSUME TypeOK, NEW n \in Nodes, Arrives(n)
    PROVE  /\ Incoming(n) \in Message /\ Incoming(n).ts \in Int
           /\ Incoming(n) = dataQ[n][1] /\ 1 \in DOMAIN dataQ[n]
<1>. DEFINE q == dataQ[n]
<1>1. q \in Seq(Message) /\ q # <<>>
  BY NodeQueues DEF TypeOK, Arrives
<1>2. Head(q) \in Message /\ Head(q) = q[1] /\ 1 \in DOMAIN q
  BY <1>1
<1>. QED  BY <1>2 DEF Incoming, Message

\* A relayed copy and an output are messages.
LEMMA RelayType ==
    ASSUME NEW n \in Nodes, NEW m \in Message, m.sig \in DOMAIN Passes[n]
    PROVE  Relayed(n, m) \in Message
<1>1. Passes[n][m.sig] \in Signals
  BY SignalAssumption
<1>2. Edges[n][1] \in Nodes \cup {Exit}
  BY ChainAssumption
<1>. QED  BY <1>1, <1>2 DEF Relayed, Message

\* What the client may send is a message of the chain.
LEMMA SentType ==
  ASSUME NEW s \in Signals \cup {Data}, NEW t \in Stamps, NEW d \in Addressees
  PROVE  [sig |-> s, ts |-> t, dest |-> d] \in Message /\ t \in Nat
<1>1. s \in Signals \cup {Data, Cancel}
  OBVIOUS
<1>2. t \in Nat /\ t \in Int
  BY StampAssumption
<1>3. d \in Nodes \cup {Exit}
  BY ChainAssumption
<1>. QED  BY <1>1, <1>2, <1>3 DEF Message

\* So is what teardown submits, an event of the handler.
LEMMA TeardownTypes ==
  VoidEvent \in Event /\ KillEvent \in Event /\ Infinity \in Int
BY StampAssumption, ChainAssumption DEF VoidEvent, KillEvent, Event, Verbs

\* TypeOK holds in every reachable state of the chain.
THEOREM TypeCorrect == Spec => []TypeOK
<1>1. Init => TypeOK
  BY ChainAssumption
  DEF Init, TypeOK, NoEvent, NoMessage, Event, Verbs, Message, Nodes, Queues
<1>2. TypeOK /\ [Next]_vars => TypeOK'
  <2> SUFFICES ASSUME TypeOK, [Next]_vars
               PROVE  TypeOK'
    OBVIOUS
  <2>. USE DEF TypeOK
  <2>1. ASSUME NEW s \in Signals \cup {Data}, NEW t \in Stamps,
               NEW d \in Addressees, ClientSend(s, t, d)
        PROVE  TypeOK'
    <3>1. /\ [sig |-> s, ts |-> t, dest |-> d] \in Message
          /\ 1 \in Queues /\ t \in Nat
      <4>1. 1 \in Queues
        BY ChainAssumption DEF Queues
      <4>. QED  BY <4>1, SentType
    <3>2. dataQ' \in [Queues -> Seq(Message)]
      BY <2>1, <3>1, QueueTypes DEF ClientSend
    <3>3. lastTs' \in Nat /\ sends' \in Nat /\ entered' \in SUBSET Nat
      BY <2>1, <3>1 DEF ClientSend
    <3>. QED  BY <2>1, <3>2, <3>3 DEF ClientSend, handlerVars, nodeVars
  <2>2. ASSUME NEW v \in Events \cup {Cancel}, NEW t \in Stamps, ClientControl(v, t)
        PROVE  TypeOK'
    <3>1. [verb |-> v, ts |-> t, source |-> 0] \in Event /\ t \in Nat
      BY ChainAssumption, StampAssumption DEF Event, Verbs
    <3>2. inbox' \in Seq(Event) /\ issued' \in Int /\ controls' \in Nat
      BY <2>2, <3>1 DEF ClientControl, Larger
    <3>. QED  BY <2>2, <3>2 DEF ClientControl, entryVars, handlerVars, nodeVars
  <2>3. CASE HandlerTake
    <3>1. Head(inbox) \in Event /\ Tail(inbox) \in Seq(Event)
      BY <2>3 DEF HandlerTake
    <3>. QED  BY <2>3, <3>1, ChainAssumption DEF HandlerTake, entryVars, nodeVars
  <2>4. CASE HandlerPut
    <3>1. [verb |-> hevent.verb, ts |-> Nudged(hevent)] \in Control
      BY StampAssumption DEF Nudged, Event, Control
    <3>2. htarget \in Nodes /\ htarget' \in 1..(N + 1)
      BY <2>4, ChainAssumption DEF HandlerPut, Nodes
    <3>3. ctrlQ' \in [Nodes -> Seq(Control)]
      BY <2>4, <3>1, <3>2 DEF HandlerPut
    <3>. QED  BY <2>4, <3>2, <3>3 DEF HandlerPut, entryVars, nodeVars
  <2>5. CASE HandlerDone
    <3>1. [sig |-> Cancel, ts |-> Nudged(hevent), dest |-> Exit] \in Message
      BY StampAssumption DEF Nudged, Message, Event
    <3>2. dataQ' \in [Queues -> Seq(Message)]
      BY <2>5, <3>1, QueueTypes, ChainAssumption DEF HandlerDone, Queues
    <3>3. hevent' \in Event /\ htarget' \in 1..(N + 1)
      BY <2>5, ChainAssumption DEF HandlerDone, NoEvent, Event, Verbs
    <3>. QED  BY <2>5, <3>2, <3>3 DEF HandlerDone, entryVars, nodeVars
  <2>6. ASSUME NEW n \in Nodes, NodeControl(n)
        PROVE  TypeOK'
    <3>1. Head(ctrlQ[n]) \in Control /\ ctrlQ' \in [Nodes -> Seq(Control)]
      BY <2>6 DEF NodeControl
    <3>2. watermark' \in [Nodes -> Int]
      BY <2>6, <3>1 DEF NodeControl, Larger, Control
    <3>3. killed' \in [Nodes -> BOOLEAN]
      BY <2>6 DEF NodeControl
    <3>4. voided' \in [Nodes -> BOOLEAN]
      BY <2>6 DEF NodeControl, Voids
    <3>. QED  BY <2>6, <3>1, <3>2, <3>3, <3>4
              DEF NodeControl, entryVars, handlerVars
  <2>7. ASSUME NEW n \in Nodes, NodeGet(n) \/ NodeExit(n) \/ NodeTimeout(n)
                                 \/ NodePoll(n) \/ NodeResume(n)
        PROVE  TypeOK'
    BY <2>7 DEF NodeGet, NodeExit, NodeTimeout, NodePoll, NodeResume, Goto,
                entryVars, handlerVars
  <2>8. ASSUME NEW n \in Nodes, NodeForward(n)
        PROVE  TypeOK'
    <3>1. dataQ' \in [Queues -> Seq(Message)]
      BY <2>8, QueueTypes, NodeQueues DEF NodeForward, Arrives, Incoming
    <3>. QED  BY <2>8, <3>1 DEF NodeForward, Goto, entryVars, handlerVars
  <2>9. ASSUME NEW n \in Nodes, NodeDrop(n)
        PROVE  TypeOK'
    <3>1. dataQ' \in [Queues -> Seq(Message)]
      BY <2>9, QueueTypes, NodeQueues DEF NodeDrop, Mine, Arrives
    <3>. QED  BY <2>9, <3>1 DEF NodeDrop, Goto, entryVars, handlerVars
  <2>10. ASSUME NEW n \in Nodes, NodeRelay(n)
         PROVE  TypeOK'
    <3>1. Incoming(n) \in Message
      BY <2>10, QueueTypes, NodeQueues DEF NodeRelay, Mine, Arrives, Incoming
    <3>2. dataQ' \in [Queues -> Seq(Message)]
      BY <2>10, <3>1, QueueTypes, RelayType, NodeQueues
      DEF NodeRelay, Mine, Arrives, Passed
    <3>. QED  BY <2>10, <3>2 DEF NodeRelay, Goto, entryVars, handlerVars
  <2>11. ASSUME NEW n \in Nodes, NodeBegin(n)
         PROVE  TypeOK'
    <3>1. Incoming(n) \in Message /\ dataQ' \in [Queues -> Seq(Message)]
      BY <2>11, QueueTypes, NodeQueues DEF NodeBegin, Mine, Arrives, Incoming
    <3>. QED  BY <2>11, <3>1 DEF NodeBegin, Goto, entryVars, handlerVars
  <2>12. ASSUME NEW n \in Nodes, NEW s \in Emits[n], NEW i \in DOMAIN Edges[n],
                NodeEmit(n, s, Edges[n][i])
         PROVE  TypeOK'
    <3>1. [sig |-> s, ts |-> cur[n].ts, dest |-> Edges[n][i]] \in Message
      BY ChainAssumption, SignalAssumption DEF Message
    <3>2. dataQ' \in [Queues -> Seq(Message)]
      BY <2>12, <3>1, QueueTypes, NodeQueues DEF NodeEmit
    <3>. QED  BY <2>12, <3>2 DEF NodeEmit, entryVars, handlerVars
  <2>13. ASSUME NEW n \in Nodes, NodeBargeIn(n)
         PROVE  TypeOK'
    <3>1. [verb |-> Cancel, ts |-> cur[n].ts, source |-> n] \in Event
      BY DEF Event, Verbs, Message, Nodes
    <3>2. cur[n].ts \in Int
      BY DEF Message
    <3>3. /\ inbox' \in Seq(Event) /\ issued' \in Int /\ controls' \in Nat
          /\ watermark' \in [Nodes -> Int]
      BY <2>13, <3>1, <3>2 DEF NodeBargeIn, Larger
    <3>. QED  BY <2>13, <3>3 DEF NodeBargeIn, entryVars, handlerVars
  <2>14. ASSUME NEW n \in Nodes, NodeFinish(n)
         PROVE  TypeOK'
    <3>1. NoMessage(n) \in Message
      BY DEF NoMessage, Message
    <3>2. dataQ' \in [Queues -> Seq(Message)]
      BY <2>14, QueueTypes, RelayType, NodeQueues DEF NodeFinish
    <3>. QED  BY <2>14, <3>1, <3>2 DEF NodeFinish, Goto, entryVars, handlerVars
  <2>15. CASE Deliver
    <3>1. /\ Head(dataQ[N + 1]) \in Message
          /\ dataQ' \in [Queues -> Seq(Message)]
      BY <2>15, QueueTypes, NodeQueues DEF Deliver
    <3>2. lastOut' \in Int
      BY <2>15, <3>1 DEF Deliver, Message
    <3>. QED  BY <2>15, <3>1, <3>2 DEF Deliver, entryVars, handlerVars, nodeVars
  <2>16. CASE Close
    BY <2>16, NodeQueues DEF Close, entryVars, handlerVars, nodeVars
  <2>17. CASE SubmitVoid
    <3>1. inbox' \in Seq(Event) /\ issued' \in Int
      BY <2>17, TeardownTypes DEF SubmitVoid, Larger
    <3>. QED  BY <2>17, <3>1 DEF SubmitVoid, entryVars, handlerVars, nodeVars
  <2>18. CASE SubmitKill
    <3>1. inbox' \in Seq(Event)
      BY <2>18, TeardownTypes DEF SubmitKill
    <3>. QED  BY <2>18, <3>1 DEF SubmitKill, entryVars, handlerVars, nodeVars
  <2>19. CASE Disposed
    BY <2>19 DEF Disposed, entryVars, handlerVars, nodeVars
  <2>20. CASE UNCHANGED vars
    BY <2>20 DEF vars, entryVars, handlerVars, nodeVars
  <2>. QED
    BY <2>1, <2>2, <2>3, <2>4, <2>5, <2>6, <2>7, <2>8, <2>9, <2>10, <2>11,
       <2>12, <2>13, <2>14, <2>15, <2>16, <2>17, <2>18, <2>19, <2>20
    DEF Next, Client, Handler, Node, Teardown
<1>. QED  BY <1>1, <1>2, PTL DEF Spec

-------------------------------------------------------------------------------
(* A node works only on fresh content.                                     *)

\* WorkIsFresh, strengthened to a poll that has found nothing voiding so far,
\* and to the flag being down whenever no poll is under way.
FreshInv ==
    \A n \in Nodes :
        /\ pc[n] = "work" => cur[n].ts >= watermark[n]
        /\ pc[n] = "poll" /\ ~voided[n] => cur[n].ts >= watermark[n]
        /\ pc[n] # "poll" => ~voided[n]

\* A step that leaves the threads of all other nodes alone, and this one's
\* watermark, message and flag too, keeps FreshInv if the node does not come
\* to work.
LEMMA FreshFrame ==
    ASSUME TypeOK, FreshInv, NEW n \in Nodes, NEW p,
           pc[n] # "poll", p \notin {"work", "poll"}, Goto(n, p),
           UNCHANGED <<cur, watermark, voided>>
    PROVE  FreshInv'
  BY DEF TypeOK, FreshInv, Goto

\* Nothing a node emits inside process() belongs to a turn that a cancel it has
\* read voids.
THEOREM FreshWork == Spec => []WorkIsFresh
<1>1. Init => FreshInv
  BY DEF Init, FreshInv
<1>2. TypeOK /\ FreshInv /\ [Next]_vars => FreshInv'
  <2> SUFFICES ASSUME TypeOK, FreshInv, [Next]_vars
               PROVE  FreshInv'
    OBVIOUS
  <2>1. CASE Client \/ Handler \/ Deliver \/ Close \/ Teardown \/ UNCHANGED vars
    <3>1. UNCHANGED nodeVars
      BY <2>1 DEF Client, Handler, Teardown, ClientSend, ClientControl,
                  HandlerTake, HandlerPut, HandlerDone, Deliver, Close,
                  SubmitVoid, SubmitKill, Disposed, vars
    <3>. QED  BY <3>1 DEF FreshInv, nodeVars
  <2>2. ASSUME NEW n \in Nodes, NodeControl(n)
        PROVE  FreshInv'
    <3>1. /\ Head(ctrlQ[n]) \in Control
          /\ watermark[n] \in Int /\ cur[n].ts \in Int
      BY <2>2 DEF NodeControl, TypeOK, Message
    <3>2. ASSUME NEW k \in Nodes, k # n
          PROVE  /\ pc'[k] = pc[k] /\ cur'[k] = cur[k]
                 /\ watermark'[k] = watermark[k] /\ voided'[k] = voided[k]
      BY <2>2, <3>2 DEF NodeControl, TypeOK
    <3>3. CASE pc[n] = "top"
      <4>1. /\ pc' = pc /\ cur' = cur
            /\ voided'[n] = voided[n]
        BY <2>2, <3>3 DEF NodeControl, TypeOK
      <4>. QED  BY <3>2, <3>3, <4>1 DEF FreshInv
    <3>4. CASE pc[n] = "poll"
      <4>. DEFINE m == Head(ctrlQ[n])
      <4>1. pc' = pc /\ cur' = cur
        BY <2>2 DEF NodeControl
      <4>2. watermark'[n] = IF m.verb = Cancel THEN Larger(watermark[n], m.ts)
                            ELSE watermark[n]
        BY <2>2 DEF NodeControl, TypeOK
      <4>3. voided'[n] = (voided[n] \/ (pc[n] = "poll" /\ Voids(n, m)))
        BY <2>2 DEF NodeControl, TypeOK
      <4>4. ASSUME ~voided'[n]
            PROVE  cur[n].ts >= watermark'[n]
        <5>1. ~voided[n] /\ ~Voids(n, m)
          BY <4>3, <4>4, <3>4
        <5>2. cur[n].ts >= watermark[n]
          BY <5>1, <3>4 DEF FreshInv
        <5>. QED  BY <5>1, <5>2, <4>2, <3>1 DEF Voids, Larger, Control
      <4>. QED  BY <3>2, <3>4, <4>1, <4>4 DEF FreshInv
    <3>. QED  BY <2>2, <3>3, <3>4 DEF NodeControl
  <2>3. ASSUME NEW n \in Nodes, NodeGet(n) \/ NodeExit(n) \/ NodeTimeout(n)
                                 \/ NodeForward(n) \/ NodeDrop(n) \/ NodeRelay(n)
        PROVE  FreshInv'
    BY <2>3, FreshFrame
    DEF NodeGet, NodeExit, NodeTimeout, NodeForward, NodeDrop, NodeRelay, Mine,
        Arrives
  <2>4. ASSUME NEW n \in Nodes, NodeBegin(n)
        PROVE  FreshInv'
    <3>1. Incoming(n) \in Message
      BY <2>4, IncomingType DEF NodeBegin, Mine
    <3>2. Incoming(n).ts >= watermark[n]
      BY <2>4, <3>1 DEF NodeBegin, Stale, Message, TypeOK
    <3>. QED  BY <2>4, <3>2
              DEF NodeBegin, Mine, Arrives, Goto, FreshInv, TypeOK
  <2>5. ASSUME NEW n \in Nodes, NEW s \in Emits[n], NEW i \in DOMAIN Edges[n],
               NodeEmit(n, s, Edges[n][i])
        PROVE  FreshInv'
    BY <2>5 DEF NodeEmit, FreshInv
  <2>6. ASSUME NEW n \in Nodes, NodeBargeIn(n)
        PROVE  FreshInv'
    <3>1. cur[n].ts \in Int /\ watermark[n] \in Int
      BY DEF TypeOK, Message
    <3>. QED  BY <2>6, <3>1 DEF NodeBargeIn, Larger, FreshInv, TypeOK
  <2>7. ASSUME NEW n \in Nodes, NodePoll(n)
        PROVE  FreshInv'
    BY <2>7 DEF NodePoll, Goto, FreshInv, TypeOK
  <2>8. ASSUME NEW n \in Nodes, NodeResume(n)
        PROVE  FreshInv'
    BY <2>8 DEF NodeResume, Goto, FreshInv, TypeOK
  <2>9. ASSUME NEW n \in Nodes, NodeFinish(n)
        PROVE  FreshInv'
    BY <2>9 DEF NodeFinish, Goto, FreshInv, TypeOK
  <2>. QED
    BY <2>1, <2>2, <2>3, <2>4, <2>5, <2>6, <2>7, <2>8, <2>9 DEF Next, Node
<1>3. FreshInv => WorkIsFresh
  BY DEF FreshInv, WorkIsFresh
<1>. QED  BY <1>1, <1>2, <1>3, TypeCorrect, PTL DEF Spec

-------------------------------------------------------------------------------
(* No watermark runs ahead of the cancels that were submitted.             *)

\* Every cancel stamp, wherever it is in the control plane, and every watermark
\* is bounded by the highest stamp submitted.
IssuedInv ==
    /\ \A n \in Nodes : watermark[n] <= issued
    /\ \A i \in DOMAIN inbox : inbox[i].verb = Cancel => inbox[i].ts <= issued
    /\ hstate = "dispatch" /\ hevent.verb = Cancel => hevent.ts <= issued
    /\ \A n \in Nodes : \A i \in DOMAIN ctrlQ[n] :
         ctrlQ[n][i].verb = Cancel => ctrlQ[n][i].ts <= issued

\* IssuedInv is inductive.
LEMMA IssuedInductive == TypeOK /\ IssuedInv /\ [Next]_vars => IssuedInv'
<1> SUFFICES ASSUME TypeOK, IssuedInv, [Next]_vars
             PROVE  IssuedInv'
  OBVIOUS
<1>. USE DEF TypeOK
<1>1. ASSUME UNCHANGED <<watermark, inbox, hstate, hevent, ctrlQ, issued>>
      PROVE  IssuedInv'
  BY <1>1 DEF IssuedInv
<1>2. ASSUME NEW e \in Event, inbox' = Append(inbox, e),
             e.verb = Cancel => e.ts <= issued', issued' \in Int, issued <= issued',
             UNCHANGED <<hstate, hevent, ctrlQ>>,
             \A n \in Nodes : watermark'[n] <= issued'
      PROVE  IssuedInv'
  <2>1. \A i \in DOMAIN inbox' : inbox'[i].verb = Cancel => inbox'[i].ts <= issued'
    <3>1. \A i \in DOMAIN inbox : inbox[i].ts \in Int
      <4>1. \A i \in DOMAIN inbox : inbox[i] \in Event
        OBVIOUS
      <4>. QED  BY <4>1 DEF Event
    <3>2. \A i \in DOMAIN inbox' : \/ i \in DOMAIN inbox /\ inbox'[i] = inbox[i]
                                  \/ inbox'[i] = e
      BY <1>2, AppendElements
    <3>3. \A i \in DOMAIN inbox : inbox[i].verb = Cancel => inbox[i].ts <= issued'
      BY <3>1, <1>2 DEF IssuedInv
    <3>. QED  BY <3>2, <3>3, <1>2
  <2>2. \A n \in Nodes : \A i \in DOMAIN ctrlQ[n] : ctrlQ[n][i] \in Control
    OBVIOUS
  <2>3. \A n \in Nodes : \A i \in DOMAIN ctrlQ[n] :
          ctrlQ[n][i].verb = Cancel => ctrlQ[n][i].ts <= issued'
    BY <1>2, <2>2 DEF IssuedInv, Control
  <2>4. hstate = "dispatch" /\ hevent.verb = Cancel => hevent.ts <= issued'
    BY <1>2 DEF IssuedInv, Event
  <2>. QED  BY <1>2, <2>1, <2>3, <2>4 DEF IssuedInv
<1>3. ASSUME NEW v \in Events \cup {Cancel}, NEW t \in Stamps, ClientControl(v, t)
      PROVE  IssuedInv'
  <2>1. t \in Nat
    BY StampAssumption
  <2>2. [verb |-> v, ts |-> t, source |-> 0] \in Event
    BY <2>1, NodeQueues DEF Event, Verbs
  <2>3. issued' \in Int /\ issued <= issued' /\ (v = Cancel => t <= issued')
    BY <1>3, <2>1 DEF ClientControl, Larger
  <2>4. \A n \in Nodes : watermark'[n] <= issued'
    BY <1>3, <2>3 DEF ClientControl, nodeVars, IssuedInv
  <2>. QED  BY <1>2, <1>3, <2>2, <2>3, <2>4 DEF ClientControl, handlerVars
<1>4. ASSUME NEW n \in Nodes, NodeBargeIn(n)
      PROVE  IssuedInv'
  <2>1. cur[n].ts \in Int
    BY DEF Message
  <2>2. [verb |-> Cancel, ts |-> cur[n].ts, source |-> n] \in Event
    BY <2>1, NodeQueues DEF Event, Verbs
  <2>3. issued' \in Int /\ issued <= issued' /\ cur[n].ts <= issued'
    BY <1>4, <2>1 DEF NodeBargeIn, Larger
  <2>4. \A k \in Nodes : watermark'[k] <= issued'
    BY <1>4, <2>1, <2>3 DEF NodeBargeIn, Larger, IssuedInv
  <2>. QED  BY <1>2, <1>4, <2>2, <2>3, <2>4 DEF NodeBargeIn, handlerVars
<1>5. CASE SubmitVoid
  <2>1. VoidEvent \in Event /\ Infinity \in Nat
    BY NodeQueues, StampAssumption DEF VoidEvent, Event, Verbs
  <2>2. issued' \in Int /\ issued <= issued' /\ VoidEvent.ts <= issued'
    BY <1>5, <2>1 DEF SubmitVoid, Larger, VoidEvent
  <2>3. \A n \in Nodes : watermark'[n] <= issued'
    BY <1>5, <2>2 DEF SubmitVoid, nodeVars, IssuedInv
  <2>. QED  BY <1>2, <1>5, <2>1, <2>2, <2>3 DEF SubmitVoid, handlerVars
<1>6. CASE SubmitKill
  <2>1. KillEvent \in Event /\ KillEvent.verb # Cancel
    BY NodeQueues DEF KillEvent, Event, Verbs, Kill, Cancel
  <2>. QED  BY <1>2, <1>6, <2>1 DEF SubmitKill, handlerVars, nodeVars, IssuedInv
<1>7. CASE HandlerTake
  <2>1. /\ hevent' = inbox[1] /\ 1 \in DOMAIN inbox
        /\ \A i \in DOMAIN inbox' : i + 1 \in DOMAIN inbox /\ inbox'[i] = inbox[i + 1]
    BY <1>7 DEF HandlerTake
  <2>. QED  BY <1>7, <2>1 DEF HandlerTake, nodeVars, IssuedInv
<1>8. CASE HandlerPut
  <2>. DEFINE c == [verb |-> hevent.verb, ts |-> Nudged(hevent)]
  <2>1. c.verb = Cancel => c.ts <= issued
    BY <1>8, StampAssumption DEF HandlerPut, Nudged, Event, IssuedInv
  <2>2. ASSUME NEW n \in Nodes, NEW i \in DOMAIN ctrlQ'[n]
        PROVE  \/ i \in DOMAIN ctrlQ[n] /\ ctrlQ'[n][i] = ctrlQ[n][i]
               \/ ctrlQ'[n][i] = c
    <3>1. c \in Control
      BY StampAssumption DEF Nudged, Event, Control
    <3>2. ctrlQ'[n] = ctrlQ[n] \/ ctrlQ'[n] = Append(ctrlQ[n], c)
      BY <1>8 DEF HandlerPut
    <3>3. ctrlQ[n] \in Seq(Control)
      OBVIOUS
    <3>. HIDE DEF c
    <3>4. CASE ctrlQ'[n] = ctrlQ[n]
      BY <3>4
    <3>5. CASE ctrlQ'[n] = Append(ctrlQ[n], c)
      BY <3>1, <3>3, <3>5, AppendElements
    <3>. QED  BY <3>2, <3>4, <3>5
  <2>. QED  BY <1>8, <2>1, <2>2 DEF HandlerPut, nodeVars, IssuedInv
<1>9. CASE HandlerDone
  BY <1>9 DEF HandlerDone, NoEvent, Kill, Cancel, nodeVars, IssuedInv
<1>10. ASSUME NEW n \in Nodes, NodeControl(n)
       PROVE  IssuedInv'
  <2>1. Head(ctrlQ[n]) = ctrlQ[n][1] /\ 1 \in DOMAIN ctrlQ[n] /\ ctrlQ[n][1] \in Control
    BY <1>10 DEF NodeControl
  <2>2. \A k \in Nodes : watermark'[k] <= issued'
    BY <1>10, <2>1 DEF NodeControl, Larger, Control, IssuedInv
  <2>3. ASSUME NEW k \in Nodes, NEW i \in DOMAIN ctrlQ'[k]
        PROVE  \E j \in DOMAIN ctrlQ[k] : ctrlQ'[k][i] = ctrlQ[k][j]
    <3>1. CASE k = n
      <4>1. ctrlQ'[k] = Tail(ctrlQ[k]) /\ ctrlQ[k] \in Seq(Control) /\ ctrlQ[k] # <<>>
        BY <1>10, <3>1 DEF NodeControl
      <4>2. i + 1 \in DOMAIN ctrlQ[k] /\ ctrlQ'[k][i] = ctrlQ[k][i + 1]
        BY <4>1
      <4>. QED  BY <4>2
    <3>2. CASE k # n
      BY <1>10, <3>2 DEF NodeControl
    <3>. QED  BY <3>1, <3>2
  <2>4. \A k \in Nodes : \A i \in DOMAIN ctrlQ'[k] :
          ctrlQ'[k][i].verb = Cancel => ctrlQ'[k][i].ts <= issued
    BY <2>3 DEF IssuedInv
  <2>5. UNCHANGED <<inbox, hstate, hevent, issued>>
    BY <1>10 DEF NodeControl, handlerVars
  <2>. QED  BY <2>2, <2>4, <2>5 DEF IssuedInv
<1>. QED
  BY <1>1, <1>3, <1>4, <1>5, <1>6, <1>7, <1>8, <1>9, <1>10
  DEF Next, Client, Handler, Node, Teardown, vars, handlerVars, nodeVars,
      ClientSend, NodeGet, NodeExit, NodeTimeout, NodeForward, NodeDrop, NodeRelay,
      NodeBegin, NodeEmit, NodePoll, NodeResume, NodeFinish, Deliver, Close, Disposed

\* The gate at a node never loses a declared message that no submitted cancel
\* voids; in particular a barge-in spares its own turn.
THEOREM OnlyVoidedDropped == Spec => OnlyVoidedIsDropped
<1>1. Init => IssuedInv
  BY DEF Init, IssuedInv
<1>2. TypeOK /\ IssuedInv /\ [Next]_vars => \A n \in Nodes : Loses(n) => Incoming(n).ts < issued
  <2> SUFFICES ASSUME TypeOK, IssuedInv, [Next]_vars, NEW n \in Nodes, Loses(n)
               PROVE  Incoming(n).ts < issued
    OBVIOUS
  <2>1. /\ pc[n] = "get" /\ pc'[n] = "top" /\ Arrives(n)
        /\ Incoming(n).dest = n /\ (Caught(n) \/ Passed(n))
        /\ pc \in [Nodes -> {"top", "get", "work", "poll", "exited"}]
    BY DEF Loses, Mine, Arrives, TypeOK
  <2>2. ~(Client \/ Handler \/ Deliver \/ Close \/ Teardown \/ UNCHANGED vars)
    <3>1. pc' # pc
      BY <2>1
    <3>. QED
      BY <3>1 DEF Client, Handler, Teardown, ClientSend, ClientControl, HandlerTake,
         HandlerPut, HandlerDone, Deliver, Close, SubmitVoid, SubmitKill, Disposed,
         vars, nodeVars
  <2>3. ASSUME NEW k \in Nodes, Node(k)
        PROVE  k = n
    <3>1. pc' = pc \/ \E p \in {"top", "get", "work", "poll", "exited"} : Goto(k, p)
      BY <2>3 DEF Node, NodeControl, NodeGet, NodeExit, NodeTimeout, NodeForward,
         NodeDrop, NodeRelay, NodeBegin, NodeEmit, NodeBargeIn, NodePoll, NodeResume,
         NodeFinish
    <3>. QED  BY <2>1, <3>1 DEF Goto
  <2>4. ASSUME Node(n)
        PROVE  NodeDrop(n) \/ NodeRelay(n)
    <3>1. ~(NodeControl(n) \/ NodeGet(n) \/ NodeExit(n) \/ NodePoll(n) \/ NodeFinish(n)
             \/ NodeResume(n) \/ NodeTimeout(n) \/ NodeForward(n))
      BY <2>1 DEF NodeControl, NodeGet, NodeExit, NodePoll, NodeFinish, NodeResume,
                  NodeTimeout, NodeForward, Arrives, MustLeave
    <3>2. ~NodeBegin(n) /\ ~NodeBargeIn(n)
      BY <2>1 DEF NodeBegin, NodeBargeIn, Goto
    <3>3. \A s, d : ~NodeEmit(n, s, d)
      BY <2>1 DEF NodeEmit
    <3>. QED  BY <2>4, <3>1, <3>2, <3>3 DEF Node
  <2>5. ~NodeRelay(n)
    <3>. DEFINE q == dataQ[n + 1]
    <3>1. n \in Queues /\ n + 1 \in Queues /\ n + 1 # n
      BY NodeQueues
    <3>2. q \in Seq(Message) /\ dataQ \in [Queues -> Seq(Message)]
      BY <3>1 DEF TypeOK
    <3>3. dataQ' = Take(n)
      BY DEF Loses
    <3>4. dataQ'[n + 1] = q
      BY <3>1, <3>2, <3>3 DEF Take
    <3>5. ASSUME NodeRelay(n)
          PROVE  dataQ'[n + 1] = Append(q, Relayed(n, Incoming(n)))
      BY <3>1, <3>2, <3>5 DEF NodeRelay, Pass
    <3>6. Append(q, Relayed(n, Incoming(n))) # q
      BY <3>2
    <3>. QED  BY <3>4, <3>5, <3>6
  <2>6. ASSUME NodeDrop(n)
        PROVE  Incoming(n).ts < issued
    <3>1. Incoming(n).ts \in Int
      BY <2>1, IncomingType
    <3>2. Incoming(n).ts < watermark[n]
      BY <2>1, <2>6 DEF NodeDrop, Stale
    <3>. QED  BY <3>1, <3>2 DEF IssuedInv, TypeOK
  <2>. QED  BY <2>2, <2>3, <2>4, <2>5, <2>6 DEF Next
<1>3. TypeOK /\ IssuedInv /\ [Next]_vars
        => [\A n \in Nodes : Loses(n) => Incoming(n).ts < issued]_vars
  BY <1>2
<1>. QED
  BY <1>1, <1>3, IssuedInductive, TypeCorrect, PTL DEF Spec, OnlyVoidedIsDropped

-------------------------------------------------------------------------------
(***************************************************************************)
(* Teardown submits cancel(infinity) and then kill.  Between the two and a *)
(* node's exit lie the handler's inbox, a dispatch that fills the nodes'   *)
(* control queues one after the other, and the drain of each queue: at     *)
(* every one of these places the cancel is ahead of the kill.              *)
(***************************************************************************)

IsVoid(m) == m.verb = Cancel /\ m.ts = Infinity

\* Node n has taken the teardown's cancel, or finds it in its control queue.
Reached(n)   == watermark[n] >= Infinity
Awaits(n)    == \E i \in DOMAIN ctrlQ[n] : IsVoid(ctrlQ[n][i])
VoidSent     == \A n \in Nodes : Reached(n) \/ Awaits(n)
VoidUnderway == (hstate = "dispatch" /\ hevent = VoidEvent) \/ VoidSent

\* The void has left whoever submitted it.
VoidSubmitted == VoidUnderway \/ \E j \in DOMAIN inbox : inbox[j] = VoidEvent

KilledPart == \A n \in Nodes : killed[n] => Reached(n)

ControlPart ==
    \A n \in Nodes : \A i \in DOMAIN ctrlQ[n] :
        ctrlQ[n][i].verb = Kill =>
            Reached(n) \/ \E j \in DOMAIN ctrlQ[n] : j < i /\ IsVoid(ctrlQ[n][j])

DispatchPart ==
    hstate = "dispatch" =>
        /\ hevent.verb = Kill => VoidSent
        /\ hevent = VoidEvent =>
             \A n \in Nodes : n < htarget => Reached(n) \/ Awaits(n)

InboxPart ==
    \A i \in DOMAIN inbox :
        inbox[i].verb = Kill =>
            VoidUnderway \/ \E j \in DOMAIN inbox : j < i /\ inbox[j] = VoidEvent

StagePart == stage \in {"voiding", "killing", "disposed"} => VoidSubmitted

VoidInv == KilledPart /\ ControlPart /\ DispatchPart /\ InboxPart /\ StagePart

\* Once a node has or will have read the void it stays so under a step that
\* neither lowers its watermark nor takes from its control queue.
LEMMA VoidKept ==
    ASSUME TypeOK, TypeOK', UNCHANGED ctrlQ,
           \A n \in Nodes : watermark[n] <= watermark'[n]
    PROVE  /\ \A n \in Nodes : Reached(n) => Reached(n)'
           /\ \A n \in Nodes : Awaits(n) => Awaits(n)'
           /\ VoidSent => VoidSent'
           /\ ControlPart => ControlPart'
<1>1. \A n \in Nodes : Reached(n) => Reached(n)'
  <2>1. \A n \in Nodes : watermark[n] \in Int /\ watermark'[n] \in Int
    BY DEF TypeOK
  <2>. QED  BY <2>1, StampAssumption DEF Reached
<1>2. \A n \in Nodes : Awaits(n) => Awaits(n)'
  BY DEF Awaits
<1>3. VoidSent => VoidSent'
  BY <1>1, <1>2 DEF VoidSent
<1>4. ControlPart => ControlPart'
  BY <1>1 DEF ControlPart
<1>. QED  BY <1>1, <1>2, <1>3, <1>4

\* Submitting an event keeps the order: a kill is submitted behind the void.
LEMMA SubmitKeeps ==
    ASSUME TypeOK, TypeOK', VoidInv, NEW e \in Event, inbox' = Append(inbox, e),
           UNCHANGED <<handlerVars, ctrlQ, killed>>,
           \A n \in Nodes : watermark[n] <= watermark'[n],
           e.verb = Kill => VoidSubmitted,
           stage' \in {"voiding", "killing", "disposed"} => VoidSubmitted \/ e = VoidEvent
    PROVE  VoidInv'
<1>1. /\ \A n \in Nodes : Reached(n) => Reached(n)'
      /\ \A n \in Nodes : Awaits(n) => Awaits(n)'
      /\ VoidSent => VoidSent'
      /\ ControlPart'
  BY VoidKept DEF VoidInv
<1>2. VoidUnderway => VoidUnderway'
  BY <1>1 DEF VoidUnderway, handlerVars
<1>3. KilledPart'
  BY <1>1 DEF VoidInv, KilledPart
<1>4. DispatchPart'
  BY <1>1 DEF VoidInv, DispatchPart, handlerVars
<1>5. /\ inbox \in Seq(Event) /\ Len(inbox) \in Nat
      /\ DOMAIN inbox' = 1..(Len(inbox) + 1) /\ DOMAIN inbox = 1..Len(inbox)
      /\ \A i \in DOMAIN inbox : inbox'[i] = inbox[i]
      /\ inbox'[Len(inbox) + 1] = e
  BY DEF TypeOK
<1>6. VoidSubmitted => VoidSubmitted'
  <2>1. ASSUME NEW j \in DOMAIN inbox, inbox[j] = VoidEvent
        PROVE  VoidSubmitted'
    <3>1. j \in DOMAIN inbox' /\ inbox'[j] = VoidEvent'
      BY <1>5, <2>1 DEF VoidEvent
    <3>. QED  BY <3>1 DEF VoidSubmitted
  <2>. QED  BY <1>2, <2>1 DEF VoidSubmitted
<1>7. StagePart'
  <2>1. e = VoidEvent => VoidSubmitted'
    BY <1>5 DEF VoidSubmitted, VoidEvent
  <2>. QED  BY <1>6, <2>1 DEF StagePart
<1>8. InboxPart'
  <2> SUFFICES ASSUME NEW i \in DOMAIN inbox', inbox'[i].verb = Kill, ~VoidUnderway
               PROVE  \E j \in DOMAIN inbox' : j < i /\ inbox'[j] = VoidEvent
    BY <1>2 DEF InboxPart, VoidEvent
  <2>1. CASE i \in DOMAIN inbox
    <3>1. PICK j \in DOMAIN inbox : j < i /\ inbox[j] = VoidEvent
      BY <1>5, <2>1 DEF VoidInv, InboxPart
    <3>. QED  BY <1>5, <3>1
  <2>2. CASE i = Len(inbox) + 1
    <3>1. PICK j \in DOMAIN inbox : inbox[j] = VoidEvent
      BY <1>5, <2>2 DEF VoidSubmitted
    <3>. QED  BY <1>5, <2>2, <3>1
  <2>. QED  BY <1>5, <2>1, <2>2
<1>. QED  BY <1>1, <1>3, <1>4, <1>7, <1>8 DEF VoidInv

\* The handler takes the oldest event: if that is the kill, every node has been
\* sent the void.
LEMMA TakeKeeps ==
    ASSUME TypeOK, VoidInv, HandlerTake
    PROVE  VoidInv'
<1>1. /\ inbox \in Seq(Event) /\ inbox # <<>>
      /\ hevent' = inbox[1] /\ hstate' = "dispatch" /\ htarget' = 1 /\ hstate = "idle"
      /\ UNCHANGED <<ctrlQ, watermark, killed, stage>>
  BY DEF HandlerTake, TypeOK, nodeVars
<1>2. \A i \in DOMAIN inbox' : i + 1 \in DOMAIN inbox /\ inbox'[i] = inbox[i + 1]
  BY <1>1, TailElements DEF HandlerTake
<1>3. /\ DOMAIN inbox = 1..Len(inbox) /\ Len(inbox) \in Nat
      /\ DOMAIN inbox' = 1..(Len(inbox) - 1)
      /\ \A i \in DOMAIN inbox : i = 1 \/ (i - 1 \in DOMAIN inbox' /\ inbox'[i - 1] = inbox[i])
  BY <1>1 DEF HandlerTake
<1>4. /\ KilledPart' /\ ControlPart'
      /\ VoidSent' = VoidSent /\ (VoidUnderway <=> VoidSent)
  BY <1>1 DEF VoidInv, KilledPart, ControlPart, VoidSent, VoidUnderway, Reached, Awaits
<1>5. inbox[1] = VoidEvent => VoidUnderway'
  BY <1>1 DEF VoidUnderway, VoidEvent
<1>6. VoidSent => VoidUnderway'
  BY <1>4 DEF VoidUnderway
<1>7. DispatchPart'
  <2>1. inbox[1].verb = Kill => VoidSent
    BY <1>3, <1>4, <1>1 DEF VoidInv, InboxPart
  <2>2. \A n \in Nodes : ~(n < htarget')
    BY <1>1, ChainAssumption DEF Nodes
  <2>. QED  BY <1>1, <1>4, <2>1, <2>2 DEF DispatchPart
<1>8. ASSUME NEW j \in DOMAIN inbox, inbox[j] = VoidEvent
      PROVE  VoidUnderway' \/ (j - 1 \in DOMAIN inbox' /\ inbox'[j - 1] = VoidEvent)
  BY <1>3, <1>5, <1>8
<1>9. StagePart'
  <2>1. VoidSubmitted => VoidSubmitted'
    BY <1>4, <1>6, <1>8 DEF VoidSubmitted, VoidEvent
  <2>. QED  BY <1>1, <2>1 DEF VoidInv, StagePart
<1>10. InboxPart'
  <2> SUFFICES ASSUME NEW i \in DOMAIN inbox', inbox'[i].verb = Kill, ~VoidUnderway'
               PROVE  \E j \in DOMAIN inbox' : j < i /\ inbox'[j] = VoidEvent
    BY DEF InboxPart, VoidEvent
  <2>1. PICK j \in DOMAIN inbox : j < i + 1 /\ inbox[j] = VoidEvent
    BY <1>2, <1>4, <1>6 DEF VoidInv, InboxPart
  <2>2. j - 1 \in DOMAIN inbox' /\ inbox'[j - 1] = VoidEvent
    BY <1>8, <2>1
  <2>3. j - 1 < i
    BY <1>3, <2>1
  <2>. QED  BY <2>2, <2>3
<1>. QED  BY <1>4, <1>7, <1>9, <1>10 DEF VoidInv

\* The dispatch of the void reaches one node more; that of the kill finds the
\* void ahead of it.
LEMMA PutKeeps ==
    ASSUME TypeOK, VoidInv, HandlerPut
    PROVE  VoidInv'
<1>. DEFINE c == [verb |-> hevent.verb, ts |-> Nudged(hevent)]
<1>1. /\ hstate = "dispatch" /\ hstate' = hstate /\ hevent' = hevent
      /\ htarget \in Nodes /\ htarget' = htarget + 1
      /\ UNCHANGED <<inbox, watermark, killed, stage>>
  BY ChainAssumption DEF HandlerPut, TypeOK, nodeVars, Nodes
<1>2. c \in Control /\ hevent \in Event
  BY StampAssumption DEF Nudged, Event, Control, TypeOK
<1>3. ASSUME NEW n \in Nodes
      PROVE  /\ ctrlQ'[n] = ctrlQ[n] \/ ctrlQ'[n] = Append(ctrlQ[n], c)
             /\ n # htarget => ctrlQ'[n] = ctrlQ[n]
             /\ n = htarget /\ hevent.source \notin Nodes => ctrlQ'[n] = Append(ctrlQ[n], c)
  BY <1>1 DEF HandlerPut, TypeOK
<1>. HIDE DEF c
<1>4. ASSUME NEW n \in Nodes
      PROVE  /\ ctrlQ[n] \in Seq(Control) /\ DOMAIN ctrlQ[n] = 1..Len(ctrlQ[n])
             /\ DOMAIN Append(ctrlQ[n], c) = 1..(Len(ctrlQ[n]) + 1) /\ Len(ctrlQ[n]) \in Nat
             /\ \A i \in DOMAIN ctrlQ[n] : Append(ctrlQ[n], c)[i] = ctrlQ[n][i]
             /\ Append(ctrlQ[n], c)[Len(ctrlQ[n]) + 1] = c
  <2>1. ctrlQ[n] \in Seq(Control)
    BY DEF TypeOK
  <2>. QED  BY <1>2, <2>1
<1>5. ASSUME NEW n \in Nodes, NEW i \in DOMAIN ctrlQ[n]
      PROVE  i \in DOMAIN ctrlQ'[n] /\ ctrlQ'[n][i] = ctrlQ[n][i]
  BY <1>3, <1>4
<1>6. ASSUME NEW n \in Nodes, NEW i \in DOMAIN ctrlQ'[n]
      PROVE  i \in DOMAIN ctrlQ[n] \/ (ctrlQ'[n][i] = c /\ i = Len(ctrlQ[n]) + 1)
  BY <1>3, <1>4
<1>7. /\ \A n \in Nodes : Reached(n) <=> Reached(n)'
      /\ \A n \in Nodes : Awaits(n) => Awaits(n)'
  BY <1>1, <1>5 DEF Reached, Awaits, IsVoid
<1>8. VoidSent => VoidSent'
  BY <1>7 DEF VoidSent
<1>9. VoidUnderway => VoidUnderway'
  BY <1>1, <1>8 DEF VoidUnderway, VoidEvent
<1>10. KilledPart'
  BY <1>1, <1>7 DEF VoidInv, KilledPart
<1>11. ControlPart'
  <2> SUFFICES ASSUME NEW n \in Nodes, NEW i \in DOMAIN ctrlQ'[n],
                      ctrlQ'[n][i].verb = Kill, ~Reached(n)
               PROVE  \E j \in DOMAIN ctrlQ'[n] : j < i /\ IsVoid(ctrlQ'[n][j])
    BY <1>7 DEF ControlPart, IsVoid
  <2>1. CASE i \in DOMAIN ctrlQ[n]
    <3>1. PICK j \in DOMAIN ctrlQ[n] : j < i /\ IsVoid(ctrlQ[n][j])
      BY <1>5, <2>1 DEF VoidInv, ControlPart
    <3>. QED  BY <1>5, <3>1
  <2>2. CASE ctrlQ'[n][i] = c /\ i = Len(ctrlQ[n]) + 1
    <3>1. hevent.verb = Kill
      BY <2>2 DEF c
    <3>2. PICK j \in DOMAIN ctrlQ[n] : IsVoid(ctrlQ[n][j])
      BY <1>1, <3>1 DEF VoidInv, DispatchPart, VoidSent, Awaits
    <3>. QED  BY <1>4, <1>5, <2>2, <3>2
  <2>. QED  BY <1>6, <2>1, <2>2
<1>12. DispatchPart'
  <2>1. hevent'.verb = Kill => VoidSent'
    BY <1>1, <1>8 DEF VoidInv, DispatchPart
  <2>2. ASSUME hevent = VoidEvent, NEW n \in Nodes, n = htarget
        PROVE  Awaits(n)'
    <3>1. IsVoid(c) /\ hevent.source \notin Nodes
      BY <2>2 DEF c, VoidEvent, IsVoid, Nudged, Nodes
    <3>2. ctrlQ'[n] = Append(ctrlQ[n], c)
      BY <1>3, <2>2, <3>1
    <3>3. /\ Len(ctrlQ[n]) + 1 \in DOMAIN ctrlQ'[n]
          /\ ctrlQ'[n][Len(ctrlQ[n]) + 1] = c
      BY <1>4, <3>2
    <3>. QED  BY <3>1, <3>3 DEF Awaits, IsVoid
  <2>3. ASSUME hevent' = VoidEvent', NEW n \in Nodes, n < htarget'
        PROVE  Reached(n)' \/ Awaits(n)'
    <3>1. hevent = VoidEvent /\ (n < htarget \/ n = htarget)
      BY <1>1, <2>3 DEF VoidEvent, Nodes
    <3>. QED  BY <1>1, <1>7, <2>2, <3>1 DEF VoidInv, DispatchPart
  <2>. QED  BY <2>1, <2>3 DEF DispatchPart
<1>13. InboxPart' /\ StagePart'
  BY <1>1, <1>9 DEF VoidInv, InboxPart, StagePart, VoidSubmitted, VoidEvent
<1>. QED  BY <1>10, <1>11, <1>12, <1>13 DEF VoidInv

\* A completed dispatch of the void has reached every node.
LEMMA DoneKeeps ==
    ASSUME TypeOK, VoidInv, HandlerDone
    PROVE  VoidInv'
<1>1. /\ hstate = "dispatch" /\ htarget = N + 1 /\ hstate' # "dispatch"
      /\ UNCHANGED <<inbox, ctrlQ, watermark, killed, stage>>
  BY DEF HandlerDone, nodeVars
<1>2. hevent = VoidEvent => VoidSent
  BY <1>1, ChainAssumption DEF VoidInv, DispatchPart, VoidSent, Nodes
<1>3. VoidSent <=> VoidSent'
  BY <1>1 DEF VoidSent, Reached, Awaits
<1>4. VoidUnderway => VoidUnderway'
  BY <1>2, <1>3 DEF VoidUnderway
<1>5. KilledPart' /\ ControlPart' /\ DispatchPart'
  BY <1>1 DEF VoidInv, KilledPart, ControlPart, DispatchPart, Reached
<1>6. InboxPart' /\ StagePart'
  BY <1>1, <1>4 DEF VoidInv, InboxPart, StagePart, VoidSubmitted, VoidEvent
<1>. QED  BY <1>5, <1>6 DEF VoidInv

\* A node that takes the void is past it, and one that takes the kill was.
LEMMA ControlKeeps ==
    ASSUME TypeOK, VoidInv, NEW n \in Nodes, NodeControl(n)
    PROVE  VoidInv'
<1>. DEFINE q == ctrlQ[n]
<1>1. /\ q \in Seq(Control) /\ q # <<>> /\ Head(q) = q[1] /\ q[1] \in Control
      /\ ctrlQ'[n] = Tail(q) /\ 1 \in DOMAIN q
  BY DEF NodeControl, TypeOK
<1>2. /\ \A i \in DOMAIN q : i = 1 \/ (i - 1 \in DOMAIN Tail(q) /\ Tail(q)[i - 1] = q[i])
      /\ \A i \in DOMAIN Tail(q) : i + 1 \in DOMAIN q /\ Tail(q)[i] = q[i + 1]
      /\ DOMAIN q \subseteq Nat /\ DOMAIN Tail(q) \subseteq Nat
      /\ \A i \in DOMAIN q : i >= 1
  BY <1>1, TailElements
<1>3. \A k \in Nodes : k # n => /\ ctrlQ'[k] = ctrlQ[k] /\ watermark'[k] = watermark[k]
                                 /\ killed'[k] = killed[k]
  BY DEF NodeControl, TypeOK
<1>4. UNCHANGED <<hstate, hevent, htarget, inbox, stage>>
  BY DEF NodeControl, handlerVars
<1>5. watermark'[n] = IF q[1].verb = Cancel THEN Larger(watermark[n], q[1].ts)
                      ELSE watermark[n]
  BY <1>1 DEF NodeControl, TypeOK
<1>6. Reached(n) => Reached(n)'
  BY <1>1, <1>5, StampAssumption DEF Reached, Larger, Control, TypeOK
<1>7. IsVoid(q[1]) => Reached(n)'
  BY <1>1, <1>5, StampAssumption DEF Reached, Larger, Control, TypeOK, IsVoid
<1>8. \A k \in Nodes : Reached(k) => Reached(k)'
  BY <1>3, <1>6 DEF Reached
<1>9. Awaits(n) => Reached(n)' \/ Awaits(n)'
  <2> SUFFICES ASSUME NEW i \in DOMAIN q, IsVoid(q[i])
               PROVE  Reached(n)' \/ Awaits(n)'
    BY DEF Awaits
  <2>1. CASE i = 1
    BY <1>7, <2>1
  <2>2. CASE i # 1
    BY <1>1, <1>2, <2>2 DEF Awaits, IsVoid
  <2>. QED  BY <2>1, <2>2
<1>10. \A k \in Nodes : Awaits(k) => Reached(k)' \/ Awaits(k)'
  BY <1>3, <1>9 DEF Awaits, IsVoid
<1>11. VoidSent => VoidSent'
  BY <1>8, <1>10 DEF VoidSent
<1>12. VoidUnderway => VoidUnderway'
  BY <1>4, <1>11 DEF VoidUnderway, VoidEvent
<1>13. KilledPart'
  <2>1. killed'[n] => killed[n] \/ q[1].verb = Kill
    BY <1>1 DEF NodeControl, TypeOK
  <2>2. q[1].verb = Kill => Reached(n)
    BY <1>1, <1>2 DEF VoidInv, ControlPart
  <2>3. killed'[n] => Reached(n)'
    BY <1>6, <2>1, <2>2 DEF VoidInv, KilledPart
  <2>. QED  BY <1>3, <1>8, <2>3 DEF VoidInv, KilledPart
<1>14. ControlPart'
  <2> SUFFICES ASSUME NEW k \in Nodes, NEW i \in DOMAIN ctrlQ'[k],
                      ctrlQ'[k][i].verb = Kill, ~Reached(k)'
               PROVE  \E j \in DOMAIN ctrlQ'[k] : j < i /\ IsVoid(ctrlQ'[k][j])
    BY DEF ControlPart, IsVoid
  <2>1. CASE k = n
    <3>1. i \in DOMAIN Tail(q) /\ i + 1 \in DOMAIN q /\ q[i + 1].verb = Kill
      BY <1>1, <1>2, <2>1
    <3>2. PICK j \in DOMAIN q : j < i + 1 /\ IsVoid(q[j])
      BY <1>6, <2>1, <3>1 DEF VoidInv, ControlPart
    <3>3. j # 1
      BY <1>7, <2>1, <3>2
    <3>4. j - 1 \in DOMAIN Tail(q) /\ Tail(q)[j - 1] = q[j] /\ j - 1 < i
      BY <1>2, <3>1, <3>2, <3>3
    <3>. QED  BY <1>1, <2>1, <3>2, <3>4
  <2>2. CASE k # n
    BY <1>3, <1>8, <2>2 DEF VoidInv, ControlPart
  <2>. QED  BY <2>1, <2>2
<1>15. DispatchPart'
  BY <1>4, <1>8, <1>10, <1>11 DEF VoidInv, DispatchPart, VoidEvent
<1>16. InboxPart' /\ StagePart'
  BY <1>4, <1>12 DEF VoidInv, InboxPart, StagePart, VoidSubmitted, VoidEvent
<1>. QED  BY <1>13, <1>14, <1>15, <1>16 DEF VoidInv

\* A step that touches no variable of the control plane, or only closes the
\* connection or declares it disposed, keeps the order.
LEMMA FrameKeeps ==
    ASSUME VoidInv,
           UNCHANGED <<watermark, killed, ctrlQ, inbox, hstate, hevent, htarget>>,
           \/ stage' = stage \/ stage' = "closed"
           \/ stage = "killing" /\ stage' = "disposed"
    PROVE  VoidInv'
<1>1. VoidSent' = VoidSent /\ VoidUnderway' = VoidUnderway
      /\ VoidSubmitted' = VoidSubmitted
  BY DEF VoidSent, VoidUnderway, VoidSubmitted, Reached, Awaits
<1>2. KilledPart' /\ ControlPart' /\ DispatchPart' /\ InboxPart'
  BY <1>1 DEF VoidInv, KilledPart, ControlPart, DispatchPart, InboxPart, Reached, Awaits
<1>3. StagePart'
  BY <1>1 DEF VoidInv, StagePart
<1>. QED  BY <1>2, <1>3 DEF VoidInv

\* A node's thread ends only after it has taken cancel(infinity).
THEOREM VoidBeforeKill == Spec => []VoidedBeforeKilled
<1>1. Init => VoidInv
  BY DEF Init, VoidInv, KilledPart, ControlPart, DispatchPart, InboxPart, StagePart
<1>2. TypeOK /\ TypeOK' /\ VoidInv /\ [Next]_vars => VoidInv'
  <2> SUFFICES ASSUME TypeOK, TypeOK', VoidInv, [Next]_vars
               PROVE  VoidInv'
    OBVIOUS
  <2>1. ASSUME NEW v \in Events \cup {Cancel}, NEW t \in Stamps, ClientControl(v, t)
        PROVE  VoidInv'
    <3>1. [verb |-> v, ts |-> t, source |-> 0] \in Event /\ v # Kill
      BY NodeQueues, StampAssumption, SignalAssumption DEF Event, Verbs, Kill, Cancel
    <3>2. stage' = "serving" /\ \A n \in Nodes : watermark[n] <= watermark'[n]
      BY <2>1 DEF ClientControl, nodeVars, TypeOK
    <3>. QED  BY <2>1, <3>1, <3>2, SubmitKeeps DEF ClientControl, nodeVars
  <2>2. ASSUME NEW n \in Nodes, NodeBargeIn(n)
        PROVE  VoidInv'
    <3>1. cur[n].ts \in Int
      BY DEF TypeOK, Message
    <3>2. [verb |-> Cancel, ts |-> cur[n].ts, source |-> n] \in Event
      BY <3>1, NodeQueues DEF Event, Verbs
    <3>3. \A k \in Nodes : watermark[k] <= watermark'[k]
      <4>1. watermark \in [Nodes -> Int]
        BY DEF TypeOK
      <4>. QED  BY <2>2, <3>1, <4>1 DEF NodeBargeIn, Larger
    <3>4. stage' \in {"voiding", "killing", "disposed"} => VoidSubmitted
      BY <2>2 DEF NodeBargeIn, VoidInv, StagePart
    <3>. QED  BY <2>2, <3>2, <3>3, <3>4, SubmitKeeps DEF NodeBargeIn, Kill, Cancel
  <2>3. CASE SubmitVoid
    <3>1. VoidEvent \in Event /\ VoidEvent.verb # Kill
      BY NodeQueues, StampAssumption DEF VoidEvent, Event, Verbs, Kill, Cancel
    <3>2. \A n \in Nodes : watermark[n] <= watermark'[n]
      BY <2>3 DEF SubmitVoid, nodeVars, TypeOK
    <3>. QED  BY <2>3, <3>1, <3>2, SubmitKeeps DEF SubmitVoid, nodeVars
  <2>4. CASE SubmitKill
    <3>1. KillEvent \in Event /\ VoidSubmitted
      BY <2>4, NodeQueues DEF SubmitKill, KillEvent, Event, Verbs, VoidInv, StagePart
    <3>2. \A n \in Nodes : watermark[n] <= watermark'[n]
      BY <2>4 DEF SubmitKill, nodeVars, TypeOK
    <3>. QED  BY <2>4, <3>1, <3>2, SubmitKeeps DEF SubmitKill, nodeVars
  <2>5. ASSUME \/ UNCHANGED vars \/ Deliver \/ Close \/ Disposed
               \/ \E s \in Signals \cup {Data}, t \in Stamps, d \in Addressees :
                     ClientSend(s, t, d)
        PROVE  VoidInv'
    BY <2>5, FrameKeeps
    DEF vars, nodeVars, handlerVars, Deliver, Close, Disposed, ClientSend
  <2>6. ASSUME NEW n \in Nodes, Node(n), ~NodeControl(n), ~NodeBargeIn(n)
        PROVE  VoidInv'
    BY <2>6, FrameKeeps
    DEF Node, NodeGet, NodeExit, NodeTimeout, NodeForward, NodeDrop, NodeRelay,
        NodeBegin, NodeEmit, NodePoll, NodeResume, NodeFinish, handlerVars
  <2>. QED
    BY <2>1, <2>2, <2>3, <2>4, <2>5, <2>6, TakeKeeps, PutKeeps, DoneKeeps, ControlKeeps
    DEF Next, Client, Handler, Teardown, Node
<1>3. VoidInv => VoidedBeforeKilled
  BY DEF VoidInv, KilledPart, Reached, VoidedBeforeKilled
<1>. QED  BY <1>1, <1>2, <1>3, TypeCorrect, PTL DEF Spec

-------------------------------------------------------------------------------
(***************************************************************************)
(* The chain implements TurnStream: what reaches the client keeps the order *)
(* of the turns, and the stamps on it are the client's own.  Lane q is what *)
(* waits in data queue q, and behind it what node q - 1 may still add to it *)
(* for the message it holds.  Along the lanes, from the entry to the exit,  *)
(* stamps only fall; inside one they rise from head to tail.                *)
(***************************************************************************)

\* Content: everything but the cancel echo, which the handler puts on the send
\* queue out of turn.
Content(q) == {i \in DOMAIN dataQ[q] : dataQ[q][i].sig # Cancel}
Queued(q)  == {dataQ[q][i].ts : i \in Content(q)}
Holding(q) == {n \in Nodes : n + 1 = q /\ Working(n)}
Lane(q)    == Queued(q) \cup {cur[n].ts : n \in Holding(q)}

LaneOrder ==
    \A p, q \in Queues : p < q => \A a \in Lane(p), b \in Lane(q) : b <= a

Sorted(q)  == \A i, j \in Content(q) : i < j => dataQ[q][i].ts <= dataQ[q][j].ts
QueueOrder == \A q \in Queues : Sorted(q)

HandLast == \A n \in Nodes : Working(n) => \A t \in Queued(n + 1) : t <= cur[n].ts

Accepted == \A q \in Queues : \A t \in Lane(q) : t \in entered /\ lastOut <= t

Entry ==
    /\ entered \subseteq Stamps
    /\ \A t \in entered : t <= lastTs
    /\ lastOut <= lastTs

NoEcho ==
    \A n \in Nodes :
        /\ \A i \in DOMAIN dataQ[n] : dataQ[n][i].sig # Cancel
        /\ cur[n].sig # Cancel

OrderInv == LaneOrder /\ QueueOrder /\ HandLast /\ Accepted /\ Entry /\ NoEcho

-------------------------------------------------------------------------------
(* One queue.                                                              *)

\* A queue's messages are messages, and a lane's stamps numbers.
LEMMA LaneTypes ==
    ASSUME TypeOK, NEW q \in Queues
    PROVE  /\ dataQ[q] \in Seq(Message)
           /\ \A i \in DOMAIN dataQ[q] : dataQ[q][i] \in Message /\ dataQ[q][i].ts \in Int
           /\ Queued(q) \subseteq Int /\ Lane(q) \subseteq Int
           /\ Content(q) \subseteq Nat
<1>1. dataQ[q] \in Seq(Message)
  BY DEF TypeOK
<1>2. \A i \in DOMAIN dataQ[q] : i \in Nat /\ dataQ[q][i] \in Message
  BY <1>1
<1>3. \A i \in DOMAIN dataQ[q] : dataQ[q][i].ts \in Int
  BY <1>2 DEF Message
<1>4. \A n \in Nodes : cur[n].ts \in Int
  BY DEF TypeOK, Message
<1>. QED  BY <1>1, <1>2, <1>3, <1>4 DEF Queued, Lane, Content, Holding

\* A queue that is left alone gains nothing and stays sorted.
LEMMA SameQueue ==
    ASSUME NEW q \in Queues, dataQ'[q] = dataQ[q]
    PROVE  Queued(q)' = Queued(q) /\ Sorted(q)' = Sorted(q)
  BY DEF Content, Queued, Sorted

\* A queue that is emptied.
LEMMA EmptiedQueue ==
    ASSUME NEW q \in Queues, dataQ'[q] = <<>>
    PROVE  Queued(q)' = {} /\ Sorted(q)'
  BY DEF Content, Queued, Sorted

\* A queue whose head is taken gains nothing and stays sorted.
LEMMA TakenQueue ==
    ASSUME TypeOK, NEW q \in Queues, dataQ[q] # <<>>, dataQ'[q] = Tail(dataQ[q])
    PROVE  Queued(q)' \subseteq Queued(q) /\ (Sorted(q) => Sorted(q)')
<1>1. \A i \in DOMAIN dataQ'[q] : /\ i + 1 \in DOMAIN dataQ[q] /\ i \in Nat
                                 /\ dataQ'[q][i] = dataQ[q][i + 1]
  BY LaneTypes, TailElements
<1>2. \A i \in Content(q)' : /\ i + 1 \in Content(q) /\ i \in Nat
                             /\ dataQ'[q][i] = dataQ[q][i + 1]
  BY <1>1 DEF Content
<1>3. Queued(q)' \subseteq Queued(q)
  BY <1>2 DEF Queued
<1>4. ASSUME Sorted(q), NEW i \in Content(q)', NEW j \in Content(q)', i < j
      PROVE  dataQ'[q][i].ts <= dataQ'[q][j].ts
  <2>1. i + 1 < j + 1
    BY <1>2, <1>4
  <2>. QED  BY <1>2, <1>4, <2>1 DEF Sorted
<1>. QED  BY <1>3, <1>4 DEF Sorted

\* A queue grows by one message no older than what is in it.
LEMMA GrownQueue ==
    ASSUME TypeOK, NEW q \in Queues, NEW m \in Message, m.sig # Cancel,
           dataQ'[q] = Append(dataQ[q], m), \A t \in Queued(q) : t <= m.ts, Sorted(q)
    PROVE  Queued(q)' \subseteq Queued(q) \cup {m.ts} /\ Sorted(q)'
<1>1. /\ \A i \in DOMAIN dataQ[q] : dataQ'[q][i] = dataQ[q][i] /\ i < Len(dataQ[q]) + 1
      /\ \A i \in DOMAIN dataQ'[q] :
           i \in DOMAIN dataQ[q] \/ (i = Len(dataQ[q]) + 1 /\ dataQ'[q][i] = m)
      /\ Len(dataQ[q]) \in Nat /\ DOMAIN dataQ'[q] \subseteq Nat
  <2>1. dataQ[q] \in Seq(Message)
    BY LaneTypes
  <2>2. /\ DOMAIN dataQ[q] = 1..Len(dataQ[q]) /\ Len(dataQ[q]) \in Nat
        /\ DOMAIN dataQ'[q] = 1..(Len(dataQ[q]) + 1)
    BY <2>1
  <2>3. \A i \in DOMAIN dataQ[q] : dataQ'[q][i] = dataQ[q][i]
    BY <2>1
  <2>4. \A i \in DOMAIN dataQ'[q] :
           i \in DOMAIN dataQ[q] \/ (i = Len(dataQ[q]) + 1 /\ dataQ'[q][i] = m)
    BY <2>1, AppendElements
  <2>. QED  BY <2>2, <2>3, <2>4
<1>2. \A i \in Content(q)' :
         \/ i \in Content(q) /\ dataQ'[q][i] = dataQ[q][i] /\ i < Len(dataQ[q]) + 1
         \/ i = Len(dataQ[q]) + 1 /\ dataQ'[q][i] = m
  BY <1>1 DEF Content
<1>3. Queued(q)' \subseteq Queued(q) \cup {m.ts}
  BY <1>2 DEF Queued
<1>4. ASSUME NEW i \in Content(q)', NEW j \in Content(q)', i < j
      PROVE  dataQ'[q][i].ts <= dataQ'[q][j].ts
  <2>1. i \in Nat /\ j \in Nat
    BY <1>1 DEF Content
  <2>2. i \in Content(q) /\ dataQ'[q][i] = dataQ[q][i]
    <3>1. j <= Len(dataQ[q]) + 1
      BY <1>1, <1>2, <2>1
    <3>2. i # Len(dataQ[q]) + 1
      BY <1>1, <1>4, <2>1, <3>1
    <3>. QED  BY <1>2, <3>2
  <2>3. CASE j \in Content(q) /\ dataQ'[q][j] = dataQ[q][j]
    BY <1>4, <2>2, <2>3 DEF Sorted
  <2>4. CASE dataQ'[q][j] = m
    <3>1. dataQ[q][i].ts \in Queued(q)
      BY <2>2 DEF Queued
    <3>. QED  BY <2>2, <2>4, <3>1
  <2>. QED  BY <1>2, <2>3, <2>4
<1>. QED  BY <1>3, <1>4 DEF Sorted

\* The echo of a cancel is no content.
LEMMA EchoedQueue ==
    ASSUME TypeOK, NEW q \in Queues, NEW m \in Message, m.sig = Cancel,
           dataQ'[q] = Append(dataQ[q], m)
    PROVE  Queued(q)' = Queued(q) /\ (Sorted(q) => Sorted(q)')
<1>1. /\ \A i \in DOMAIN dataQ[q] : i \in DOMAIN dataQ'[q] /\ dataQ'[q][i] = dataQ[q][i]
      /\ \A i \in DOMAIN dataQ'[q] : i \in DOMAIN dataQ[q] \/ dataQ'[q][i] = m
  <2>1. dataQ[q] \in Seq(Message)
    BY LaneTypes
  <2>. QED  BY <2>1, AppendElements
<1>2. Content(q)' = Content(q) /\ \A i \in Content(q) : dataQ'[q][i] = dataQ[q][i]
  BY <1>1 DEF Content
<1>. QED  BY <1>2 DEF Queued, Sorted

-------------------------------------------------------------------------------
(* One step.                                                               *)

\* The message at the head of a queue is no newer than the rest of its lane.
LEMMA HeadOldest ==
    ASSUME TypeOK, OrderInv, NEW q \in Queues, dataQ[q] # <<>>,
           Head(dataQ[q]).sig # Cancel
    PROVE  /\ Head(dataQ[q]).ts \in Queued(q)
           /\ \A t \in Lane(q) : Head(dataQ[q]).ts <= t
<1>. DEFINE x == Head(dataQ[q])
<1>1. 1 \in DOMAIN dataQ[q] /\ x = dataQ[q][1] /\ \A i \in DOMAIN dataQ[q] : i = 1 \/ 1 < i
  BY LaneTypes
<1>2. 1 \in Content(q) /\ x.ts \in Queued(q) /\ x.ts \in Int
  BY <1>1, LaneTypes DEF Content, Queued
<1>3. ASSUME NEW t \in Queued(q)
      PROVE  x.ts <= t
  <2>1. PICK i \in Content(q) : t = dataQ[q][i].ts
    BY DEF Queued
  <2>2. CASE i = 1
    BY <1>1, <1>2, <2>1, <2>2
  <2>3. CASE 1 < i
    BY <1>1, <1>2, <2>1, <2>3 DEF OrderInv, QueueOrder, Sorted
  <2>. QED  BY <1>1, <2>1, <2>2, <2>3 DEF Content
<1>4. ASSUME NEW n \in Holding(q)
      PROVE  x.ts <= cur[n].ts
  BY <1>2, <1>4 DEF Holding, OrderInv, HandLast
<1>. QED  BY <1>2, <1>3, <1>4 DEF Lane

\* Stamps only fall along the lanes and stay the client's own if the one stamp
\* that a lane gains fits in between the others.
LEMMA LaneStep ==
    ASSUME OrderInv, NEW k \in Queues, NEW x \in Int,
           \A q \in Queues : q # k => Lane(q)' \subseteq Lane(q),
           Lane(k)' \subseteq Lane(k) \cup {x},
           \A q \in Queues : q < k => \A t \in Lane(q)' : x <= t,
           \A q \in Queues : k < q => \A t \in Lane(q) : t <= x,
           x \in entered', lastOut <= x, entered \subseteq entered', lastOut' = lastOut
    PROVE  LaneOrder' /\ Accepted'
<1>1. Accepted'
  BY DEF OrderInv, Accepted
<1>2. ASSUME NEW p \in Queues, NEW q \in Queues, p < q,
             NEW a \in Lane(p)', NEW b \in Lane(q)'
      PROVE  b <= a
  <2>1. CASE a \in Lane(p) /\ b \in Lane(q)
    BY <1>2, <2>1 DEF OrderInv, LaneOrder
  <2>2. CASE a \notin Lane(p)
    <3>1. p = k /\ a = x /\ q # k
      BY <1>2, <2>2 DEF Queues
    <3>. QED  BY <1>2, <3>1
  <2>3. CASE b \notin Lane(q)
    <3>1. q = k /\ b = x
      BY <2>3
    <3>. QED  BY <1>2, <3>1
  <2>. QED  BY <2>1, <2>2, <2>3
<1>. QED  BY <1>1, <1>2 DEF LaneOrder

\* ... and if no lane gains any.
LEMMA LaneShrinks ==
    ASSUME OrderInv, \A q \in Queues : Lane(q)' \subseteq Lane(q),
           entered \subseteq entered', lastOut' = lastOut
    PROVE  LaneOrder' /\ Accepted'
  BY DEF OrderInv, LaneOrder, Accepted

\* The node that comes to hold nothing new holds what it held.
Keeps(n) == Working(n)' => Working(n) /\ cur'[n] = cur[n]

\* A lane whose queue gains nothing gains nothing while its node keeps its message.
LEMMA LaneKept ==
    ASSUME NEW q \in Queues, Queued(q)' \subseteq Queued(q),
           \A n \in Nodes : n + 1 = q => Keeps(n)
    PROVE  Lane(q)' \subseteq Lane(q)
  BY DEF Lane, Holding, Keeps

\* A step that leaves the queues alone, and in which no node begins.
LEMMA QuietStep ==
    ASSUME TypeOK, OrderInv, UNCHANGED <<dataQ, entryVars, lastOut, cur>>,
           \A n \in Nodes : Working(n)' => Working(n)
    PROVE  OrderInv'
<1>1. \A n \in Nodes : Keeps(n)
  BY DEF Keeps
<1>2. \A q \in Queues : Queued(q)' = Queued(q) /\ Sorted(q)' = Sorted(q)
  BY SameQueue
<1>3. \A q \in Queues : Lane(q)' \subseteq Lane(q)
  BY <1>1, <1>2, LaneKept
<1>4. LaneOrder' /\ Accepted'
  BY <1>3, LaneShrinks DEF entryVars
<1>5. QueueOrder' /\ NoEcho' /\ Entry'
  BY <1>2 DEF OrderInv, QueueOrder, NoEcho, Entry, entryVars
<1>6. HandLast'
  BY <1>2, NodeQueues DEF OrderInv, HandLast
<1>. QED  BY <1>4, <1>5, <1>6 DEF OrderInv

\* The entry adds the newest stamp of all to the first lane.
LEMMA SendOrder ==
    ASSUME TypeOK, OrderInv, NEW s \in Signals \cup {Data}, NEW t \in Stamps,
           NEW d \in Addressees, ClientSend(s, t, d)
    PROVE  OrderInv'
<1>. DEFINE m == [sig |-> s, ts |-> t, dest |-> d]
<1>1. m \in Message /\ m.ts = t /\ m.sig # Cancel /\ t \in Nat /\ 1 \in Queues
  BY NodeQueues, SignalAssumption, StampAssumption, ChainAssumption DEF Message, Data, Cancel
<1>2. /\ dataQ'[1] = Append(dataQ[1], m)
      /\ \A q \in Queues : q # 1 => dataQ'[q] = dataQ[q]
  BY <1>1 DEF ClientSend, Put, TypeOK
<1>. HIDE DEF m
<1>3. /\ lastTs <= t /\ lastTs' = t /\ entered' = entered \cup {t}
      /\ UNCHANGED <<cur, pc, lastOut>>
  BY <1>1 DEF ClientSend, nodeVars, TypeOK
<1>4. \A q \in Queues : \A a \in Lane(q) : a <= t
  <2>1. \A a \in entered : a \in Nat /\ a <= lastTs
    BY DEF TypeOK, OrderInv, Entry
  <2>2. \A a \in entered : a <= t
    BY <1>1, <1>3, <2>1 DEF TypeOK
  <2>. QED  BY <2>2 DEF OrderInv, Accepted
<1>5. \A n \in Nodes : Keeps(n) /\ n + 1 # 1
  BY <1>3, ChainAssumption DEF Keeps, Working, Nodes
<1>6. \A a \in Queued(1) : a <= m.ts
  BY <1>1, <1>4 DEF Lane
<1>7. /\ \A q \in Queues : q # 1 => Queued(q)' = Queued(q) /\ Sorted(q)' = Sorted(q)
      /\ Queued(1)' \subseteq Queued(1) \cup {t} /\ Sorted(1)'
  BY <1>1, <1>2, <1>6, SameQueue, GrownQueue DEF OrderInv, QueueOrder
<1>8. \A q \in Queues : q # 1 => Lane(q)' \subseteq Lane(q)
  BY <1>5, <1>7, LaneKept
<1>9. Lane(1)' \subseteq Lane(1) \cup {t}
  BY <1>5, <1>7 DEF Lane, Holding
<1>10. lastOut <= t
  <2>1. lastOut <= lastTs
    BY DEF OrderInv, Entry
  <2>. QED  BY <1>1, <1>3, <2>1 DEF TypeOK
<1>11. LaneOrder' /\ Accepted'
  <2>1. \A q \in Queues : ~(q < 1)
    BY ChainAssumption DEF Queues
  <2>. QED  BY <1>1, <1>3, <1>4, <1>8, <1>9, <1>10, <2>1, LaneStep
<1>12. QueueOrder'
  BY <1>7 DEF OrderInv, QueueOrder
<1>13. HandLast'
  BY <1>3, <1>5, <1>7, NodeQueues DEF OrderInv, HandLast, Working
<1>14. Entry'
  BY <1>1, <1>3 DEF OrderInv, Entry, TypeOK
<1>15. NoEcho'
  <2>1. \A i \in DOMAIN dataQ'[1] : dataQ'[1][i] = m \/ dataQ'[1][i].sig # Cancel
    <3>1. dataQ[1] \in Seq(Message)
      BY <1>1, LaneTypes
    <3>2. \A i \in DOMAIN dataQ[1] : dataQ[1][i].sig # Cancel
      BY NodeQueues DEF OrderInv, NoEcho
    <3>. QED  BY <1>1, <1>2, <3>1, <3>2, AppendElements
  <2>. QED  BY <1>1, <1>2, <1>3, <2>1, NodeQueues DEF OrderInv, NoEcho
<1>. QED  BY <1>11, <1>12, <1>13, <1>14, <1>15 DEF OrderInv

\* A node that forwards or relays moves the oldest stamp of its lane to the tail
\* of the next one.
LEMMA MoveOrder ==
    ASSUME TypeOK, OrderInv, NEW n \in Nodes, Arrives(n), NEW m \in Message,
           m.ts = Incoming(n).ts, m.sig # Cancel, dataQ' = Pass(n, m), Goto(n, "top"),
           UNCHANGED <<entryVars, cur, lastOut>>
    PROVE  OrderInv'
<1>. DEFINE x == Incoming(n).ts
<1>1. /\ n \in Queues /\ n + 1 \in Queues /\ n # n + 1 /\ n < n + 1 /\ n \in Nat
      /\ dataQ[n] # <<>> /\ ~Working(n) /\ ~Working(n)'
      /\ \A k \in Nodes : k # n => Working(k)' = Working(k)
  BY NodeQueues DEF Arrives, Working, Goto, TypeOK, Nodes
<1>2. /\ dataQ'[n] = Tail(dataQ[n])
      /\ dataQ'[n + 1] = Append(dataQ[n + 1], m)
      /\ \A q \in Queues : q # n /\ q # n + 1 => dataQ'[q] = dataQ[q]
  BY <1>1 DEF Pass, TypeOK
<1>3. Incoming(n).sig # Cancel /\ x \in Int
  BY IncomingType DEF OrderInv, NoEcho
<1>4. x \in Queued(n) /\ \A t \in Lane(n) : x <= t
  BY <1>1, <1>3, HeadOldest DEF Incoming
<1>5. x \in Lane(n) /\ x \in entered /\ lastOut <= x
  BY <1>1, <1>4 DEF Lane, OrderInv, Accepted
<1>6. \A q \in Queues : n < q => \A t \in Lane(q) : t <= x
  BY <1>1, <1>5 DEF OrderInv, LaneOrder
<1>7. \A q \in Queues : q < n => \A t \in Lane(q) : x <= t
  BY <1>1, <1>5 DEF OrderInv, LaneOrder
<1>8. \A t \in Queued(n + 1) : t <= m.ts
  BY <1>1, <1>6 DEF Lane
<1>9. /\ Queued(n)' \subseteq Queued(n) /\ Sorted(n)'
      /\ Queued(n + 1)' \subseteq Queued(n + 1) \cup {x} /\ Sorted(n + 1)'
      /\ \A q \in Queues : q # n /\ q # n + 1 => Queued(q)' = Queued(q) /\ Sorted(q)'
  BY <1>1, <1>2, <1>8, TakenQueue, GrownQueue, SameQueue DEF OrderInv, QueueOrder
<1>10. \A k \in Nodes : Keeps(k)
  BY <1>1 DEF Keeps
<1>11. \A q \in Queues : q # n + 1 => Lane(q)' \subseteq Lane(q)
  BY <1>9, <1>10, LaneKept
<1>12. Lane(n + 1)' \subseteq Lane(n + 1) \cup {x}
  BY <1>9, <1>10 DEF Lane, Holding, Keeps
<1>13. LaneOrder' /\ Accepted'
  <2>1. \A q \in Queues : q < n + 1 => \A t \in Lane(q)' : x <= t
    <3>1. \A q \in Queues : q < n + 1 => q < n \/ q = n
      BY <1>1 DEF Queues
    <3>2. \A q \in Queues : q < n + 1 => q # n + 1
      BY <1>1 DEF Queues
    <3>. QED  BY <1>4, <1>7, <1>11, <3>1, <3>2
  <2>2. \A q \in Queues : n + 1 < q => \A t \in Lane(q) : t <= x
    <3>1. \A q \in Queues : n + 1 < q => n < q
      BY <1>1 DEF Queues
    <3>. QED  BY <1>6, <3>1
  <2>. QED  BY <1>1, <1>3, <1>5, <1>11, <1>12, <2>1, <2>2, LaneStep DEF entryVars
<1>14. QueueOrder'
  BY <1>9 DEF QueueOrder
<1>15. HandLast'
  <2> SUFFICES ASSUME NEW k \in Nodes, Working(k)', NEW t \in Queued(k + 1)'
               PROVE  t <= cur'[k].ts
    BY DEF HandLast
  <2>1. Working(k) /\ k # n /\ k + 1 # n + 1 /\ cur'[k] = cur[k] /\ k + 1 \in Queues
    BY <1>1, NodeQueues DEF Nodes
  <2>2. t \in Queued(k + 1)
    BY <1>9, <2>1
  <2>. QED  BY <2>1, <2>2 DEF OrderInv, HandLast
<1>16. Entry' /\ NoEcho'
  <2>1. \A i \in DOMAIN dataQ'[n] : dataQ'[n][i].sig # Cancel
    BY <1>1, <1>2, LaneTypes, TailElements DEF OrderInv, NoEcho
  <2>2. n + 1 \in Nodes => \A i \in DOMAIN dataQ'[n + 1] : dataQ'[n + 1][i].sig # Cancel
    BY <1>1, <1>2, LaneTypes, AppendElements DEF OrderInv, NoEcho
  <2>3. \A k \in Nodes : k # n /\ k # n + 1 => dataQ'[k] = dataQ[k]
    BY <1>2, NodeQueues
  <2>4. NoEcho'
    BY <2>1, <2>2, <2>3 DEF OrderInv, NoEcho
  <2>. QED  BY <2>4 DEF OrderInv, Entry, entryVars
<1>. QED  BY <1>13, <1>14, <1>15, <1>16 DEF OrderInv

\* A node that drops, or takes into its hand, the oldest message of its lane.
LEMMA TakeOrder ==
    ASSUME TypeOK, OrderInv, NEW n \in Nodes, Arrives(n), dataQ' = Take(n),
           UNCHANGED <<entryVars, lastOut>>,
           \/ Goto(n, "top") /\ cur' = cur
           \/ Goto(n, "work") /\ cur' = [cur EXCEPT ![n] = Incoming(n)]
    PROVE  OrderInv'
<1>. DEFINE x == Incoming(n).ts
<1>1. /\ n \in Queues /\ n + 1 \in Queues /\ n # n + 1 /\ n < n + 1 /\ n \in Nat
      /\ dataQ[n] # <<>> /\ ~Working(n) /\ (Working(n)' => cur'[n] = Incoming(n))
      /\ \A k \in Nodes : k # n => Working(k)' = Working(k) /\ cur'[k] = cur[k]
      /\ cur'[n] = Incoming(n) \/ cur'[n] = cur[n]
  <2>1. /\ n \in Queues /\ n + 1 \in Queues /\ n # n + 1 /\ n < n + 1 /\ n \in Nat
        /\ dataQ[n] # <<>> /\ ~Working(n)
    BY NodeQueues DEF Arrives, Working, Nodes
  <2>2. CASE Goto(n, "top") /\ cur' = cur
    BY <2>1, <2>2 DEF Working, Goto, TypeOK
  <2>3. CASE Goto(n, "work") /\ cur' = [cur EXCEPT ![n] = Incoming(n)]
    BY <2>1, <2>3 DEF Working, Goto, TypeOK
  <2>. QED  BY <2>1, <2>2, <2>3
<1>2. /\ dataQ'[n] = Tail(dataQ[n])
      /\ \A q \in Queues : q # n => dataQ'[q] = dataQ[q]
  BY <1>1 DEF Take, TypeOK
<1>3. Incoming(n).sig # Cancel /\ x \in Int
  BY IncomingType DEF OrderInv, NoEcho
<1>4. x \in Queued(n) /\ \A t \in Lane(n) : x <= t
  BY <1>1, <1>3, HeadOldest DEF Incoming
<1>5. x \in Lane(n) /\ x \in entered /\ lastOut <= x
  BY <1>1, <1>4 DEF Lane, OrderInv, Accepted
<1>6. \A q \in Queues : n < q => \A t \in Lane(q) : t <= x
  BY <1>1, <1>5 DEF OrderInv, LaneOrder
<1>7. \A q \in Queues : q < n => \A t \in Lane(q) : x <= t
  BY <1>1, <1>5 DEF OrderInv, LaneOrder
<1>8. \A q \in Queues : Queued(q)' \subseteq Queued(q) /\ Sorted(q)'
  BY <1>1, <1>2, TakenQueue, SameQueue DEF OrderInv, QueueOrder
<1>9. \A k \in Nodes : k # n => Keeps(k)
  BY <1>1 DEF Keeps
<1>10. \A q \in Queues : q # n + 1 => Lane(q)' \subseteq Lane(q)
  <2>1. \A q \in Queues : q # n + 1 => \A k \in Nodes : k + 1 = q => k # n
    OBVIOUS
  <2>. QED  BY <1>8, <1>9, <2>1, LaneKept
<1>11. Lane(n + 1)' \subseteq Lane(n + 1) \cup {x}
  <2>1. \A k \in Holding(n + 1)' : cur'[k].ts \in Lane(n + 1) \cup {x}
    BY <1>1 DEF Lane, Holding
  <2>. QED  BY <1>1, <1>8, <2>1 DEF Lane
<1>12. LaneOrder' /\ Accepted'
  <2>1. \A q \in Queues : q < n + 1 => \A t \in Lane(q)' : x <= t
    <3>1. \A q \in Queues : q < n + 1 => (q < n \/ q = n) /\ q # n + 1
      BY <1>1 DEF Queues
    <3>. QED  BY <1>4, <1>7, <1>10, <3>1
  <2>2. \A q \in Queues : n + 1 < q => \A t \in Lane(q) : t <= x
    <3>1. \A q \in Queues : n + 1 < q => n < q
      BY <1>1 DEF Queues
    <3>. QED  BY <1>6, <3>1
  <2>. QED  BY <1>1, <1>3, <1>5, <1>10, <1>11, <2>1, <2>2, LaneStep DEF entryVars
<1>13. QueueOrder'
  BY <1>8 DEF QueueOrder
<1>14. HandLast'
  <2> SUFFICES ASSUME NEW k \in Nodes, Working(k)', NEW t \in Queued(k + 1)'
               PROVE  t <= cur'[k].ts
    BY DEF HandLast
  <2>1. k + 1 \in Queues /\ t \in Queued(k + 1)
    BY <1>8, NodeQueues
  <2>2. CASE k = n
    BY <1>1, <1>6, <2>1, <2>2 DEF Lane
  <2>3. CASE k # n
    BY <1>1, <2>1, <2>3 DEF OrderInv, HandLast
  <2>. QED  BY <2>2, <2>3
<1>15. Entry' /\ NoEcho'
  <2>1. \A i \in DOMAIN dataQ'[n] : dataQ'[n][i].sig # Cancel
    BY <1>1, <1>2, LaneTypes, TailElements DEF OrderInv, NoEcho
  <2>2. \A k \in Nodes : cur'[k].sig # Cancel
    BY <1>1, <1>3 DEF OrderInv, NoEcho
  <2>3. \A k \in Nodes : k # n => dataQ'[k] = dataQ[k]
    BY <1>2, NodeQueues
  <2>4. NoEcho'
    BY <2>1, <2>2, <2>3 DEF OrderInv, NoEcho
  <2>. QED  BY <2>4 DEF OrderInv, Entry, entryVars
<1>. QED  BY <1>12, <1>13, <1>14, <1>15 DEF OrderInv

\* What a node sends for the message in its hand carries that message's stamp.
LEMMA AnswerOrder ==
    ASSUME TypeOK, OrderInv, NEW n \in Nodes, Working(n), NEW m \in Message,
           m.ts = cur[n].ts, m.sig # Cancel, dataQ' = Put(n + 1, m) \/ dataQ' = dataQ,
           \A k \in Nodes : Keeps(k), \A k \in Nodes : k # n => cur'[k] = cur[k],
           cur'[n].sig # Cancel, UNCHANGED <<entryVars, lastOut>>
    PROVE  OrderInv'
<1>1. n + 1 \in Queues /\ n \in Nat /\ \A k \in Nodes : k + 1 \in Queues /\ k \in Nat
  BY NodeQueues DEF Nodes
<1>2. /\ \A q \in Queues : q # n + 1 => dataQ'[q] = dataQ[q]
      /\ dataQ'[n + 1] = dataQ[n + 1] \/ dataQ'[n + 1] = Append(dataQ[n + 1], m)
  BY <1>1 DEF Put, TypeOK
<1>3. m.ts \in Lane(n + 1) /\ \A t \in Queued(n + 1) : t <= m.ts
  BY DEF Lane, Holding, OrderInv, HandLast
<1>4. /\ \A q \in Queues : q # n + 1 => Queued(q)' = Queued(q) /\ Sorted(q)'
      /\ Queued(n + 1)' \subseteq Queued(n + 1) \cup {m.ts} /\ Sorted(n + 1)'
  BY <1>1, <1>2, <1>3, SameQueue, GrownQueue DEF OrderInv, QueueOrder
<1>5. \A q \in Queues : q # n + 1 => Lane(q)' \subseteq Lane(q)
  BY <1>4, LaneKept
<1>6. Lane(n + 1)' \subseteq Lane(n + 1)
  BY <1>3, <1>4 DEF Lane, Holding, Keeps
<1>7. LaneOrder' /\ Accepted'
  BY <1>5, <1>6, LaneShrinks DEF entryVars
<1>8. QueueOrder'
  BY <1>4 DEF QueueOrder
<1>9. HandLast'
  <2> SUFFICES ASSUME NEW k \in Nodes, Working(k)', NEW t \in Queued(k + 1)'
               PROVE  t <= cur'[k].ts
    BY DEF HandLast
  <2>1. Working(k) /\ cur'[k] = cur[k] /\ cur[k].ts \in Int
    BY DEF Keeps, TypeOK, Message
  <2>2. CASE k = n
    BY <1>3, <1>4, <2>1, <2>2
  <2>3. CASE k # n
    <3>1. k + 1 # n + 1
      BY <1>1, <2>3
    <3>. QED  BY <1>1, <1>4, <2>1, <3>1 DEF OrderInv, HandLast
  <2>. QED  BY <2>2, <2>3
<1>10. NoEcho'
  <2>1. ASSUME n + 1 \in Nodes
        PROVE  \A i \in DOMAIN dataQ'[n + 1] : dataQ'[n + 1][i].sig # Cancel
    <3>1. \A i \in DOMAIN dataQ[n + 1] : dataQ[n + 1][i].sig # Cancel
      BY <2>1 DEF OrderInv, NoEcho
    <3>2. \A i \in DOMAIN dataQ'[n + 1] :
             (\E j \in DOMAIN dataQ[n + 1] : dataQ'[n + 1][i] = dataQ[n + 1][j])
               \/ dataQ'[n + 1][i] = m
      <4>1. dataQ[n + 1] \in Seq(Message)
        BY <1>1, LaneTypes
      <4>2. CASE dataQ'[n + 1] = dataQ[n + 1]
        BY <4>2
      <4>3. CASE dataQ'[n + 1] = Append(dataQ[n + 1], m)
        BY <4>1, <4>3, AppendElements
      <4>. QED  BY <1>2, <4>2, <4>3
    <3>. QED  BY <3>1, <3>2
  <2>2. \A k \in Nodes : k # n + 1 => dataQ'[k] = dataQ[k]
    BY <1>2, NodeQueues
  <2>. QED  BY <2>1, <2>2 DEF OrderInv, NoEcho
<1>. QED  BY <1>7, <1>8, <1>9, <1>10 DEF OrderInv, Entry, entryVars

\* The exit: the send queue gains no content, and what is handed over is no
\* newer than anything still in the chain.
LEMMA ExitOrder ==
    ASSUME TypeOK, OrderInv, UNCHANGED <<entryVars, pc, cur>>,
           \A q \in Queues : Queued(q)' \subseteq Queued(q) /\ Sorted(q)',
           \A n \in Nodes : dataQ'[n] = dataQ[n],
           lastOut' = lastOut \/ (lastOut' \in entered
                                   /\ \A q \in Queues : \A t \in Lane(q) : lastOut' <= t)
    PROVE  OrderInv'
<1>1. \A q \in Queues : Lane(q)' \subseteq Lane(q)
  BY LaneKept DEF Keeps, Working
<1>2. LaneOrder'
  BY <1>1 DEF OrderInv, LaneOrder
<1>3. Accepted' /\ Entry'
  BY <1>1 DEF OrderInv, Accepted, Entry, entryVars
<1>4. HandLast'
  BY NodeQueues DEF OrderInv, HandLast, Working
<1>. QED  BY <1>2, <1>3, <1>4 DEF OrderInv, QueueOrder, NoEcho

\* What Deliver hands to the client: the oldest content there is.
LEMMA DeliverHands ==
    ASSUME TypeOK, OrderInv, Deliver
    PROVE  /\ OrderInv'
           /\ \/ lastOut' = lastOut
              \/ lastOut' \in entered /\ lastOut <= lastOut'
<1>1. /\ N + 1 \in Queues /\ N + 1 \notin Nodes /\ N \in Nat
      /\ \A n \in Nodes : n \in Queues /\ n # N + 1
  BY NodeQueues, ChainAssumption DEF Nodes
<1>2. /\ dataQ'[N + 1] = Tail(dataQ[N + 1]) /\ dataQ[N + 1] # <<>>
      /\ \A q \in Queues : q # N + 1 => dataQ'[q] = dataQ[q]
  BY <1>1 DEF Deliver, Take, TypeOK
<1>3. \A q \in Queues : Queued(q)' \subseteq Queued(q) /\ Sorted(q)'
  BY <1>1, <1>2, TakenQueue, SameQueue DEF OrderInv, QueueOrder
<1>4. ASSUME lastOut' # lastOut
      PROVE  /\ lastOut' \in entered /\ lastOut <= lastOut'
             /\ \A q \in Queues : \A t \in Lane(q) : lastOut' <= t
  <2>1. Head(dataQ[N + 1]).sig # Cancel /\ lastOut' = Head(dataQ[N + 1]).ts
    BY <1>4 DEF Deliver
  <2>2. lastOut' \in Lane(N + 1) /\ \A t \in Lane(N + 1) : lastOut' <= t
    BY <1>1, <1>2, <2>1, HeadOldest DEF Lane
  <2>3. \A q \in Queues : q # N + 1 => \A t \in Lane(q) : lastOut' <= t
    <3>1. \A q \in Queues : q # N + 1 => q < N + 1
      BY <1>1 DEF Queues
    <3>. QED  BY <1>1, <2>2, <3>1 DEF OrderInv, LaneOrder
  <2>. QED  BY <1>1, <2>2, <2>3 DEF OrderInv, Accepted
<1>5. OrderInv'
  BY <1>1, <1>2, <1>3, <1>4, ExitOrder DEF Deliver, nodeVars
<1>. QED  BY <1>4, <1>5

-------------------------------------------------------------------------------
\* Every step of the chain keeps the order, and is a step of TurnStream.
LEMMA OrderInductive ==
    TypeOK /\ OrderInv /\ [Next]_vars
       => OrderInv' /\ [Turns!Next]_<<entered, lastOut>>
<1> SUFFICES ASSUME TypeOK, OrderInv, [Next]_vars
             PROVE  OrderInv' /\ [Turns!Next]_<<entered, lastOut>>
  OBVIOUS
<1>1. ASSUME NEW s \in Signals \cup {Data}, NEW t \in Stamps,
               NEW d \in Addressees, ClientSend(s, t, d)
      PROVE  OrderInv' /\ Turns!Next
  <2>1. \A a \in entered : a \in Nat /\ a <= lastTs /\ lastTs \in Nat
    BY DEF OrderInv, Entry, TypeOK
  <2>2. t \in Nat /\ t >= lastTs /\ entered' = entered \cup {t} /\ lastOut' = lastOut
    BY <1>1, StampAssumption DEF ClientSend
  <2>3. Turns!Accept(t)
    BY <2>1, <2>2 DEF Turns!Accept
  <2>. QED  BY <1>1, <2>3, SendOrder DEF Turns!Next
<1>2. CASE Deliver
  <2>1. entered' = entered
    BY <1>2 DEF Deliver, entryVars
  <2>2. ASSUME lastOut' # lastOut
        PROVE  Turns!Next
    <3>1. lastOut' \in entered /\ lastOut <= lastOut'
      BY <1>2, <2>2, DeliverHands
    <3>2. Turns!Hand(lastOut')
      BY <2>1, <3>1 DEF Turns!Hand, TypeOK
    <3>. QED  BY <3>1, <3>2 DEF Turns!Next, OrderInv, Entry
  <2>. QED  BY <1>2, <2>1, <2>2, DeliverHands
<1>3. ASSUME OrderInv', UNCHANGED <<entryVars, lastOut>>
      PROVE  OrderInv' /\ [Turns!Next]_<<entered, lastOut>>
  BY <1>3 DEF entryVars
<1>4. ASSUME NEW n \in Nodes, NodeForward(n) \/ NodeRelay(n)
      PROVE  OrderInv' /\ UNCHANGED <<entryVars, lastOut>>
  <2>1. Arrives(n) /\ Incoming(n) \in Message /\ Incoming(n).sig # Cancel
    BY <1>4, IncomingType DEF NodeForward, NodeRelay, Mine, OrderInv, NoEcho
  <2>2. CASE NodeForward(n)
    BY <2>1, <2>2, MoveOrder DEF NodeForward
  <2>3. CASE NodeRelay(n)
    <3>1. /\ Relayed(n, Incoming(n)) \in Message
          /\ Relayed(n, Incoming(n)).ts = Incoming(n).ts
          /\ Relayed(n, Incoming(n)).sig # Cancel
      BY <2>1, <2>3, RelayType, SignalAssumption DEF NodeRelay, Passed, Relayed
    <3>. QED  BY <2>1, <2>3, <3>1, MoveOrder DEF NodeRelay
  <2>. QED  BY <1>4, <2>2, <2>3
<1>5. ASSUME NEW n \in Nodes, NodeDrop(n) \/ NodeBegin(n)
      PROVE  OrderInv' /\ UNCHANGED <<entryVars, lastOut>>
  BY <1>5, TakeOrder DEF NodeDrop, NodeBegin, Mine
<1>6. ASSUME NEW n \in Nodes, NEW s \in Emits[n], NEW i \in DOMAIN Edges[n],
             NodeEmit(n, s, Edges[n][i])
      PROVE  OrderInv' /\ UNCHANGED <<entryVars, lastOut>>
  <2>. DEFINE m == [sig |-> s, ts |-> cur[n].ts, dest |-> Edges[n][i]]
  <2>1. m \in Message /\ m.ts = cur[n].ts /\ m.sig # Cancel
    BY ChainAssumption, SignalAssumption DEF Message, TypeOK, Data, Cancel
  <2>2. /\ Working(n) /\ dataQ' = Put(n + 1, m) /\ \A k \in Nodes : Keeps(k)
        /\ cur' = cur /\ UNCHANGED <<entryVars, lastOut>>
    BY <1>6 DEF NodeEmit, Working, Keeps
  <2>3. cur'[n].sig # Cancel
    BY <2>2 DEF OrderInv, NoEcho
  <2>. QED  BY <2>1, <2>2, <2>3, AnswerOrder
<1>7. ASSUME NEW n \in Nodes, NodeFinish(n)
      PROVE  OrderInv' /\ UNCHANGED <<entryVars, lastOut>>
  <2>. DEFINE m == IF cur[n].sig \in DOMAIN Passes[n] THEN Relayed(n, cur[n]) ELSE cur[n]
  <2>1. cur[n] \in Message /\ cur[n].sig # Cancel
    BY DEF TypeOK, OrderInv, NoEcho
  <2>2. m \in Message /\ m.ts = cur[n].ts /\ m.sig # Cancel
    BY <2>1, RelayType, SignalAssumption DEF Relayed
  <2>3. dataQ' = Put(n + 1, m) \/ dataQ' = dataQ
    BY <1>7 DEF NodeFinish
  <2>4. Working(n) /\ \A k \in Nodes : Keeps(k)
    BY <1>7 DEF NodeFinish, MustLeave, Working, Keeps, Goto, TypeOK
  <2>5. (\A k \in Nodes : k # n => cur'[k] = cur[k]) /\ cur'[n].sig # Cancel
    BY <1>7 DEF NodeFinish, NoMessage, TypeOK, Data, Cancel
  <2>6. UNCHANGED <<entryVars, lastOut>>
    BY <1>7 DEF NodeFinish
  <2>. HIDE DEF m
  <2>. QED  BY <2>2, <2>3, <2>4, <2>5, <2>6, AnswerOrder
<1>8. ASSUME NEW n \in Nodes, NodeControl(n) \/ NodeGet(n) \/ NodeExit(n) \/ NodeTimeout(n)
                                \/ NodeBargeIn(n) \/ NodePoll(n) \/ NodeResume(n)
      PROVE  OrderInv' /\ UNCHANGED <<entryVars, lastOut>>
  <2>1. UNCHANGED <<dataQ, entryVars, lastOut, cur>>
    BY <1>8 DEF NodeControl, NodeGet, NodeExit, NodeTimeout, NodeBargeIn, NodePoll, NodeResume
  <2>2. \A k \in Nodes : Working(k)' => Working(k)
    BY <1>8 DEF NodeControl, NodeGet, NodeExit, NodeTimeout, NodeBargeIn, NodePoll,
                NodeResume, Goto, Working, TypeOK
  <2>. QED  BY <2>1, <2>2, QuietStep
<1>9. ASSUME HandlerDone \/ Close
      PROVE  OrderInv' /\ UNCHANGED <<entryVars, lastOut>>
  <2>1. /\ N + 1 \in Queues /\ \A n \in Nodes : n \in Queues /\ n # N + 1
    BY NodeQueues, ChainAssumption DEF Nodes
  <2>2. UNCHANGED <<entryVars, pc, cur, lastOut>>
    BY <1>9 DEF HandlerDone, Close, nodeVars
  <2>3. \A q \in Queues : q # N + 1 => dataQ'[q] = dataQ[q]
    BY <1>9, <2>1 DEF HandlerDone, Close, Put, TypeOK
  <2>4. Queued(N + 1)' \subseteq Queued(N + 1) /\ Sorted(N + 1)'
    <3>. DEFINE m == [sig |-> Cancel, ts |-> Nudged(hevent), dest |-> Exit]
    <3>1. m \in Message /\ m.sig = Cancel
      BY StampAssumption DEF Nudged, Message, TypeOK, Event
    <3>2. CASE dataQ'[N + 1] = dataQ[N + 1]
      BY <2>1, <3>2, SameQueue DEF OrderInv, QueueOrder
    <3>3. CASE dataQ'[N + 1] = Append(dataQ[N + 1], m)
      BY <2>1, <3>1, <3>3, EchoedQueue DEF OrderInv, QueueOrder
    <3>4. CASE dataQ'[N + 1] = <<>>
      BY <2>1, <3>4, EmptiedQueue
    <3>. QED  BY <1>9, <2>1, <3>2, <3>3, <3>4 DEF HandlerDone, Close, Put, TypeOK
  <2>5. \A q \in Queues : Queued(q)' \subseteq Queued(q) /\ Sorted(q)'
    BY <2>3, <2>4, SameQueue DEF OrderInv, QueueOrder
  <2>. QED  BY <2>1, <2>2, <2>3, <2>5, ExitOrder
<1>10. ASSUME \/ HandlerTake \/ HandlerPut \/ Teardown \/ UNCHANGED vars
              \/ \E v \in Events \cup {Cancel}, t \in Stamps : ClientControl(v, t)
       PROVE  OrderInv' /\ UNCHANGED <<entryVars, lastOut>>
  <2>1. UNCHANGED <<dataQ, entryVars, lastOut, cur, pc>>
    BY <1>10 DEF HandlerTake, HandlerPut, Teardown, SubmitVoid, SubmitKill, Disposed,
                 ClientControl, vars, nodeVars
  <2>. QED  BY <2>1, QuietStep DEF Working
<1>. QED
  BY <1>1, <1>2, <1>3, <1>4, <1>5, <1>6, <1>7, <1>8, <1>9, <1>10
  DEF Next, Client, Handler, Node

\* The chain implements TurnStream, whatever its nodes declare and do: content
\* leaves in the order of the turns and under stamps the client sent.
THEOREM TurnOrder == Spec => KeepsTurnOrder
<1>1. Init => OrderInv
  <2> SUFFICES ASSUME Init
               PROVE  OrderInv
    OBVIOUS
  <2>1. \A q \in Queues : dataQ[q] = <<>>
    BY DEF Init
  <2>2. \A n \in Nodes : ~Working(n) /\ cur[n].sig # Cancel
    BY DEF Init, Working, NoMessage, Data, Cancel
  <2>3. \A q \in Queues : Content(q) = {} /\ Queued(q) = {} /\ Lane(q) = {}
    BY <2>1, <2>2 DEF Content, Queued, Lane, Holding
  <2>4. LaneOrder /\ QueueOrder /\ HandLast /\ Accepted
    BY <2>2, <2>3 DEF LaneOrder, QueueOrder, Sorted, HandLast, Accepted
  <2>5. Entry /\ NoEcho
    BY <2>1, <2>2, NodeQueues DEF Init, Entry, NoEcho
  <2>. QED  BY <2>4, <2>5 DEF OrderInv
<1>2. Init => Turns!Init
  BY DEF Init, Turns!Init
<1>. QED
  BY <1>1, <1>2, OrderInductive, TypeCorrect, PTL
  DEF Spec, KeepsTurnOrder, Turns!Spec
===============================================================================
