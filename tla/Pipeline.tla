------------------------------- MODULE Pipeline -------------------------------
(***************************************************************************)
(* One client's runtime: a linear chain of single-threaded nodes joined by *)
(* FIFO data queues, the control plane that runs beside it (one control    *)
(* queue per node, written by the event-handler thread alone), the         *)
(* WebSocket entry and exit, and teardown.                                 *)
(*                                                                         *)
(*   client -> dataQ[1] -> node 1 -> dataQ[2] -> ... -> node N -> dataQ[N+1]*)
(*   (dataQ[N+1] is the send queue)                             -> client  *)
(*   client, emitters, teardown -> inbox -> event handler -> ctrlQ[n]      *)
(*                                                                         *)
(* The nodes are BaseProcessingStep threads.  process() is the module's    *)
(* own code: here it emits up to MaxOut messages, polls check_cancel at    *)
(* any point, may raise a barge-in cancel if it is an emitter, and then    *)
(* returns or raises.  A poll that finds nothing is a stuttering step.     *)
(* A put on a full bounded queue blocks; every configuration the repository *)
(* ships leaves all queues unbounded.                                      *)
(***************************************************************************)
EXTENDS Integers, Sequences

CONSTANTS
    N,            \* number of nodes in the chain
    Emitters,     \* nodes that mint barge-in cancels (the model-driven VAD)
    Signals,      \* names of in-band signals
    Catches,      \* Catches[n]: the signals node n delivers to process()
    Passes,       \* Passes[n]: the signals node n relays, each with its new name
    Emits,        \* Emits[n]: what node n's process() sends: signals or Data
    Edges,        \* Edges[n]: next_nodes of node n, its first edge first
    Bound,        \* Bound[q]: capacity of data queue q, 0 for none
    Addressees,   \* where the client sends: node 1, or the exit (pipeline_ready)
    Events,       \* the control-plane verbs the configuration declares
    Stamps,       \* turn timestamps, in units of the clock's resolution
    Epsilon,      \* CANCEL_EPSILON in the same units
    Infinity,     \* the stamp of teardown's cancel
    MaxSubmitted, \* bound: messages and control messages before teardown
    MaxOut        \* bound: messages process() emits for one input

Nodes  == 1..N
Queues == 1..(N + 1)
Exit   == -1                  \* next_nodes entry that no node's id matches
Data   == "data"
Cancel == "cancel"
Kill   == "kill"

Message == [sig  : Signals \cup {Data, Cancel},
            ts   : Int,
            dest : Nodes \cup {Exit}]
Verbs   == Events \cup {Cancel, Kill}
Control == [verb : Verbs, ts : Int]
Event   == [verb : Verbs, ts : Int, source : 0..N]

ASSUME ChainAssumption ==
    /\ N \in Nat \ {0}
    /\ Emitters \subseteq Nodes
    /\ \A n \in Nodes : Edges[n] \in Seq(Nodes \cup {Exit}) /\ Edges[n] # <<>>
    /\ Addressees \subseteq Nodes \cup {Exit}
    /\ Bound \in [Queues -> Nat] /\ Bound[1] = 0

ASSUME SignalAssumption ==
    /\ Data \notin Signals /\ Cancel \notin Signals
    /\ Cancel \notin Events /\ Kill \notin Events
    /\ \A n \in Nodes :
         /\ Catches[n] \subseteq Signals
         /\ DOMAIN Passes[n] \subseteq Signals
         /\ Emits[n] \subseteq Signals \cup {Data}
         /\ \A s \in DOMAIN Passes[n] : Passes[n][s] \in Signals

ASSUME StampAssumption ==
    /\ Stamps \subseteq Nat
    /\ Epsilon \in Nat \ {0}
    /\ Infinity \in Nat
    /\ \A t \in Stamps : t <= Infinity

ASSUME BoundAssumption == MaxSubmitted \in Nat /\ MaxOut \in Nat

VARIABLES
    lastTs,      \* entry: last_timestamp, the monotonicity gate
    sends,       \* messages the client has sent
    entered,     \* history: the stamps the entry has let in
    controls,    \* control messages submitted by client and emitters
    issued,      \* history: the highest cancel stamp anyone has submitted
    inbox,       \* event handler's inbox
    hstate,      \* event-handler thread: "idle", "dispatch" or "exited"
    hevent,      \* the event it is dispatching
    htarget,     \* the next node it will put the event to
    ctrlQ,       \* control queue of each node
    dataQ,       \* data queues; dataQ[N+1] is the send queue
    pc,          \* where each node thread is
    cur,         \* the message a working node is processing
    outs,        \* messages it has emitted for it
    watermark,   \* each node's cancel_timestamp
    killed,      \* each node's _killed flag
    voided,      \* check_cancel's hasCancel, while a node polls
    stage,       \* the connection: serving, then the steps of dispose()
    lastOut      \* stamp of the last content message handed to the client

entryVars   == <<lastTs, sends, entered>>
handlerVars == <<hstate, hevent, htarget>>
nodeVars    == <<pc, cur, outs, watermark, killed, voided>>
vars == <<entryVars, controls, issued, inbox, handlerVars, ctrlQ, dataQ,
          nodeVars, stage, lastOut>>

Larger(a, b) == IF a < b THEN b ELSE a
Room(q)      == Bound[q] = 0 \/ Len(dataQ[q]) < Bound[q]
Put(q, x)    == [dataQ EXCEPT ![q] = Append(@, x)]

\* A forwarding hop that lets x overtake what is already queued.
MutantPass(n, x) == [dataQ EXCEPT ![n] = Tail(@), ![n + 1] = <<x>> \o @]
\* dataQ after node n takes its input's head and puts x on its output.
Pass(n, x) == [dataQ EXCEPT ![n] = Tail(@), ![n + 1] = Append(@, x)]
\* dataQ after node n takes its input's head and puts nothing.
Take(n) == [dataQ EXCEPT ![n] = Tail(@)]

\* current_timestamp = None
NoMessage(n) == [sig |-> Data, ts |-> 0, dest |-> n]

NoEvent   == [verb |-> Kill, ts |-> 0, source |-> 0]
VoidEvent == [verb |-> Cancel, ts |-> Infinity, source |-> 0]
KillEvent == [verb |-> Kill, ts |-> 0, source |-> 0]

Init ==
    /\ lastTs = 0 /\ sends = 0 /\ entered = {} /\ controls = 0 /\ issued = 0
    /\ inbox = <<>>
    /\ hstate = "idle" /\ hevent = NoEvent /\ htarget = 1
    /\ ctrlQ = [n \in Nodes |-> <<>>]
    /\ dataQ = [q \in Queues |-> <<>>]
    /\ pc = [n \in Nodes |-> "top"]
    /\ cur = [n \in Nodes |-> NoMessage(n)]
    /\ outs = [n \in Nodes |-> 0]
    /\ watermark = [n \in Nodes |-> 0]
    /\ killed = [n \in Nodes |-> FALSE]
    /\ voided = [n \in Nodes |-> FALSE]
    /\ stage = "serving"
    /\ lastOut = 0

-------------------------------------------------------------------------------
(* The WebSocket entry: receive_data.                                      *)

\* A message with an older stamp than the last one is dropped at the door.
ClientSend(s, t, d) ==
    /\ stage = "serving" /\ sends + controls < MaxSubmitted
    /\ t >= lastTs
    /\ lastTs' = t
    /\ sends' = sends + 1
    /\ entered' = entered \cup {t}
    /\ dataQ' = Put(1, [sig |-> s, ts |-> t, dest |-> d])
    /\ UNCHANGED <<controls, issued, inbox, handlerVars, ctrlQ, nodeVars,
                   stage, lastOut>>

\* cancel and the declared verbs refer to the past: no monotonicity gate, and
\* the source is forced to 0.
ClientControl(v, t) ==
    /\ stage = "serving" /\ sends + controls < MaxSubmitted
    /\ controls' = controls + 1
    /\ inbox' = Append(inbox, [verb |-> v, ts |-> t, source |-> 0])
    /\ issued' = IF v = Cancel THEN Larger(issued, t) ELSE issued
    /\ UNCHANGED <<entryVars, handlerVars, ctrlQ, dataQ, nodeVars, stage, lastOut>>

-------------------------------------------------------------------------------
(* The event-handler thread: EventHandler._run.                            *)

\* The wire stamp of a cancel is nudged below the semantic one; infinity is
\* a float and absorbs the nudge.
Nudged(e) ==
    IF e.verb = Cancel /\ e.ts # Infinity THEN e.ts - Epsilon ELSE e.ts

HandlerTake ==
    /\ hstate = "idle" /\ inbox # <<>>
    /\ hevent' = Head(inbox)
    /\ inbox' = Tail(inbox)
    /\ hstate' = "dispatch"
    /\ htarget' = 1
    /\ UNCHANGED <<entryVars, controls, issued, ctrlQ, dataQ, nodeVars, stage,
                   lastOut>>

\* The dispatch excludes the source from a kill too, and takes 0 for node 1.
MutantHandlerPut ==
    /\ hstate = "dispatch" /\ htarget <= N
    /\ ctrlQ' = IF htarget = Larger(1, hevent.source)
                THEN ctrlQ
                ELSE [ctrlQ EXCEPT ![htarget] =
                        Append(@, [verb |-> hevent.verb, ts |-> Nudged(hevent)])]
    /\ htarget' = htarget + 1
    /\ UNCHANGED <<entryVars, controls, issued, inbox, hstate, hevent, dataQ,
                   nodeVars, stage, lastOut>>

\* The queues are written one after the other; kill excludes no node.
HandlerPut ==
    /\ hstate = "dispatch" /\ htarget <= N
    /\ ctrlQ' = IF hevent.verb # Kill /\ htarget = hevent.source
                THEN ctrlQ
                ELSE [ctrlQ EXCEPT ![htarget] =
                        Append(@, [verb |-> hevent.verb, ts |-> Nudged(hevent)])]
    /\ htarget' = htarget + 1
    /\ UNCHANGED <<entryVars, controls, issued, inbox, hstate, hevent, dataQ,
                   nodeVars, stage, lastOut>>

\* A node's cancel is also echoed to the client, behind what is already queued.
EchoToClient == hevent.verb = Cancel /\ hevent.source # 0

HandlerDone ==
    /\ hstate = "dispatch" /\ htarget = N + 1
    /\ EchoToClient => Room(N + 1)
    /\ dataQ' = IF EchoToClient
                THEN Put(N + 1, [sig |-> Cancel, ts |-> Nudged(hevent), dest |-> Exit])
                ELSE dataQ
    /\ hstate' = IF hevent.verb = Kill THEN "exited" ELSE "idle"
    /\ hevent' = NoEvent /\ htarget' = 1
    /\ UNCHANGED <<entryVars, controls, issued, inbox, ctrlQ, nodeVars, stage,
                   lastOut>>

-------------------------------------------------------------------------------
(* A node thread: BaseProcessingStep.run.                                  *)
(*   "top"   draining the control queue before the blocking get            *)
(*   "get"   in input_queue.get(timeout)                                   *)
(*   "work"  inside process()      "poll"  in a check_cancel of process()  *)
(*   "exited" after dispose()                                              *)

Working(n) == pc[n] \in {"work", "poll"}

Goto(n, p) == pc' = [pc EXCEPT ![n] = p]

\* One control message.  current_timestamp is None outside process(), so only
\* a poll can find its own turn voided.
Voids(n, m) == m.verb = Cancel /\ cur[n].ts < Larger(watermark[n], m.ts)

\* The watermark moves only when the cancel hits the turn in progress.
MutantNodeControl(n) ==
    /\ pc[n] \in {"top", "poll"} /\ ctrlQ[n] # <<>>
    /\ LET m == Head(ctrlQ[n]) IN
         /\ killed' = [killed EXCEPT ![n] = @ \/ m.verb = Kill]
         /\ watermark' = IF pc[n] = "poll" /\ Voids(n, m)
                         THEN [watermark EXCEPT ![n] = Larger(@, m.ts)]
                         ELSE watermark
         /\ voided' = [voided EXCEPT ![n] = @ \/ (pc[n] = "poll" /\ Voids(n, m))]
    /\ ctrlQ' = [ctrlQ EXCEPT ![n] = Tail(@)]
    /\ UNCHANGED <<entryVars, controls, issued, inbox, handlerVars, dataQ, pc,
                   cur, outs, stage, lastOut>>

NodeControl(n) ==
    /\ pc[n] \in {"top", "poll"} /\ ctrlQ[n] # <<>>
    /\ LET m == Head(ctrlQ[n]) IN
         /\ killed' = [killed EXCEPT ![n] = @ \/ m.verb = Kill]
         /\ watermark' = IF m.verb = Cancel
                         THEN [watermark EXCEPT ![n] = Larger(@, m.ts)]
                         ELSE watermark
         /\ voided' = [voided EXCEPT ![n] = @ \/ (pc[n] = "poll" /\ Voids(n, m))]
    /\ ctrlQ' = [ctrlQ EXCEPT ![n] = Tail(@)]
    /\ UNCHANGED <<entryVars, controls, issued, inbox, handlerVars, dataQ, pc,
                   cur, outs, stage, lastOut>>

NodeGet(n) ==
    /\ pc[n] = "top" /\ ctrlQ[n] = <<>> /\ ~killed[n]
    /\ Goto(n, "get")
    /\ UNCHANGED <<entryVars, controls, issued, inbox, handlerVars, ctrlQ, dataQ,
                   cur, outs, watermark, killed, voided, stage, lastOut>>

NodeExit(n) ==
    /\ pc[n] = "top" /\ ctrlQ[n] = <<>> /\ killed[n]
    /\ Goto(n, "exited")
    /\ UNCHANGED <<entryVars, controls, issued, inbox, handlerVars, ctrlQ, dataQ,
                   cur, outs, watermark, killed, voided, stage, lastOut>>

NodeTimeout(n) ==
    /\ pc[n] = "get" /\ dataQ[n] = <<>>
    /\ Goto(n, "top")
    /\ UNCHANGED <<entryVars, controls, issued, inbox, handlerVars, ctrlQ, dataQ,
                   cur, outs, watermark, killed, voided, stage, lastOut>>

\* A message for another node is forwarded unexamined.
Arrives(n)  == pc[n] = "get" /\ dataQ[n] # <<>>
Incoming(n) == Head(dataQ[n])
Mine(n)     == Arrives(n) /\ Incoming(n).dest = n
MutantStale(n) == Incoming(n).ts <= watermark[n]    \* not strict
Stale(n)    == Incoming(n).ts < watermark[n]
Caught(n)   == Incoming(n).sig = Data \/ Incoming(n).sig \in Catches[n]
Passed(n)   == Incoming(n).sig \in DOMAIN Passes[n]

MutantRelayed(n, m) == [sig |-> Passes[n][m.sig], ts |-> m.ts]  \* no destination
\* A passed signal takes its new name and the node's first edge.
Relayed(n, m) == [sig |-> Passes[n][m.sig], ts |-> m.ts, dest |-> Edges[n][1]]

NodeForward(n) ==
    /\ Arrives(n) /\ Incoming(n).dest # n /\ Room(n + 1)
    /\ dataQ' = Pass(n, Incoming(n))
    /\ Goto(n, "top")
    /\ UNCHANGED <<entryVars, controls, issued, inbox, handlerVars, ctrlQ, cur,
                   outs, watermark, killed, voided, stage, lastOut>>

\* Discarded: older than the watermark, or a signal the node does not declare.
NodeDrop(n) ==
    /\ Mine(n) /\ (Stale(n) \/ (~Caught(n) /\ ~Passed(n)))
    /\ dataQ' = Take(n)
    /\ Goto(n, "top")
    /\ UNCHANGED <<entryVars, controls, issued, inbox, handlerVars, ctrlQ, cur,
                   outs, watermark, killed, voided, stage, lastOut>>

NodeRelay(n) ==
    /\ Mine(n) /\ ~Stale(n) /\ ~Caught(n) /\ Passed(n) /\ Room(n + 1)
    /\ dataQ' = Pass(n, Relayed(n, Incoming(n)))
    /\ Goto(n, "top")
    /\ UNCHANGED <<entryVars, controls, issued, inbox, handlerVars, ctrlQ, cur,
                   outs, watermark, killed, voided, stage, lastOut>>

NodeBegin(n) ==
    /\ Mine(n) /\ ~Stale(n) /\ Caught(n)
    /\ cur' = [cur EXCEPT ![n] = Incoming(n)]
    /\ dataQ' = Take(n)
    /\ Goto(n, "work")
    /\ UNCHANGED <<entryVars, controls, issued, inbox, handlerVars, ctrlQ, outs,
                   watermark, killed, voided, stage, lastOut>>

\* Every output copies the identity of the message it answers.
NodeEmit(n, s, d) ==
    /\ pc[n] = "work" /\ outs[n] < MaxOut /\ Room(n + 1)
    /\ outs' = [outs EXCEPT ![n] = @ + 1]
    /\ dataQ' = Put(n + 1, [sig |-> s, ts |-> cur[n].ts, dest |-> d])
    /\ UNCHANGED <<entryVars, controls, issued, inbox, handlerVars, ctrlQ, pc,
                   cur, watermark, killed, voided, stage, lastOut>>

\* The emitter raises its own watermark to the cancel it mints: the dispatch
\* leaves it out.
NodeBargeIn(n) ==
    /\ n \in Emitters /\ pc[n] = "work" /\ sends + controls < MaxSubmitted
    /\ controls' = controls + 1
    /\ inbox' = Append(inbox, [verb |-> Cancel, ts |-> cur[n].ts, source |-> n])
    /\ issued' = Larger(issued, cur[n].ts)
    /\ watermark' = [watermark EXCEPT ![n] = Larger(@, cur[n].ts)]
    /\ UNCHANGED <<entryVars, handlerVars, ctrlQ, dataQ, pc, cur, outs, killed,
                   voided, stage, lastOut>>

NodePoll(n) ==
    /\ pc[n] = "work" /\ ctrlQ[n] # <<>>
    /\ Goto(n, "poll")
    /\ UNCHANGED <<entryVars, controls, issued, inbox, handlerVars, ctrlQ, dataQ,
                   cur, outs, watermark, killed, voided, stage, lastOut>>

\* The module's loop ignores what the poll returned for a cancel.
MutantNodeResume(n) ==
    /\ pc[n] = "poll" /\ ctrlQ[n] = <<>> /\ ~killed[n]
    /\ Goto(n, "work")
    /\ UNCHANGED <<entryVars, controls, issued, inbox, handlerVars, ctrlQ, dataQ,
                   cur, outs, watermark, killed, voided, stage, lastOut>>

NodeResume(n) ==
    /\ pc[n] = "poll" /\ ctrlQ[n] = <<>> /\ ~voided[n] /\ ~killed[n]
    /\ Goto(n, "work")
    /\ UNCHANGED <<entryVars, controls, issued, inbox, handlerVars, ctrlQ, dataQ,
                   cur, outs, watermark, killed, voided, stage, lastOut>>

\* process() returns, raises, or leaves because its poll said so; a caught
\* signal that is also passed is relayed in every case.
MustLeave(n) == pc[n] = "poll" /\ ctrlQ[n] = <<>> /\ (voided[n] \/ killed[n])

NodeFinish(n) ==
    /\ pc[n] = "work" \/ MustLeave(n)
    /\ cur[n].sig \in DOMAIN Passes[n] => Room(n + 1)
    /\ dataQ' = IF cur[n].sig \in DOMAIN Passes[n]
                THEN Put(n + 1, Relayed(n, cur[n]))
                ELSE dataQ
    /\ cur' = [cur EXCEPT ![n] = NoMessage(n)]
    /\ outs' = [outs EXCEPT ![n] = 0]
    /\ voided' = [voided EXCEPT ![n] = FALSE]
    /\ Goto(n, "top")
    /\ UNCHANGED <<entryVars, controls, issued, inbox, handlerVars, ctrlQ,
                   watermark, killed, stage, lastOut>>

-------------------------------------------------------------------------------
(* The exit (send_data) and teardown (dispose).                            *)

Deliver ==
    /\ stage = "serving" /\ dataQ[N + 1] # <<>>
    /\ dataQ' = Take(N + 1)
    /\ lastOut' = IF Head(dataQ[N + 1]).sig = Cancel
                  THEN lastOut
                  ELSE Head(dataQ[N + 1]).ts
    /\ UNCHANGED <<entryVars, controls, issued, inbox, handlerVars, ctrlQ,
                   nodeVars, stage>>

\* close(): the receive and send tasks end, and the latter empties the queue.
Close ==
    /\ stage = "serving"
    /\ stage' = "closed"
    /\ dataQ' = [dataQ EXCEPT ![N + 1] = <<>>]
    /\ UNCHANGED <<entryVars, controls, issued, inbox, handlerVars, ctrlQ,
                   nodeVars, lastOut>>

\* Teardown voids up to the client's last stamp and not everything.
MutantSubmitVoid ==
    /\ stage = "closed"
    /\ stage' = "voiding"
    /\ inbox' = Append(inbox, [VoidEvent EXCEPT !.ts = lastTs])
    /\ issued' = Larger(issued, lastTs)
    /\ UNCHANGED <<entryVars, controls, handlerVars, ctrlQ, dataQ, nodeVars,
                   lastOut>>

SubmitVoid ==
    /\ stage = "closed"
    /\ stage' = "voiding"
    /\ inbox' = Append(inbox, VoidEvent)
    /\ issued' = Larger(issued, Infinity)
    /\ UNCHANGED <<entryVars, controls, handlerVars, ctrlQ, dataQ, nodeVars,
                   lastOut>>

SubmitKill ==
    /\ stage = "voiding"
    /\ stage' = "killing"
    /\ inbox' = Append(inbox, KillEvent)
    /\ UNCHANGED <<entryVars, controls, issued, handlerVars, ctrlQ, dataQ,
                   nodeVars, lastOut>>

\* wait_for_threads: every node thread has returned from run().
Disposed ==
    /\ stage = "killing" /\ \A n \in Nodes : pc[n] = "exited"
    /\ stage' = "disposed"
    /\ UNCHANGED <<entryVars, controls, issued, inbox, handlerVars, ctrlQ, dataQ,
                   nodeVars, lastOut>>

-------------------------------------------------------------------------------
Client ==
    \/ \E s \in Signals \cup {Data}, t \in Stamps, d \in Addressees : ClientSend(s, t, d)
    \/ \E v \in Events \cup {Cancel}, t \in Stamps : ClientControl(v, t)

Handler == HandlerTake \/ HandlerPut \/ HandlerDone

\* The moves of node n's own thread.
Node(n) ==
    \/ NodeControl(n) \/ NodeGet(n) \/ NodeExit(n) \/ NodeTimeout(n)
    \/ NodeForward(n) \/ NodeDrop(n) \/ NodeRelay(n) \/ NodeBegin(n)
    \/ \E s \in Emits[n], i \in DOMAIN Edges[n] : NodeEmit(n, s, Edges[n][i])
    \/ NodeBargeIn(n) \/ NodePoll(n) \/ NodeResume(n) \/ NodeFinish(n)

Teardown == SubmitVoid \/ SubmitKill \/ Disposed

Next == Client \/ Handler \/ (\E n \in Nodes : Node(n)) \/ Deliver \/ Close \/ Teardown

Spec == Init /\ [][Next]_vars

\* Each thread is scheduled, and dispose() runs on once it has begun.
Fairness == WF_vars(Handler) /\ WF_vars(Teardown) /\ \A n \in Nodes : WF_vars(Node(n))

FairSpec == Spec /\ Fairness

-------------------------------------------------------------------------------
TypeOK ==
    /\ lastTs \in Nat /\ sends \in Nat /\ entered \in SUBSET Nat
    /\ controls \in Nat /\ issued \in Int
    /\ inbox \in Seq(Event)
    /\ hstate \in {"idle", "dispatch", "exited"}
    /\ hevent \in Event /\ htarget \in 1..(N + 1)
    /\ ctrlQ \in [Nodes -> Seq(Control)]
    /\ dataQ \in [Queues -> Seq(Message)]
    /\ pc \in [Nodes -> {"top", "get", "work", "poll", "exited"}]
    /\ cur \in [Nodes -> Message]
    /\ outs \in [Nodes -> Nat]
    /\ watermark \in [Nodes -> Int]
    /\ killed \in [Nodes -> BOOLEAN]
    /\ voided \in [Nodes -> BOOLEAN]
    /\ stage \in {"serving", "closed", "voiding", "killing", "disposed"}
    /\ lastOut \in Int

\* The chain keeps the turn stream's promise: a turn's content never reaches the
\* client behind a later turn's, under a stamp that the client itself sent,
\* whatever mix of processing, forwarding, relaying and dropping it met.
Turns == INSTANCE TurnStream WITH accepted <- entered
KeepsTurnOrder == Turns!Spec

\* Inside process(), once a poll has returned, a node works only on a message
\* that no cancel it has read voids: nothing it emits there is stale.
WorkIsFresh == \A n \in Nodes : pc[n] = "work" => cur[n].ts >= watermark[n]

\* Node n takes a message it declares and does nothing with it.
Loses(n) ==
    Mine(n) /\ (Caught(n) \/ Passed(n)) /\ dataQ' = Take(n) /\ pc'[n] = "top"

\* The gate drops only what some cancel voids: a message addressed to the node,
\* declared by it, and not older than every submitted cancel is never lost, so
\* a barge-in spares the very turn it opens.
OnlyVoidedIsDropped ==
    [][\A n \in Nodes : Loses(n) => Incoming(n).ts < issued]_vars

\* The thread that exits has read cancel(infinity) first, so whatever turn was
\* open was concluded by custom_cancel before dispose() ran.
VoidedBeforeKilled == \A n \in Nodes : killed[n] => watermark[n] >= Infinity

\* Every cancel submitted to the handler takes effect at every node but its
\* source, which has taken it already: the watermarks come to stay at or above
\* the highest of them, whatever dispatch, polls and waits come in between.
CancelTakesEffect == <>[](\A n \in Nodes : watermark[n] >= issued - Epsilon)

\* dispose() returns: every node thread exits whatever it was doing.
TeardownCompletes == []<>(stage # "killing")
===============================================================================
