------------------------------ MODULE JointStream ------------------------------
(***************************************************************************)
(* JointStreamStep: one node that runs several callers at once and packs   *)
(* their chunks.  Per input each stream with arguments gets a pump thread, *)
(* which advances the caller's generator and fills a queue of the input's  *)
(* own; the node takes one chunk of each running stream per pack.          *)
(*                                                                         *)
(* A pump is never joined: it ends at its generator's next boundary after  *)
(* the input's stop event is set, so pumps of several inputs may run at    *)
(* once, on the same caller object.  A continuous caller keeps the tail of *)
(* its last motion there and sends it with the next request.               *)
(*                                                                         *)
(* A chunk is its number; the queue of a stream is what its pump has put   *)
(* and the node not yet taken, and the pump's end is its _DONE.            *)
(***************************************************************************)
EXTENDS Integers, SequencesExt, FiniteSetsExt

CONSTANTS
    NumStreams,   \* number of configured streams
    Extend,       \* streams with extend: true
    Continuous,   \* streams whose caller keeps a history
    Anchor,       \* the stream the anchor names
    Modes,        \* the modes a configuration may choose
    Arguments,    \* Arguments[i]: the sets of streams sentence i may have arguments for
    Cancels,      \* stamps of cancels, as they leave the event handler
    TeardownStamp, \* the stamp of its cancel
    MaxTurns,     \* bound: turns; turn k has stamp 2k
    MaxInputs,    \* bound: sentences
    MaxChunks,    \* bound: MaxChunks[i][s] chunks of stream s for sentence i
    MaxControls,  \* bound: control messages; teardown uses up what is left
    Kill, None

Streams == 1..NumStreams
Inputs  == 1..MaxInputs
Turns   == 1..MaxTurns

ASSUME JointAssumption ==
    /\ NumStreams \in Nat \ {0} /\ Anchor \in Streams
    /\ Extend \subseteq Streams /\ Continuous \subseteq Streams
    /\ Arguments \in [Inputs -> SUBSET SUBSET Streams]
    /\ Modes \subseteq {"longest", "shortest", "anchor"}
    /\ Cancels \subseteq Nat /\ TeardownStamp \in Nat
    /\ MaxTurns \in Nat /\ MaxInputs \in Nat /\ MaxControls \in Nat
    /\ MaxChunks \in [Inputs -> [Streams -> Nat]]
    /\ None \notin Nat /\ Kill \notin Nat

Message == [kind : {"SoS"}, turn : Turns, input : {0}]
           \cup [kind : {"text"}, turn : Turns, input : Inputs]
Output  == [kind : {"SoS", "pack", "EoS"}, input : Inputs, pack : [Streams -> Nat]]

VARIABLES
    turn,       \* turns upstream has begun
    texts,      \* the sentences it has sent: records [turn, active]
    inbox,      \* the node's input queue
    cancel_queue,
    controls,   \* control messages sent
    at,         \* "top", "take" (in the round), "close" (after it) or "exited"
    waiting,    \* the drain is over and the node waits in get
    cancel_timestamp,
    exiting,    \* _killed
    mode,       \* the node's mode
    held,       \* the sentence in process(): its stop event is the active one
    next,       \* the stream of the round whose queue is next
    taken,      \* last_chunk of each stream
    took,       \* the streams that have given a chunk in this round
    done,       \* the streams that have given _DONE
    stopped,    \* the sentences whose stop event is set
    pump,       \* pump[i][s]: the pump of stream s for sentence i
    made,       \* made[i][s]: the chunks it has put
    history,    \* history[s]: the turn of the motion the caller keeps
    out         \* what the node has put on its output queue

upstreamVars == <<turn, texts>>
planeVars    == <<cancel_queue, controls>>
loopVars     == <<waiting, cancel_timestamp, exiting>>
roundVars    == <<next, taken, took, done>>
pumpVars     == <<pump, made>>
jointVars == <<upstreamVars, inbox, planeVars, at, loopVars, mode, held, roundVars,
               stopped, pumpVars, history, out>>

Each(x) == [s \in Streams |-> x]
Grid(x) == [i \in Inputs |-> Each(x)]

JointInit ==
    /\ turn = 0 /\ texts = <<>> /\ inbox = <<>>
    /\ cancel_queue = <<>> /\ controls = 0
    /\ at = "top" /\ waiting = TRUE /\ cancel_timestamp = 0 /\ exiting = FALSE
    /\ mode \in Modes
    /\ held = None /\ next = 1 /\ taken = Each(0) /\ took = {} /\ done = {}
    /\ stopped = {}
    /\ pump = Grid("none") /\ made = Grid(0)
    /\ history = Each(None)
    /\ out = <<>>

StampOf(i) == 2 * texts[i].turn

-------------------------------------------------------------------------------
(* Upstream and the control plane.                                          *)

nodeVars == <<at, loopVars, mode, held, roundVars, stopped, pumpVars, history, out>>

SendSoS ==
    /\ turn < MaxTurns
    /\ turn' = turn + 1
    /\ inbox' = Append(inbox, [kind |-> "SoS", turn |-> turn + 1, input |-> 0])
    /\ UNCHANGED <<texts, planeVars, nodeVars>>

SendText(active) ==
    /\ turn > 0 /\ Len(texts) < MaxInputs /\ active \in Arguments[Len(texts) + 1]
    /\ texts' = Append(texts, [turn |-> turn, active |-> active])
    /\ inbox' = Append(inbox, [kind |-> "text", turn |-> turn, input |-> Len(texts) + 1])
    /\ UNCHANGED <<turn, planeVars, nodeVars>>

Interrupt(c) ==
    /\ controls < MaxControls
    /\ controls' = controls + 1 /\ cancel_queue' = Append(cancel_queue, c)
    /\ UNCHANGED <<upstreamVars, inbox, nodeVars>>

\* cancel(inf), then kill.
Dispose ==
    /\ controls < MaxControls
    /\ controls' = MaxControls /\ cancel_queue' = cancel_queue \o <<TeardownStamp, Kill>>
    /\ UNCHANGED <<upstreamVars, inbox, nodeVars>>

-------------------------------------------------------------------------------
(* The pump of stream s for sentence i: a thread around the generator.      *)

\* The first next() sends the request, with what the caller keeps.
PumpStart(i, s) ==
    /\ pump[i][s] = "new" /\ i \notin stopped
    /\ pump' = [pump EXCEPT ![i][s] = "next"]
    /\ UNCHANGED <<upstreamVars, inbox, planeVars, at, loopVars, mode, held,
                   roundVars, stopped, made, history, out>>

\* A chunk for a sentence that was stopped meanwhile is not put; the generator
\* is closed where it stands.
PumpYield(i, s) ==
    /\ pump[i][s] = "next" /\ made[i][s] < MaxChunks[i][s]
    /\ IF i \in stopped
       THEN pump' = [pump EXCEPT ![i][s] = "ended"] /\ UNCHANGED made
       ELSE made' = [made EXCEPT ![i][s] = @ + 1] /\ UNCHANGED pump
    /\ UNCHANGED <<upstreamVars, inbox, planeVars, at, loopVars, mode, held,
                   roundVars, stopped, history, out>>

\* A failed request lets the exception end the thread before its _DONE.
MutantPumpEnd(i, s, clean) ==
    /\ pump[i][s] = "next"
    /\ pump' = [pump EXCEPT ![i][s] = IF clean THEN "ended" ELSE "none"]
    /\ history' = [history EXCEPT ![s] =
         IF clean /\ s \in Continuous /\ made[i][s] > 0 THEN texts[i].turn ELSE @]
    /\ UNCHANGED <<upstreamVars, inbox, planeVars, at, loopVars, mode, held,
                   roundVars, stopped, made, out>>

\* The generator ends; one that has run to its end keeps the tail of its motion.
PumpEnd(i, s, clean) ==
    /\ pump[i][s] = "next"
    /\ pump' = [pump EXCEPT ![i][s] = "ended"]
    /\ history' = [history EXCEPT ![s] =
         IF clean /\ s \in Continuous /\ made[i][s] > 0 THEN texts[i].turn ELSE @]
    /\ UNCHANGED <<upstreamVars, inbox, planeVars, at, loopVars, mode, held,
                   roundVars, stopped, made, out>>

PumpNotStarted(i, s) ==
    /\ pump[i][s] = "new" /\ i \in stopped
    /\ pump' = [pump EXCEPT ![i][s] = "ended"]
    /\ UNCHANGED <<upstreamVars, inbox, planeVars, at, loopVars, mode, held,
                   roundVars, stopped, made, history, out>>

-------------------------------------------------------------------------------
(* The node's loop and its control queue.                                   *)

\* Leaves the stop to custom_cancel alone.
MutantLeave ==
    /\ at' = "top" /\ waiting' = FALSE
    /\ held' = None /\ UNCHANGED stopped
    /\ next' = 1 /\ taken' = Each(0) /\ took' = {} /\ done' = {}

\* process() is left; the stop event is set on every way out.
Leave ==
    /\ at' = "top" /\ waiting' = FALSE
    /\ held' = None /\ stopped' = stopped \cup {held}
    /\ next' = 1 /\ taken' = Each(0) /\ took' = {} /\ done' = {}

Polls == (at = "top" /\ (waiting => inbox = <<>>)) \/ at \in {"take", "close"}

Voids(c) == held # None /\ (StampOf(held) < c \/ StampOf(held) < cancel_timestamp)

\* A cancel that voids the sentence in process() stops its pumps, resets every
\* caller, and the poll's answer ends process().
ReadCancel ==
    /\ Polls /\ cancel_queue # <<>> /\ Head(cancel_queue) # Kill
    /\ cancel_queue' = Tail(cancel_queue)
    /\ cancel_timestamp' = Max({cancel_timestamp, Head(cancel_queue)})
    /\ IF Voids(Head(cancel_queue))
       THEN Leave /\ history' = Each(None)
       ELSE /\ waiting' = (at = "top" /\ cancel_queue' = <<>> /\ ~exiting)
            /\ UNCHANGED <<at, held, stopped, roundVars, history>>
    /\ UNCHANGED <<upstreamVars, inbox, controls, exiting, mode, pumpVars, out>>

ReadKill ==
    /\ Polls /\ cancel_queue # <<>> /\ Head(cancel_queue) = Kill
    /\ cancel_queue' = Tail(cancel_queue) /\ exiting' = TRUE
    /\ IF held # None
       THEN Leave
       ELSE waiting' = FALSE /\ UNCHANGED <<at, held, stopped, roundVars>>
    /\ UNCHANGED <<upstreamVars, inbox, controls, cancel_timestamp, mode, pumpVars,
                   history, out>>

\* A drain that finds nothing goes on to get, or ends the loop.
Wait ==
    /\ at = "top" /\ ~waiting /\ cancel_queue = <<>>
    /\ IF exiting THEN at' = "exited" /\ UNCHANGED waiting
                  ELSE waiting' = TRUE /\ UNCHANGED at
    /\ UNCHANGED <<upstreamVars, inbox, planeVars, cancel_timestamp, exiting, mode, held,
                   roundVars, stopped, pumpVars, history, out>>

Gets == at = "top" /\ waiting /\ inbox # <<>> /\ inbox' = Tail(inbox)
Got  == Head(inbox)
Late == 2 * Got.turn < cancel_timestamp

Discard ==
    /\ Gets /\ Late
    /\ waiting' = FALSE
    /\ UNCHANGED <<upstreamVars, planeVars, at, cancel_timestamp, exiting, mode, held,
                   roundVars, stopped, pumpVars, history, out>>

\* The turn's SoS resets the callers' histories (and is relayed behind it).
CatchSoS ==
    /\ Gets /\ ~Late /\ Got.kind = "SoS"
    /\ history' = Each(None)
    /\ waiting' = FALSE
    /\ UNCHANGED <<upstreamVars, planeVars, at, cancel_timestamp, exiting, mode, held,
                   roundVars, stopped, pumpVars, out>>

-------------------------------------------------------------------------------
(* process() on a sentence.                                                 *)

Started == texts[held].active

Put(kind, i, pack) == out' = Append(out, [kind |-> kind, input |-> i, pack |-> pack])

\* A sentence without any arguments starts no pump and goes straight to its EoS.
Begin ==
    /\ Gets /\ ~Late /\ Got.kind = "text"
    /\ LET active == texts[Got.input].active IN
         /\ held' = Got.input
         /\ pump' = [pump EXCEPT ![Got.input] =
                       [s \in Streams |-> IF s \in active THEN "new" ELSE "none"]]
         /\ IF active = {} THEN at' = "close" /\ UNCHANGED next
                           ELSE at' = "take" /\ next' = Min(active)
         /\ Put("SoS", Got.input, Each(0))
    /\ UNCHANGED <<upstreamVars, planeVars, loopVars, mode, taken, took, done,
                   stopped, made, history>>

\* The streams whose boundary ends the sentence.
Boundary ==
    CASE mode = "shortest" -> Streams
      [] mode = "anchor"   -> {Anchor} \cap Started
      [] OTHER             -> {}

PackOf(ready, chunk, over) ==
    [s \in Streams |-> IF s \in ready \cup (over \cap Extend) THEN chunk[s] ELSE 0]

\* Looks only at the pack.
MutantProduced(ready, pack) == pack # Each(0)

\* Repeated tails alone make no pack.
Produced(ready, pack) == ready # {}

\* On to the next running stream, or to the end of the round.
Advance(chunk, ready, over) ==
    LET running == Started \ over
        rest    == {s \in running : s > next}
    IN  /\ taken' = chunk /\ done' = over
        /\ IF rest # {}
           THEN took' = ready /\ next' = Min(rest) /\ UNCHANGED <<at, out>>
           ELSE /\ took' = {}
                /\ LET pack == PackOf(ready, chunk, over) IN
                     IF Produced(ready, pack) THEN Put("pack", held, pack)
                                              ELSE UNCHANGED out
                /\ IF running # {} THEN next' = Min(running) /\ UNCHANGED at
                                   ELSE at' = "close" /\ UNCHANGED next

roundFrame == <<upstreamVars, inbox, planeVars, loopVars, mode, held, pumpVars, history>>

TakeChunk ==
    /\ at = "take" /\ cancel_queue = <<>> /\ taken[next] < made[held][next]
    /\ Advance([taken EXCEPT ![next] = @ + 1], took \cup {next}, done)
    /\ UNCHANGED <<roundFrame, stopped>>

AtDone == pump[held][next] = "ended" /\ taken[next] = made[held][next]

TakeDone ==
    /\ at = "take" /\ cancel_queue = <<>> /\ AtDone /\ next \notin Boundary
    /\ Advance(taken, took, done \cup {next})
    /\ UNCHANGED <<roundFrame, stopped>>

\* The mode's boundary: what the round has taken is dropped.
TakeLast ==
    /\ at = "take" /\ cancel_queue = <<>> /\ AtDone /\ next \in Boundary
    /\ at' = "close" /\ stopped' = stopped \cup {held}
    /\ took' = {} /\ done' = done \cup {next}
    /\ UNCHANGED <<roundFrame, next, taken, out>>

\* A chunk that cannot be packed: the loop's error boundary.
PackFails ==
    /\ at = "take" /\ cancel_queue = <<>> /\ taken[next] < made[held][next]
    /\ Leave
    /\ UNCHANGED <<upstreamVars, inbox, planeVars, cancel_timestamp, exiting, mode,
                   pumpVars, history, out>>

Close ==
    /\ at = "close" /\ cancel_queue = <<>>
    /\ Put("EoS", held, Each(0))
    /\ Leave
    /\ UNCHANGED <<upstreamVars, inbox, planeVars, cancel_timestamp, exiting, mode,
                   pumpVars, history>>

-------------------------------------------------------------------------------
Surroundings ==
    \/ SendSoS \/ Dispose
    \/ \E active \in SUBSET Streams : SendText(active)
    \/ \E c \in Cancels : Interrupt(c)

Node ==
    \/ ReadCancel \/ ReadKill \/ Wait \/ Discard \/ CatchSoS \/ Begin
    \/ TakeChunk \/ TakeDone \/ TakeLast \/ PackFails \/ Close

Pump(i, s) ==
    \/ PumpStart(i, s) \/ PumpYield(i, s) \/ PumpNotStarted(i, s)
    \/ \E clean \in BOOLEAN : PumpEnd(i, s, clean)

JointNext == Surroundings \/ Node \/ \E i \in Inputs, s \in Streams : Pump(i, s)

JointSpec == JointInit /\ [][JointNext]_jointVars

\* The threads run; a generator's next() returns, by its read timeout at last.
FairJointSpec ==
    /\ JointSpec /\ WF_jointVars(Node)
    /\ \A i \in Inputs, s \in Streams : WF_jointVars(Pump(i, s))

-------------------------------------------------------------------------------
JointTypes ==
    /\ turn \in 0..MaxTurns /\ texts \in Seq([turn : Turns, active : SUBSET Streams])
    /\ inbox \in Seq(Message)
    /\ cancel_queue \in Seq(Cancels \cup {TeardownStamp, Kill}) /\ controls \in Nat
    /\ at \in {"top", "take", "close", "exited"}
    /\ waiting \in BOOLEAN /\ exiting \in BOOLEAN /\ cancel_timestamp \in Nat /\ mode \in Modes
    /\ held \in Inputs \cup {None} /\ next \in Streams
    /\ taken \in [Streams -> Nat] /\ took \subseteq Streams /\ done \subseteq Streams
    /\ stopped \subseteq Inputs
    /\ pump \in [Inputs -> [Streams -> {"none", "new", "next", "ended"}]]
    /\ made \in [Inputs -> [Streams -> Nat]]
    /\ history \in [Streams -> Turns \cup {None}]
    /\ out \in Seq(Output)

\* The packs keep the promise of ChunkZip: no chunk is lost, repeated or shifted
\* against the other streams', and the envelope ends at the mode's boundary.
Packing == INSTANCE ChunkZip WITH
    active <- [i \in DOMAIN texts |-> texts[i].active],
    ended  <- {p \in Inputs \X Streams : pump[p[1]][p[2]] = "ended"},
    void   <- {i \in DOMAIN texts : StampOf(i) < cancel_timestamp}

KeepsZip == Packing!Spec

\* A pump runs for the sentence in process() or has been told to stop: none goes
\* on generating for a sentence that was cancelled, has failed or has ended.
Running(i, s) == pump[i][s] \in {"new", "next"}

NoPumpIsForgotten ==
    \A i \in Inputs, s \in Streams : Running(i, s) => i = held \/ i \in stopped

\* The invariant of the node: types, and no pump that nobody waits for or stops.
PumpInv == JointTypes /\ NoPumpIsForgotten

\* The node always comes back to its queues and the pumps end: no stream's end,
\* failure or stop leaves the node waiting for it.
AllReturn ==
    []<>(at \in {"top", "exited"} /\ \A i \in Inputs, s \in Streams : ~Running(i, s))
===============================================================================
