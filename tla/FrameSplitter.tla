---------------------------- MODULE FrameSplitter -----------------------------
(* The exit node of a WebRTC pipeline (FrameSplitterStep): it overrides the  *)
(* node loop of Pipeline with a clock that sends one group of frames per     *)
(* period, taken from the message it is playing or, with nothing to play, a  *)
(* default group.  Signals ride between the groups.                          *)
EXTENDS Naturals, Sequences, SequencesExt

CONSTANTS
    Shapes,     \* what a message may be, see Shape
    Stamps,     \* stamps of messages and cancels
    Infinity,   \* the stamp of the cancel that precedes kill
    MaxSent,    \* bound: messages sent to the node
    MaxCancels  \* bound: cancels before teardown

\* "broken" content cannot be split.
Kinds == {"content", "broken", "signal", "undeclared", "foreign"}

\* Content splits into `size' groups, of which the first `good' can be
\* rendered; `meta' says that it has pass_vars data.
Shape == [kind : Kinds, size : Nat, good : Nat, meta : BOOLEAN]

ASSUME ShapeAssumption == Shapes \subseteq Shape /\ \A h \in Shapes : h.good <= h.size
ASSUME StampAssumption == Infinity \in Nat /\ Stamps \subseteq 0..(Infinity - 1)
ASSUME BoundAssumption == MaxSent \in Nat /\ MaxCancels \in Nat

VARIABLES
    sent,       \* messages sent so far; the last one's number
    lastTs,     \* its stamp
    inputQ,     \* input_queue
    cancels,    \* cancels submitted, MaxCancels + 1 once teardown has begun
    control,    \* the control queue
    running,    \* _clock_running
    killed,     \* _killed
    pc,         \* where the thread is
    buffer,     \* _group_buffer
    current,    \* current_timestamp, NoStamp for None
    watermark,  \* cancel_timestamp
    last        \* the last entry put on output_queue

controlVars == <<running, killed, watermark>>
vars == <<sent, lastTs, inputQ, cancels, control, controlVars, pc, buffer, current, last>>

NoStamp == Infinity + 1

\* Part `part' of message `id', which has `of' parts that can be sent; a signal
\* is part 0.
Entry(what, id, ts, part, of) ==
    [what |-> what, id |-> id, ts |-> ts, part |-> part, of |-> of]

Default == Entry("default", 0, NoStamp, 1, 1)

IsMedia(e) == e.what \in {"group", "default"}

Has(verb) == \E i \in DOMAIN control : control[i].verb = verb
Control(verb, ts) == [verb |-> verb, ts |-> ts]

Init ==
    /\ sent = 0 /\ lastTs = 0 /\ inputQ = <<>>
    /\ cancels = 0 /\ control = <<>>
    /\ running = FALSE /\ killed = FALSE /\ watermark = 0
    /\ pc = "top" /\ buffer = <<>> /\ current = NoStamp
    /\ last = Default

-------------------------------------------------------------------------------
(* What the neighbours send: stamps never decrease along the input queue     *)
(* (Pipeline!KeepsTurnOrder).                                                *)

Send(shape, t) ==
    /\ sent < MaxSent /\ t >= lastTs /\ cancels <= MaxCancels
    /\ sent' = sent + 1 /\ lastTs' = t
    /\ inputQ' = Append(inputQ, [id |-> sent', ts |-> t, shape |-> shape])
    /\ UNCHANGED <<cancels, control, controlVars, pc, buffer, current, last>>

Cancel(t) ==
    /\ cancels < MaxCancels
    /\ cancels' = cancels + 1
    /\ control' = Append(control, Control("cancel", t))
    /\ UNCHANGED <<sent, lastTs, inputQ, controlVars, pc, buffer, current, last>>

\* The gateway's connection_start; a second one makes no difference.
Start ==
    /\ ~running /\ ~Has("start") /\ cancels <= MaxCancels
    /\ control' = Append(control, Control("start", 0))
    /\ UNCHANGED <<sent, lastTs, inputQ, cancels, controlVars, pc, buffer, current,
                   last>>

Teardown ==
    /\ cancels <= MaxCancels
    /\ cancels' = MaxCancels + 1
    /\ control' = control \o <<Control("cancel", Infinity), Control("kill", 0)>>
    /\ UNCHANGED <<sent, lastTs, inputQ, controlVars, pc, buffer, current, last>>

-------------------------------------------------------------------------------
(* check_cancel, to the end of the control queue.                            *)

Read == {control[i].ts : i \in {j \in DOMAIN control : control[j].verb = "cancel"}}

Raised == Max(Read \cup {watermark})

\* What is being played goes on when the cancel is read.
MutantVoided == FALSE

\* A cancel voids what is being played.
Voided == Read # {} /\ current < Raised

CheckControl ==
    /\ control' = <<>>
    /\ watermark' = Raised
    /\ killed' = (killed \/ Has("kill"))
    /\ running' = (running \/ Has("start"))

Stale(m) == m.ts < watermark'

Emit(e) == last' = e

\* A message that only passes through.
Relay(m) == Emit(Entry(m.shape.kind, m.id, m.ts, 0, 0))

-------------------------------------------------------------------------------
(* run and _wait_for_start: the clock has not started.                       *)

Top ==
    /\ pc = "top"
    /\ CheckControl
    /\ pc' = IF killed' THEN "exited" ELSE IF running' THEN "tick" ELSE "get"
    /\ UNCHANGED <<sent, lastTs, inputQ, cancels, buffer, current, last>>

PausedEmpty ==
    /\ pc = "get" /\ inputQ = <<>>
    /\ CheckControl
    /\ pc' = "top"
    /\ UNCHANGED <<sent, lastTs, inputQ, cancels, buffer, current, last>>

\* Content is discarded; what passes through still does.
PausedTake ==
    /\ pc = "get" /\ inputQ # <<>>
    /\ CheckControl
    /\ inputQ' = Tail(inputQ)
    /\ LET m == Head(inputQ) IN
         IF \/ m.shape.kind = "foreign"
            \/ m.shape.kind = "signal" /\ ~Stale(m)
         THEN Relay(m) ELSE UNCHANGED last
    /\ pc' = "top"
    /\ UNCHANGED <<sent, lastTs, cancels, buffer, current>>

-------------------------------------------------------------------------------
(* _run_clock, _fill_buffer and _split_to_buffer: one tick.                  *)

Tick ==
    /\ pc = "tick"
    /\ CheckControl
    /\ buffer' = IF Voided THEN <<>> ELSE buffer
    /\ pc' = IF killed' THEN "exited" ELSE "fill"
    /\ UNCHANGED <<sent, lastTs, inputQ, cancels, current, last>>

\* A group and the signal of the message's pass_vars before it.
Split(m) ==
    LET h == m.shape IN
    (IF h.meta THEN <<Entry("signal", m.id, m.ts, 0, h.good)>> ELSE <<>>)
      \o [g \in 1..h.size |-> Entry("group", m.id, m.ts, g, h.good)]

\* The entries of a message that is for this node and not stale.
Filled(m) ==
    IF m.ts < watermark THEN <<>> ELSE
    CASE m.shape.kind = "signal"  -> <<Entry("signal", m.id, m.ts, 0, 0)>>
      [] m.shape.kind = "content" -> Split(m)
      [] OTHER                    -> <<>>

FillDefault ==
    /\ pc = "fill" /\ buffer = <<>> /\ inputQ = <<>>
    /\ buffer' = <<Default>> /\ current' = NoStamp
    /\ UNCHANGED <<sent, lastTs, inputQ, cancels, control, controlVars, pc, last>>

\* The stamp of the message is not noted.
MutantFill ==
    /\ pc = "fill" /\ buffer = <<>> /\ inputQ # <<>>
    /\ inputQ' = Tail(inputQ)
    /\ LET m == Head(inputQ) IN
         /\ m.shape.kind = "broken" => m.ts < watermark
         /\ buffer' = Filled(m)
         /\ IF m.shape.kind = "foreign" THEN Relay(m) ELSE UNCHANGED last
    /\ UNCHANGED <<sent, lastTs, cancels, control, controlVars, pc, current>>

Fill ==
    /\ pc = "fill" /\ buffer = <<>> /\ inputQ # <<>>
    /\ inputQ' = Tail(inputQ)
    /\ LET m == Head(inputQ) IN
         /\ m.shape.kind = "broken" => m.ts < watermark
         /\ buffer' = Filled(m)
         /\ current' = IF buffer' = <<>> THEN NoStamp ELSE m.ts
         /\ IF m.shape.kind = "foreign" THEN Relay(m) ELSE UNCHANGED last
    /\ UNCHANGED <<sent, lastTs, cancels, control, controlVars, pc>>

\* A step of the tick fails: the rest of the message goes, a default group is
\* sent in its place.
TickFails ==
    /\ buffer' = <<>> /\ current' = NoStamp
    /\ Emit(Default)
    /\ pc' = "sleep"

FillFails ==
    /\ pc = "fill" /\ buffer = <<>> /\ inputQ # <<>>
    /\ Head(inputQ).shape.kind = "broken" /\ Head(inputQ).ts >= watermark
    /\ inputQ' = Tail(inputQ)
    /\ TickFails
    /\ UNCHANGED <<sent, lastTs, cancels, control, controlVars>>

PopSignal ==
    /\ pc = "fill" /\ buffer # <<>> /\ ~IsMedia(Head(buffer))
    /\ Emit(Head(buffer))
    /\ buffer' = Tail(buffer)
    /\ UNCHANGED <<sent, lastTs, inputQ, cancels, control, controlVars, pc, current>>

Rendered(e) == e.part <= e.of

PopGroup ==
    /\ pc = "fill" /\ buffer # <<>> /\ IsMedia(Head(buffer)) /\ Rendered(Head(buffer))
    /\ Emit(Head(buffer))
    /\ buffer' = Tail(buffer)
    /\ pc' = "sleep"
    /\ UNCHANGED <<sent, lastTs, inputQ, cancels, control, controlVars, current>>

\* The frame's default group is sent, and the rest of the message stays.
MutantPopFails ==
    /\ pc = "fill" /\ buffer # <<>> /\ IsMedia(Head(buffer)) /\ ~Rendered(Head(buffer))
    /\ Emit(Default)
    /\ pc' = "sleep"
    /\ UNCHANGED <<sent, lastTs, inputQ, cancels, control, controlVars, buffer, current>>

PopFails ==
    /\ pc = "fill" /\ buffer # <<>> /\ IsMedia(Head(buffer)) /\ ~Rendered(Head(buffer))
    /\ TickFails
    /\ UNCHANGED <<sent, lastTs, inputQ, cancels, control, controlVars>>

\* The next period begins.
Sleep ==
    /\ pc = "sleep"
    /\ pc' = "tick"
    /\ UNCHANGED <<sent, lastTs, inputQ, cancels, control, controlVars, buffer, current,
                   last>>

-------------------------------------------------------------------------------
Environment ==
    \/ \E h \in Shapes, t \in Stamps : Send(h, t)
    \/ \E t \in Stamps : Cancel(t)
    \/ Start \/ Teardown

Clock ==
    \/ Tick \/ FillDefault \/ Fill \/ FillFails \/ PopSignal \/ PopGroup \/ PopFails
    \/ Sleep

Splitter == Top \/ PausedEmpty \/ PausedTake \/ Clock

Next == Environment \/ Splitter

\* The node's thread keeps running; its neighbours owe it nothing.
Spec == Init /\ [][Next]_vars /\ WF_vars(Splitter)

-------------------------------------------------------------------------------
Entries == {Default} \cup
    [what : {"group", "signal", "foreign"}, id : 1..MaxSent, ts : Stamps, part : Nat,
     of : Nat]

\* Types; and the buffer holds what is left of one message, the one whose stamp
\* a cancel is compared with.
TypeOK ==
    /\ sent \in 0..MaxSent /\ lastTs \in Nat
    /\ inputQ \in Seq([id : 1..MaxSent, ts : Stamps, shape : Shapes])
    /\ cancels \in 0..(MaxCancels + 1)
    /\ control \in Seq([verb : {"cancel", "start", "kill"}, ts : Stamps \cup {0, Infinity}])
    /\ running \in BOOLEAN /\ killed \in BOOLEAN
    /\ watermark \in Stamps \cup {0, Infinity}
    /\ pc \in {"top", "get", "tick", "fill", "sleep", "exited"}
    /\ buffer \in Seq(Entries) /\ current \in Stamps \cup {NoStamp} /\ last \in Entries
    /\ \A e \in ToSet(buffer) : e = Default \/ (e.ts = current /\ e.id = Last(buffer).id)

\* e may follow l in the output.
Follows(l, e) ==
    /\ (e.what = "group" /\ e.part > 1) => e.id = l.id /\ e.part = l.part + 1
    /\ (l.part < l.of /\ e.id # l.id) => l.ts < watermark
    /\ e.what \in {"group", "signal"} => e.ts >= watermark
    /\ (e # Default /\ l # Default) => e.ts >= l.ts

\* Whatever is read, cancelled or fails at whichever tick, the output is a
\* sequence of whole messages in stamp order: a message once begun is finished
\* group after group unless a cancel voids it or a step fails, and nothing
\* older than a cancel that has been read is sent.
KeepsRuns == [][last' # last => Follows(last, last')]_vars

\* Before the clock starts and after, whatever fails: the splitter keeps
\* returning to an empty input queue, until it exits.
InputIsRead == []<>(inputQ = <<>> \/ pc = "exited")
===============================================================================
