----------------------------- MODULE DanmakuBuffer -----------------------------
(***************************************************************************)
(* DanmakuBufferStep: audience messages collect in a buffer, and batches of *)
(* them go to the language model, one at a time: after a release the node   *)
(* waits for the client's playback_complete, for a cancel that voids the    *)
(* batch, or for a timeout.  A release is stamped with the newest of the    *)
(* last contexts handled.                                                   *)
(*                                                                         *)
(* Messages travel on the data plane, acknowledgements and cancels on the   *)
(* control plane.  Only the node's thread touches its state, so a hook may  *)
(* take several steps.  The four *_clean_ts of the code move together.      *)
(***************************************************************************)
EXTENDS Integers, FiniteSetsExt, SequencesExt

CONSTANTS
    Stamps,           \* the stamps of messages
    Cancels,          \* the stamps of cancels
    Acks,             \* the stamps of acknowledgements
    Infinity,         \* the stamp of teardown's cancel
    Kinds,            \* the kinds of message the audience sends
    MaxMessages,      \* bound: messages
    MaxControls,      \* bound: control messages before teardown
    RingSize,         \* ctx_ring_size
    MaxBatch, MinBatch, MaxBuffer,                       \* in messages
    Interval, MaxWait, IdleTalk, PlaybackTimeout,        \* in ticks
    None

ASSUME DanmakuAssumption ==
    /\ Stamps \subseteq Nat \ {0} /\ Cancels \subseteq Nat \ {0}
    /\ Acks \subseteq Nat \ {0} /\ Infinity \in Nat \ {0}
    /\ \A t \in Stamps \cup Cancels \cup Acks : t < Infinity
    /\ Kinds \subseteq {"low", "normal", "priced"}
    /\ {MaxMessages, MaxControls, Interval} \subseteq Nat
    /\ {RingSize, MaxBatch, MinBatch, MaxBuffer} \subseteq Nat \ {0}
    /\ {MaxWait, IdleTalk, PlaybackTimeout} \subseteq Nat \ {0}
    /\ None \notin Nat

Message == [id : 1..MaxMessages, ts : Stamps, kind : Kinds]
Never == Max({Interval, PlaybackTimeout})

VARIABLES
    sent,      \* how many messages were sent
    inbox,     \* the node's input queue
    control,   \* its control queue
    controls,  \* how many control messages were sent
    pc,        \* "drain" (the control queue), "get" (the input queue), "update",
               \* "event" (the update of custom_event) or "exited"
    watermark, \* cancel_timestamp
    clean,     \* _cancel_clean_ts
    killed,
    buffer,    \* the buffered ids, with the ticks each has waited
    span,      \* current_timestamp
    waited,    \* the ticks since span_start_time
    idle,      \* the ticks since idle_start_time
    ring,      \* _ctx_ring
    locked,    \* waiting_for_playback
    released,  \* the ticks since last_release_time
    last,      \* the last release: [stamp, batch]
    told,      \* history: the stamps of all releases
    late       \* history: the stamps of acknowledgements read behind a newer cancel

clientVars  == <<sent, inbox, control, controls>>
loopVars    == <<watermark, killed>>
spanVars    == <<buffer, span, waited>>
releaseVars == <<locked, released, last, told, late>>
vars == <<clientVars, pc, loopVars, clean, spanVars, idle, ring, releaseVars>>
nodeVars == <<pc, loopVars, clean, spanVars, idle, ring, releaseVars>>

Init ==
    /\ sent = 0 /\ inbox = <<>> /\ control = <<>> /\ controls = 0
    /\ pc = "drain" /\ watermark = 0 /\ killed = FALSE /\ clean = 0
    /\ buffer = <<>> /\ span = None /\ waited = 0
    /\ idle = None /\ ring = <<>>
    /\ locked = FALSE /\ released = Never /\ last = [stamp |-> 0, batch |-> {}] /\ told = {}
    /\ late = {}

-------------------------------------------------------------------------------
(* The client, and time.                                                    *)

Open == controls <= MaxControls

SendMessage(t, kind) ==
    /\ Open /\ sent < MaxMessages
    /\ sent' = sent + 1
    /\ inbox' = Append(inbox, [id |-> sent', ts |-> t, kind |-> kind])
    /\ UNCHANGED <<control, controls, nodeVars>>

Put(c) ==
    /\ controls < MaxControls
    /\ controls' = controls + 1 /\ control' = Append(control, c)
    /\ UNCHANGED <<sent, inbox, nodeVars>>

Cancel(t) == Put([verb |-> "cancel", ts |-> t])

\* The client has played the batch stamped batch to its end.
PlaybackComplete(t, batch) == Put([verb |-> "played", ts |-> t, batch |-> batch])

Teardown ==
    /\ Open
    /\ controls' = MaxControls + 1
    /\ control' = control \o <<[verb |-> "cancel", ts |-> Infinity], [verb |-> "kill"]>>
    /\ UNCHANGED <<sent, inbox, nodeVars>>

\* The clocks stop at the bound they are compared with.
Later(n, bound) == IF n = bound THEN bound ELSE n + 1

Tick ==
    /\ pc # "exited"
    /\ buffer' = [m \in DOMAIN buffer |-> Later(buffer[m], MaxWait)]
    /\ waited' = IF buffer = <<>> THEN 0 ELSE Later(waited, MaxWait)
    /\ released' = Later(released, Never)
    /\ idle' = IF idle = None THEN None ELSE Later(idle, IdleTalk)
    /\ UNCHANGED <<clientVars, pc, loopVars, clean, span, ring, locked, last, told, late>>

-------------------------------------------------------------------------------
(* The buffer and its span.                                                 *)

Urgent(m) == m.kind = "priced"

Retain(messages) == buffer' = Restrict(buffer, messages)

Ended == span' = None /\ waited' = 0

\* _sync_span_to_buffer: the oldest stamp, and the longest wait.
Sync ==
    IF buffer' = <<>> THEN Ended
    ELSE /\ span' = Min({m.ts : m \in DOMAIN buffer'})
         /\ waited' = Max({buffer'[m] : m \in DOMAIN buffer'})

\* Higher priority first, then older, then earlier.
Before(m, k) ==
    IF Urgent(m) # Urgent(k) THEN Urgent(m)
    ELSE m.ts < k.ts \/ (m.ts = k.ts /\ m.id < k.id)

First(messages, n) ==
    {m \in messages : Cardinality({k \in messages : Before(k, m)}) < n}

Record(t) == ring' = Append(IF Len(ring) = RingSize THEN Tail(ring) ELSE ring, t)

\* Sweeps the buffer and not the ring.
MutantApplied(w) ==
    /\ clean' = w /\ idle' = 0
    /\ Retain({m \in DOMAIN buffer : m.ts >= w}) /\ Sync
    /\ locked' = (locked /\ last.stamp >= w)
    /\ UNCHANGED <<ring, released, last, told, late>>

\* _evict_cancelled_ctx.
Surviving(r, w) ==
    LET upTo[n \in 0..Len(r)] ==
          IF n = 0 THEN <<>> ELSE IF r[n] >= w THEN Append(upTo[n - 1], r[n]) ELSE upTo[n - 1]
    IN  upTo[Len(r)]

\* _apply_cancel_watermark.
Applied(w) ==
    /\ clean' = w /\ idle' = 0
    /\ Retain({m \in DOMAIN buffer : m.ts >= w}) /\ Sync
    /\ ring' = Surviving(ring, w)
    /\ locked' = (locked /\ last.stamp >= w)
    /\ UNCHANGED <<released, last, told, late>>

-------------------------------------------------------------------------------
(* The control queue.                                                       *)

Drain(verb) ==
    /\ pc = "drain" /\ control # <<>> /\ Head(control).verb = verb
    /\ control' = Tail(control)
    /\ UNCHANGED <<sent, inbox, controls>>

Larger(a, b) == IF a < b THEN b ELSE a

\* The base loop calls custom_cancel when the cancel voids the open span.
ReadCancel ==
    /\ Drain("cancel")
    /\ LET w == Larger(watermark, Head(control).ts) IN
         /\ watermark' = w
         /\ IF span # None /\ span < w THEN Applied(w)
            ELSE UNCHANGED <<clean, spanVars, idle, ring, releaseVars>>
    /\ UNCHANGED <<pc, killed>>

Behind == watermark > clean

\* Without a span to void, an event or the end of the drain applies the cancel.
Apply ==
    /\ pc = "drain" /\ Behind
    /\ control # <<>> => Head(control).verb = "played"
    /\ Applied(watermark)
    /\ UNCHANGED <<clientVars, pc, loopVars>>

ReadPlayed ==
    /\ Drain("played") /\ ~Behind
    /\ idle' = 0
    /\ Record(Head(control).ts)
    /\ locked' = (locked /\ Head(control).batch < last.stamp)
    /\ late' = late \cup ({Head(control).ts} \cap 0..(watermark - 1))
    /\ pc' = "event"
    /\ UNCHANGED <<loopVars, clean, spanVars, released, last, told>>

ReadKill ==
    /\ Drain("kill")
    /\ killed' = TRUE
    /\ UNCHANGED <<pc, watermark, clean, spanVars, idle, ring, releaseVars>>

Drained ==
    /\ pc = "drain" /\ control = <<>> /\ ~Behind
    /\ pc' = IF killed THEN "exited" ELSE "get"
    /\ UNCHANGED <<clientVars, loopVars, clean, spanVars, idle, ring, releaseVars>>

-------------------------------------------------------------------------------
(* custom_update.                                                           *)

Updates == pc \in {"update", "event"}

\* Only the client unlocks.
MutantUnlock == FALSE /\ UNCHANGED vars

\* The playback timeout.
Unlock ==
    /\ Updates /\ locked /\ released >= PlaybackTimeout
    /\ locked' = FALSE
    /\ UNCHANGED <<clientVars, pc, loopVars, clean, spanVars, idle, ring, released, last, told, late>>

ShouldRelease ==
    /\ ~locked /\ buffer # <<>>
    /\ \/ Cardinality(DOMAIN buffer) >= MinBatch /\ released >= Interval
       \/ \E m \in DOMAIN buffer : Urgent(m)
       \/ waited >= MaxWait

ShouldTalk == ~locked /\ buffer = <<>> /\ idle = IdleTalk

Wait ==
    /\ Updates
    /\ locked => released < PlaybackTimeout
    /\ ~ShouldRelease /\ ~ShouldTalk
    /\ pc' = "drain"
    /\ UNCHANGED <<clientVars, loopVars, clean, spanVars, idle, ring, releaseVars>>

\* _latest_ctx: an empty ring falls back to the cancel boundary.
Latest == IF ring = <<>> THEN watermark ELSE Max(ToSet(ring))

Release(batch) ==
    /\ last' = [stamp |-> Latest, batch |-> batch] /\ told' = told \cup {Latest}
    /\ released' = 0 /\ locked' = TRUE /\ pc' = "drain"
    /\ UNCHANGED <<clientVars, loopVars, clean, idle, ring, late>>

Batch == First(DOMAIN buffer, MaxBatch)

\* What is left stays in the span of the whole.
MutantReleaseBatch ==
    /\ Updates /\ ShouldRelease
    /\ Retain(DOMAIN buffer \ Batch) /\ Ended
    /\ Release(Batch)

ReleaseBatch ==
    /\ Updates /\ ShouldRelease
    /\ Retain(DOMAIN buffer \ Batch) /\ Sync
    /\ Release(Batch)

\* Formatting a price that is no number raises, with the batch already out of
\* the buffer.  The loop's error boundary clears what is left; the boundary of
\* an event does not.
FormatFails ==
    /\ Updates /\ ShouldRelease
    /\ \E m \in Batch : Urgent(m)
    /\ IF pc = "update" THEN buffer' = <<>> /\ Ended /\ idle' = 0
       ELSE Retain(DOMAIN buffer \ Batch) /\ UNCHANGED <<span, waited, idle>>
    /\ pc' = "drain"
    /\ UNCHANGED <<clientVars, loopVars, clean, ring, releaseVars>>

ReleaseIdle ==
    /\ Updates /\ ShouldTalk
    /\ UNCHANGED spanVars
    /\ Release({})

-------------------------------------------------------------------------------
(* The input queue.                                                         *)

\* get timed out.
Timeout ==
    /\ pc = "get" /\ inbox = <<>>
    /\ pc' = "update"
    /\ UNCHANGED <<clientVars, loopVars, clean, spanVars, idle, ring, releaseVars>>

Got == Head(inbox)

Take ==
    /\ pc = "get" /\ inbox # <<>>
    /\ inbox' = Tail(inbox)
    /\ UNCHANGED <<sent, control, controls, loopVars, clean, releaseVars>>

Discard ==
    /\ Take /\ Got.ts < watermark
    /\ pc' = "drain"
    /\ UNCHANGED <<spanVars, idle, ring>>

Handle(kinds) ==
    /\ Take /\ Got.ts >= watermark /\ Got.kind \in kinds
    /\ idle' = 0 /\ Record(Got.ts)

\* A reaction is recorded, and dropped.
Ignore ==
    /\ Handle({"low"})
    /\ pc' = "drain"
    /\ UNCHANGED spanVars

\* A price that is no number raises already here if the message is a gift.
Refuse ==
    /\ Handle({"priced"})
    /\ buffer' = <<>> /\ Ended /\ pc' = "drain"

\* An overflow drops the lowest priority, the newest of it.
Collect ==
    /\ Handle({"normal", "priced"})
    /\ buffer' = [m \in First(DOMAIN buffer \cup {Got}, MaxBuffer) |->
                     IF m = Got THEN 0 ELSE buffer[m]]
    /\ Sync
    /\ pc' = "update"

Client ==
    \/ \E t \in Stamps, kind \in Kinds : SendMessage(t, kind)
    \/ \E t \in Cancels : Cancel(t)
    \/ \E t \in Acks, batch \in told : PlaybackComplete(t, batch)
    \/ Teardown

Node ==
    \/ ReadCancel \/ Apply \/ ReadPlayed \/ ReadKill \/ Drained
    \/ Unlock \/ Wait \/ ReleaseBatch \/ FormatFails \/ ReleaseIdle
    \/ Timeout \/ Discard \/ Ignore \/ Refuse \/ Collect

Next == Client \/ Tick \/ Node

Spec == Init /\ [][Next]_vars

\* The node's thread runs and time passes; the client need not do anything.
FairSpec == Spec /\ WF_vars(Node) /\ WF_vars(Tick)

-------------------------------------------------------------------------------
(* Properties.                                                              *)

Control == [verb : {"cancel"}, ts : Cancels \cup {Infinity}]
           \cup [verb : {"played"}, ts : Acks, batch : Nat] \cup [verb : {"kill"}]

\* Types; the buffer and the ring keep their limits.
TypeOK ==
    /\ sent \in 0..MaxMessages /\ inbox \in Seq(Message) /\ control \in Seq(Control)
    /\ controls \in 0..(MaxControls + 1)
    /\ pc \in {"drain", "get", "update", "event", "exited"}
    /\ watermark \in Nat /\ clean \in Nat /\ killed \in BOOLEAN
    /\ DOMAIN buffer \subseteq Message /\ Cardinality(DOMAIN buffer) <= MaxBuffer
    /\ \A m \in DOMAIN buffer : buffer[m] \in 0..MaxWait
    /\ span \in Stamps \cup {None} /\ waited \in 0..MaxWait
    /\ idle \in (0..IdleTalk) \cup {None}
    /\ ring \in Seq(Stamps \cup Acks) /\ Len(ring) <= RingSize
    /\ locked \in BOOLEAN /\ released \in 0..Never
    /\ last.stamp \in Nat /\ last.batch \subseteq Message /\ told \in SUBSET Nat
    /\ late \subseteq Acks

\* A cancel that voids a buffered message voids the open span, so that the
\* loop's own check of the span sees it: the span is never newer than the
\* oldest message.  Cancels, releases, overflow and errors all change the
\* buffer (the _sync_span_to_buffer calls).
SpanCoversBuffer ==
    \A m \in DOMAIN buffer : span # None /\ span <= m.ts

\* The invariant of the node: types, and a span that covers the buffer.
BufferInv == TypeOK /\ SpanCoversBuffer

\* A release carries no message that a cancel the node has read voids, and its
\* stamp lets it past the same cancel downstream, unless the ring holds nothing
\* but acknowledgements read behind the cancel (custom_event appends them to the
\* swept ring whatever their stamp, DanmakuBufferStep.py:109-111: there the code
\* does stamp a batch into a cancelled turn, which the comment of lines 69-73
\* excludes).  Messages and cancels in any order, a ring they empty and contexts
\* it displaces never give a void stamp, and one current context is enough.
ReleasesAreFresh ==
    [][~locked /\ locked' =>
          /\ \A m \in last'.batch : m.ts >= watermark
          /\ last'.stamp < watermark => last'.stamp \in late /\ ToSet(ring) \subseteq late]_vars

\* Whatever the client fails to acknowledge, the buffer empties once the
\* audience is silent: every message is released, voided, crowded out or lost
\* with an error (the playback timeout and the longest wait of custom_update).
EveryMessageLeaves == []<>(buffer = <<>> \/ pc = "exited")

================================================================================
