------------------------------ MODULE ChunkSession ------------------------------
(***************************************************************************)
(* ChunkGenerationStep on SpanProcessingStep: a session per stream (SoS ..  *)
(* EoS), one chunk per input.  A pipelined session (MotionWebSocketSession) *)
(* sends one request per input over its connection and pairs the replies,   *)
(* which carry no ids, with the contexts of a FIFO; a blocking session      *)
(* waits for each chunk; a passthrough session generates nothing.           *)
(*                                                                         *)
(* Upstream sends streams in order, each with its stamp; a stream cut short *)
(* by a cancel has no EoS.  The content of a reply is the request it        *)
(* answers.                                                                 *)
(***************************************************************************)
EXTENDS Integers, SequencesExt

CONSTANTS
    Stamps,       \* turn timestamps
    Cancels,      \* stamps of cancels, as they leave the event handler
    Infinity,     \* the stamp of teardown's cancel
    Sessions,     \* the kinds of session open_generation_session may return
    MaxStreams,   \* bound: streams upstream sends
    MaxInputs,    \* bound: inputs per stream
    MaxControls,  \* bound: cancels before teardown
    Kill, None

Streams == 1..MaxStreams

ASSUME ChunkAssumption ==
    /\ Stamps \subseteq Nat /\ Cancels \subseteq Nat /\ Infinity \in Nat
    /\ \A t \in Stamps : t < Infinity
    /\ Sessions \subseteq {"pipelined", "blocking", "passthrough"}
    /\ MaxStreams \in Nat /\ MaxInputs \in Nat /\ MaxControls \in Nat
    /\ None \notin Nat \cup {"pipelined", "blocking", "passthrough"} /\ Kill \notin Nat

Request == Streams \X (1..MaxInputs)
Message == [kind : {"SoS", "chunk", "EoS"}, stream : Streams, input : 0..MaxInputs]
Output  == [kind : {"SoS", "EoS"}, stream : Streams, input : {0}, content : {<<>>}]
           \cup [kind : {"chunk"}, stream : Streams, input : 1..MaxInputs, content : Request]

VARIABLES
    given,      \* given[s]: inputs sent of stream s
    stamp,      \* stamp[s]
    closed,     \* whether upstream has sent the last stream's EoS
    inbox,      \* the node's input queue
    control,    \* its control queue
    controls,   \* control messages sent
    pc,         \* "top", "poll" (an input in hand), "emit" (replies in hand),
                \* "generate", "generated", "finish" or "exited"
    waiting,    \* the drain is over and the node waits in get
    held,       \* the message in hand
    current,    \* current_timestamp: the stamp of the open span
    watermark,  \* cancel_timestamp
    killed,
    session,    \* the kind of the attached session
    pending,    \* _pending: the contexts of the requests in flight
    connected,  \* whether the session's connection is open
    requests,   \* requests sent over the connection and not yet received back
    ready,      \* how many of them the service has answered
    replies,    \* what poll() returned and is not emitted yet
    failed,     \* history: the streams whose generator failed
    out         \* what the node has put on its output queue

upstreamVars == <<given, stamp, closed>>
loopVars     == <<watermark, killed>>
spanVars     == <<current, session, pending>>
serviceVars  == <<connected, requests, ready>>
vars == <<upstreamVars, inbox, control, controls, pc, waiting, held, loopVars,
          spanVars, serviceVars, replies, failed, out>>

Init ==
    /\ given = <<>> /\ stamp = <<>> /\ closed = TRUE
    /\ inbox = <<>> /\ control = <<>> /\ controls = 0
    /\ pc = "top" /\ waiting = TRUE /\ held = None
    /\ current = None /\ watermark = 0 /\ killed = FALSE
    /\ session = None /\ pending = <<>>
    /\ connected = FALSE /\ requests = <<>> /\ ready = 0 /\ replies = <<>>
    /\ failed = {} /\ out = <<>>

nodeVars == <<pc, waiting, held, loopVars, spanVars, serviceVars, replies, failed, out>>

-------------------------------------------------------------------------------
(* Upstream, the control plane and the remote service.                      *)

Latest == Len(given)

Send(kind, s, k) == inbox' = Append(inbox, [kind |-> kind, stream |-> s, input |-> k])

SendSoS(t) ==
    /\ Latest < MaxStreams
    /\ stamp # <<>> => t >= Last(stamp)
    /\ given' = Append(given, 0) /\ stamp' = Append(stamp, t) /\ closed' = FALSE
    /\ Send("SoS", Latest + 1, 0)
    /\ UNCHANGED <<control, controls, nodeVars>>

SendChunk ==
    /\ ~closed /\ given[Latest] < MaxInputs
    /\ given' = [given EXCEPT ![Latest] = @ + 1]
    /\ Send("chunk", Latest, given[Latest] + 1)
    /\ UNCHANGED <<stamp, closed, control, controls, nodeVars>>

SendEoS ==
    /\ ~closed
    /\ closed' = TRUE
    /\ Send("EoS", Latest, 0)
    /\ UNCHANGED <<given, stamp, control, controls, nodeVars>>

Cancel(c) ==
    /\ controls < MaxControls
    /\ controls' = controls + 1 /\ control' = Append(control, c)
    /\ UNCHANGED <<upstreamVars, inbox, nodeVars>>

\* cancel(inf), then kill.
Teardown ==
    /\ controls <= MaxControls
    /\ controls' = MaxControls + 1 /\ control' = control \o <<Infinity, Kill>>
    /\ UNCHANGED <<upstreamVars, inbox, nodeVars>>

Reply ==
    /\ ready < Len(requests)
    /\ ready' = ready + 1
    /\ UNCHANGED <<upstreamVars, inbox, control, controls, pc, waiting, held, loopVars,
                   spanVars, connected, requests, replies, failed, out>>

-------------------------------------------------------------------------------
(* The session, and the span.                                               *)

\* Closing the connection discards what is in flight.
Disconnect == connected' = FALSE /\ requests' = <<>> /\ ready' = 0

\* Forgets the contexts but keeps the connection for the next stream.
MutantAbort ==
    /\ pending' = <<>> /\ session' = None /\ current' = None
    /\ UNCHANGED serviceVars

\* _abort_generation and end_span.
Abort == pending' = <<>> /\ session' = None /\ current' = None /\ Disconnect

Relay(kind, s) ==
    out' = Append(out, [kind |-> kind, stream |-> s, input |-> 0, content |-> <<>>])

Emit(context, content) ==
    out' = Append(out, [kind |-> "chunk", stream |-> context[1], input |-> context[2],
                        content |-> content])

\* Back to the top of the loop; a drain that finds nothing goes on to get.
Return ==
    /\ pc' = "top" /\ held' = None /\ replies' = <<>> /\ waiting' = (control = <<>> /\ ~killed)
    /\ UNCHANGED <<upstreamVars, control, controls, loopVars>>

\* An exception: the error boundary cancels the span.
Fail == failed' = failed \cup {held.stream} /\ Abort

-------------------------------------------------------------------------------
(* The control queue: read at the top of the loop (also when get has timed  *)
(* out), before and after an input is generated, and while a reply or a     *)
(* chunk is awaited.                                                        *)

Larger(a, b) == IF a < b THEN b ELSE a

Polls ==
    \/ pc = "top" /\ (waiting => inbox = <<>>)
    \/ pc \in {"poll", "generate", "generated"}
    \/ pc = "finish" /\ requests # <<>>

ReadCancel ==
    /\ Polls /\ control # <<>> /\ Head(control) # Kill
    /\ control' = Tail(control)
    /\ watermark' = Larger(watermark, Head(control))
    /\ IF current # None /\ current < watermark'
       THEN Abort ELSE UNCHANGED <<spanVars, serviceVars>>
    /\ waiting' = (pc = "top" /\ control' = <<>>)
    /\ UNCHANGED <<upstreamVars, inbox, controls, pc, held, killed, replies, failed, out>>

\* At the top of the loop the node exits: dispose() aborts and closes.
ReadKill ==
    /\ Polls /\ control # <<>> /\ Head(control) = Kill
    /\ control' = Tail(control)
    /\ killed' = TRUE /\ waiting' = FALSE
    /\ UNCHANGED <<upstreamVars, inbox, controls, pc, held, watermark, spanVars,
                   serviceVars, replies, failed, out>>

Exit ==
    /\ pc = "top" /\ killed
    /\ pc' = "exited"
    /\ Abort
    /\ UNCHANGED <<upstreamVars, inbox, control, controls, waiting, held, loopVars,
                   replies, failed, out>>

Voided == killed \/ current = None    \* what the poll answers inside a span

-------------------------------------------------------------------------------
(* The loop.                                                                *)

Got == Head(inbox)

Take(kind) ==
    /\ pc = "top" /\ waiting /\ inbox # <<>> /\ Got.kind = kind
    /\ stamp[Got.stream] >= watermark
    /\ inbox' = Tail(inbox)

Discard ==
    /\ pc = "top" /\ waiting /\ inbox # <<>> /\ stamp[Got.stream] < watermark
    /\ inbox' = Tail(inbox)
    /\ Return
    /\ UNCHANGED <<spanVars, serviceVars, failed, out>>

\* stream_start: a session left open is aborted, the span starts, the session
\* opens (a pipelined one connects); SoS is relayed behind it.
StartStream(kind) ==
    /\ Take("SoS")
    /\ current' = stamp[Got.stream] /\ session' = kind /\ pending' = <<>>
    /\ connected' = (kind = "pipelined") /\ requests' = <<>> /\ ready' = 0
    /\ Relay("SoS", Got.stream)
    /\ Return
    /\ UNCHANGED failed

\* open_generation_session raised; SoS is relayed all the same.
StartFails ==
    /\ Take("SoS")
    /\ failed' = failed \cup {Got.stream} /\ Abort
    /\ Relay("SoS", Got.stream)
    /\ Return

\* A chunk outside a stream is dropped; the stream has failed or is void.
DropChunk ==
    /\ Take("chunk") /\ session = None
    /\ Return
    /\ UNCHANGED <<spanVars, serviceVars, failed, out>>

TakeChunk ==
    /\ Take("chunk") /\ session # None
    /\ pc' = "poll" /\ held' = Got /\ waiting' = FALSE
    /\ UNCHANGED <<upstreamVars, control, controls, loopVars, spanVars, serviceVars,
                   replies, failed, out>>

Context == <<held.stream, held.input>>

Polled(p) == pc = p /\ control = <<>>

\* The poll voided the stream, before the input was generated or after.
LeaveVoided ==
    /\ Polled("poll") \/ Polled("generated")
    /\ Voided
    /\ Return
    /\ UNCHANGED <<inbox, spanVars, serviceVars, failed, out>>

Generates(kind) == Polled("poll") /\ ~Voided /\ session = kind

PassChunk ==
    /\ Generates("passthrough")
    /\ Emit(Context, Context)
    /\ Return
    /\ UNCHANGED <<inbox, spanVars, serviceVars, failed>>

\* Sends the request and queues its context; poll() takes the replies that are
\* there, the new request's included.
Submit(n) ==
    /\ Generates("pipelined")
    /\ n \in ready..(Len(requests) + 1)
    /\ LET sent == Append(requests, Context) IN
         /\ replies' = SubSeq(sent, 1, n)
         /\ requests' = SubSeq(sent, n + 1, Len(sent))
    /\ ready' = 0 /\ connected' = TRUE
    /\ pending' = Append(pending, Context)
    /\ pc' = "emit"
    /\ UNCHANGED <<upstreamVars, inbox, control, controls, waiting, held, loopVars,
                   current, session, failed, out>>

\* A reply goes out with the newest context.
MutantEmitReply ==
    /\ pc = "emit" /\ replies # <<>>
    /\ Emit(Last(pending), Head(replies))
    /\ replies' = Tail(replies) /\ pending' = Front(pending)
    /\ UNCHANGED <<upstreamVars, inbox, control, controls, pc, waiting, held, loopVars,
                   current, session, serviceVars, failed>>

EmitReply ==
    /\ pc = "emit" /\ replies # <<>>
    /\ Emit(Head(pending), Head(replies))
    /\ replies' = Tail(replies) /\ pending' = Tail(pending)
    /\ UNCHANGED <<upstreamVars, inbox, control, controls, pc, waiting, held, loopVars,
                   current, session, serviceVars, failed>>

EmittedAll ==
    /\ pc = "emit" /\ replies = <<>>
    /\ Return
    /\ UNCHANGED <<inbox, spanVars, serviceVars, failed, out>>

\* generate_chunk blocks, and may poll meanwhile.
Generate ==
    /\ Generates("blocking")
    /\ pc' = "generate"
    /\ UNCHANGED <<upstreamVars, inbox, control, controls, waiting, held, loopVars,
                   spanVars, serviceVars, replies, failed, out>>

Generated ==
    /\ pc = "generate"
    /\ pc' = "generated"
    /\ UNCHANGED <<upstreamVars, inbox, control, controls, waiting, held, loopVars,
                   spanVars, serviceVars, replies, failed, out>>

\* ChunkGenerationCancelled: a session whose own poll saw the cancel.
GenerateCancelled ==
    /\ pc = "generate" /\ Voided
    /\ Abort
    /\ Return
    /\ UNCHANGED <<inbox, failed, out>>

EmitGenerated ==
    /\ Polled("generated") /\ ~Voided
    /\ Emit(Context, Context)
    /\ Return
    /\ UNCHANGED <<inbox, spanVars, serviceVars, failed>>

\* submit(), poll() or generate_chunk() raised, or returned what is no chunk;
\* replies taken and not emitted are lost.
GenerateFails ==
    /\ Generates("pipelined") \/ pc = "emit" \/ pc = "generate"
    /\ Fail
    /\ Return
    /\ UNCHANGED <<inbox, out>>

\* stream_end without a stream is relayed.
EndNothing ==
    /\ Take("EoS") /\ session = None
    /\ Relay("EoS", Got.stream)
    /\ Return
    /\ UNCHANGED <<spanVars, serviceVars, failed>>

EndStream ==
    /\ Take("EoS") /\ session # None
    /\ pc' = "finish" /\ held' = Got /\ waiting' = FALSE
    /\ UNCHANGED <<upstreamVars, control, controls, loopVars, spanVars, serviceVars,
                   replies, failed, out>>

\* The replies in flight are awaited and emitted before the envelope closes.
AwaitReply ==
    /\ pc = "finish" /\ ready > 0 /\ ~Voided
    /\ Emit(Head(pending), Head(requests))
    /\ pending' = Tail(pending) /\ requests' = Tail(requests) /\ ready' = ready - 1
    /\ UNCHANGED <<upstreamVars, inbox, control, controls, pc, waiting, held, loopVars,
                   current, session, connected, replies, failed>>

Finish ==
    /\ pc = "finish" /\ requests = <<>> /\ ~Voided
    /\ Abort
    /\ Relay("EoS", held.stream)
    /\ Return
    /\ UNCHANGED <<inbox, failed>>

\* The wait was cancelled; EoS is relayed, void like its stream.
FinishCancelled ==
    /\ pc = "finish" /\ Voided
    /\ Abort
    /\ Relay("EoS", held.stream)
    /\ Return
    /\ UNCHANGED <<inbox, failed>>

\* Only an answer of the service ends the wait.
MutantFinishFails ==
    /\ pc = "finish" /\ ready > 0 /\ ~Voided
    /\ Fail
    /\ Relay("EoS", held.stream)
    /\ Return
    /\ UNCHANGED inbox

\* An error of the service, or receive_timeout, ends the wait.
FinishFails ==
    /\ pc = "finish" /\ session # "passthrough" /\ ~Voided
    /\ Fail
    /\ Relay("EoS", held.stream)
    /\ Return
    /\ UNCHANGED inbox

-------------------------------------------------------------------------------
Environment ==
    \/ \E t \in Stamps : SendSoS(t)
    \/ SendChunk \/ SendEoS
    \/ \E c \in Cancels : Cancel(c)
    \/ Teardown \/ Reply

Node ==
    \/ ReadCancel \/ ReadKill \/ Exit \/ Discard
    \/ \E kind \in Sessions : StartStream(kind)
    \/ StartFails \/ DropChunk \/ TakeChunk \/ LeaveVoided \/ PassChunk
    \/ \E n \in 0..MaxInputs : Submit(n)
    \/ EmitReply \/ EmittedAll
    \/ Generate \/ Generated \/ GenerateCancelled \/ EmitGenerated \/ GenerateFails
    \/ EndNothing \/ EndStream \/ AwaitReply \/ Finish \/ FinishCancelled \/ FinishFails

Next == Environment \/ Node

Spec == Init /\ [][Next]_vars

\* The thread runs; a wait for the service ends, by receive_timeout at last.
FairSpec == Spec /\ WF_vars(Node)

-------------------------------------------------------------------------------
TypeOK ==
    /\ given \in Seq(0..MaxInputs) /\ stamp \in Seq(Stamps) /\ Len(stamp) = Len(given)
    /\ closed \in BOOLEAN /\ inbox \in Seq(Message)
    /\ control \in Seq(Cancels \cup {Infinity, Kill}) /\ controls \in Nat
    /\ pc \in {"top", "poll", "emit", "generate", "generated", "finish", "exited"}
    /\ waiting \in BOOLEAN /\ held \in Message \cup {None}
    /\ current \in Stamps \cup {None} /\ watermark \in Nat /\ killed \in BOOLEAN
    /\ session \in Sessions \cup {None} /\ pending \in Seq(Request)
    /\ connected \in BOOLEAN /\ requests \in Seq(Request) /\ ready \in Nat
    /\ replies \in Seq(Request) /\ failed \in SUBSET Streams /\ out \in Seq(Output)

\* The stream's envelopes keep the promise of Envelopes: every chunk is its own
\* input's, none is missing from a closed envelope of a sound stream, none comes
\* after the stream is void or outside its envelope.
Streamed == INSTANCE Envelopes WITH
    void <- {s \in DOMAIN stamp : stamp[s] < watermark}

KeepsEnvelopes == Streamed!Spec

\* The remote service has one exclusive slot: between streams, whatever ended the
\* last one, and when the thread has ended, it is released and nothing is owed.
SlotIsReleased ==
    pc \in {"top", "exited"} /\ current = None =>
        ~connected /\ requests = <<>> /\ pending = <<>> /\ session = None

\* The invariant of the node: types, and a remote slot free between streams.
SlotInv == TypeOK /\ SlotIsReleased

\* The node always comes back to its queues: neither an unanswered request nor a
\* cancel in any place leaves it waiting for ever.
NodeReturns == []<>(pc \in {"top", "exited"})
===============================================================================
