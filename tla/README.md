# YACHIYO server: TLA+ verification project

This directory holds TLA+ models of the YACHIYO server, the TLC runs that check
them on small instances and proofs, checked by TLAPS, of theorems about them. It
is written against the sources under `src/`; the technical report
(`src/technical_report/main.tex`) states what the system promises, and every
definition here is translated from the code. `PROJECT.json` maps each definition
to the lines it stands for.

## 1. The system

A client registers an id, posts a pipeline configuration and attaches a WebSocket
(directly, or through the WebRTC gateway). The server builds one *runtime* per
client: a linear chain of node threads joined by FIFO queues, and beside it a
control plane. Every message carries the timestamp of the *turn* it belongs to;
a `cancel(T)` voids every turn older than `T` at every node, and teardown is
`cancel(infinity)` followed by `kill`.

    client -> dataQ[1] -> node 1 -> dataQ[2] -> ... -> node N -> send queue -> client
    client, barge-in nodes, teardown -> inbox -> event handler -> control queue of each node

### Inventory

| Component (under `src/`) | State it keeps | Operations | What makes it correct |
|---|---|---|---|
| Pipeline runtime: `Modules/base/BaseProcessingStep.py`, `utils/event_handler.py`, entry, exit and start/stop in `server_fastapi.py` | data and control queues, `cancel_timestamp`, `current_timestamp`, `_killed`, entry's `last_timestamp` | `run`, `check_cancel`, forward, relay, process, emit, dispatch, `receive_data`, `send_data`, `dispose` | no turn's content after a later turn's; only voided messages are dropped; a poll that finds its turn void ends it; teardown ends every thread |
| Client lifecycle: `ClientConnection`, `ClientManager` and the endpoints of `server_fastapi.py` | registered ids, connection objects and their flags, two kinds of lock, tasks, threads | register, unregister, init, WebSocket attach/detach, close, dispose | at most one runtime per id, at most one socket per runtime, nothing stale touches a later connection, no deadlock |
| Language-model node: `Modules/llm_base`, `llm_openai`, `llm_utils` | turn segments, the loaded history, the history file, the repair target | process with tool rounds, cancel hook, playback report, load/save | the history says what the client was told, each turn once |
| Dispatch bracket: `Modules/parallel/DispatcherStep.py`, `ReceiverStep.py` | the receiver's open group | spread, answer, merge | groups leave whole, in order, never mixed, none lost |
| Span and chunk sessions: `Modules/base/SpanProcessingStep.py`, `ChunkGenerationStep.py`, `MotionChunkGenerationStep.py` | open span, session, FIFO of request contexts, connection | start/input/end of a stream, poll, emit, cancel, abort | chunk and input are paired, the remote slot is released, the node never hangs |
| Joint stream: `Modules/parallel/JointStreamStep.py` | one queue and pump thread per input, end rule | pump, take, pack, cancel | streams zipped without loss; ends by its mode; no pump of an old turn feeds a new one |
| Danmaku buffer: `Modules/danmaku_buffer` | buffered messages, the span, context ring, playback lock, two watermarks, three timers | buffer, evict, release, acknowledge, time out, idle talk | no release of a message that a read cancel voids, nor of a stamp that it would void downstream; every message leaves |
| Voice activity: `Modules/vad_base`, `vad_server`, `Modules_standalone/VADServer` | audio ring, open turn, what was streamed of it; sessions of the service | hear, resolve start/end, evict, stream, barge in; create/append/delete/reap | a turn has exactly the audio of its interval; the detector and the node agree who has the turn; no session is left behind |
| Frame splitter and collector: `Modules/webrtc_frame_splitter` | group buffer, clock, stamp of what plays | drain, fill, pack, default group, cancel | messages leave whole and in order unless cancelled; the input is always read |
| WebRTC gateway: `server_webrtc.py` | sessions by client, ready/closed flags, two send locks, output lanes, the group assembler's windows | offer, connect, stamp, forward, assemble, dispatch, cleanup | the WebSocket carries what the entry relies on; one session relays; a session ends as a whole; lanes stay together |
| Pipeline validator: `utils/pipeline_validator.py` and the `validate_*` methods | none (pure) | validate edges, variables, signals, events | accepts only contracts the nodes can obey |
| Media generation, recognition, retrieval, model services, web UI | external I/O | | not protocol state |

### How the parts interact

* **Threads and queues.** Each node is one thread; neighbours share a FIFO. Only
  the event-handler thread writes control queues. Nothing else is shared between
  nodes.
* **asyncio and threads.** The endpoints, `receive_data` and `send_data` are tasks
  of one loop; they reach the runtime through queues and wait for its threads by
  polling (`wait_for_threads`).
* **Hooks.** `check_cancel` runs `custom_cancel`/`custom_event` in the node's own
  thread, before each get and from inside `process()` at polling points. Modules
  are written around where those hooks may fall.
* **External services.** A node's `process()` may block in a model server; it sees
  a cancel only when it polls.

### What is hard about it

A cancel reaches the nodes one by one while they run; a node drains its control
queue and then waits up to a second in `get`; hooks run in the middle of a
message; a poll's result must be acted on at once; endpoint tasks await between
reading and using a shared connection; locks are held across teardown; replies of
a pipelined service carry no ids. `hazards` in `PROJECT.json` lists each at its
line with the properties that would catch it going wrong, or the reason no
property does yet.

## 2. Modules

| Module | Role | Depends on |
|---|---|---|
| `Pipeline` | the runtime: entry, event handler, node loop, exit, teardown | `TurnStream` (refined) |
| `TurnStream` | abstract: stamps handed to the client are the client's and never go back | |
| `PipelineProofs` | types, fresh work, drops, teardown's order, `TurnStream` | `Pipeline` |
| `ClientLifecycle` | endpoints, tasks, locks, connections, runtimes as a whole | `RuntimeLease` (refined) |
| `RuntimeLease` | abstract: one runtime at a time per id, one socket each | |
| `LifecycleProofs` | types, live connections, endpoints, `RuntimeLease` | `ClientLifecycle` |
| `LLMTurn` | language-model node, hooks, history | `Transcript` (refined) |
| `Transcript` | abstract: each turn written once, as told; repaired once | |
| `TurnProofs` | types, nothing forgotten, markers, `Transcript` | `LLMTurn` |
| `Bracket` | dispatcher, branches, receiver, cancel broadcast | `Gather` (refined) |
| `Gather` | abstract: split, answer, leave whole and in order | |
| `BracketProofs` | types, parallel branches, nothing lost, `Gather` | `Bracket` |
| `ChunkSession` | span loop, streaming session, remote connection | `Envelopes` (refined) |
| `Envelopes` | abstract: one envelope per stream, own chunks in order | |
| `ChunkProofs` | types, the free slot, `Envelopes`; types, exact segments, the detector | `ChunkSession`, `VadNode` |
| `JointStream` | a node's pumps, packs and end rules, the callers' history | `ChunkZip` (refined) |
| `ChunkZip` | abstract: the streams zipped, ended at the mode's boundary | |
| `DanmakuBuffer` | the audience's messages: buffer, ring, playback lock, timers | |
| `DanmakuProofs` | types and span, fresh releases | `DanmakuBuffer` |
| `VadSegment` | pure operators of `VADStep`: ring, boundaries, resolution, streaming | |
| `VadNode` | `ServerVADStep` on them, and the service it calls | `VadSegment` |
| `FrameSplitter` | the WebRTC pipeline's exit node, a clock over the node loop | |
| `FrameProofs` | types, kept runs; types and pumps, `ChunkZip` | `FrameSplitter`, `JointStream` |
| `GatewaySession` | a client's offers, sessions, senders and cleanup in the gateway | |
| `GroupDispatcher` | the gateway's output lanes and the clocks that fill and empty them | |
| `GatewayProofs` | the present relays, types, order on the wire; the lanes | `GatewaySession`, `GroupDispatcher` |
| `MC*` | instances for TLC | |

The modules compose by assumption, each one's promise what the next relies on:

* `ClientLifecycle` treats a runtime's threads as one value that leaves
  `"killed"` by fairness: `Pipeline`'s `TeardownCompletes`.
* `Bracket`, `LLMTurn`, `ChunkSession`, `JointStream` and `FrameSplitter` take
  stamps that enter in order: `Pipeline`'s theorem `TurnOrder` of the nodes before
  them. They repeat the drain-then-get loop of `BaseProcessingStep.run` because
  their hooks and multi-step `process()` run inside it. `DanmakuBuffer` does not:
  it takes messages, cancels and acknowledgements in any order of stamps.
* `Pipeline`'s `ClientSend` drops what is older than the last stamp: a session of
  the gateway loses nothing there because of `GatewaySession`'s `WireInOrder`.
* `VadNode`'s barge-in is `Pipeline`'s `NodeBargeIn`.
* `FrameSplitter` sends a group per period at most, `send_data` and the gateway's
  relay keep the order, `GroupDispatcher` takes groups that come at any moment.

### Pipeline

One action per place where a thread can be interrupted by another. The program
counter of a node is the position in `run`: `"top"` (draining the control queue),
`"get"` (in `input_queue.get`), `"work"` and `"poll"` (in `process()`, and in a
`check_cancel` of it), `"exited"`.

| Action | Code |
|---|---|
| `ClientSend`, `ClientControl` | `receive_data`: monotonic stamps for content; cancel and declared verbs go to the inbox with source 0 |
| `HandlerTake`, `HandlerPut`, `HandlerDone` | `EventHandler._run`: take an event, put it to one control queue after the other leaving the source out of all but kill, echo a node's cancel to the client |
| `NodeControl`, `NodeGet`, `NodeTimeout`, `NodeExit` | `check_cancel` at the top of the loop, the get, its timeout, the exit |
| `NodeForward`, `NodeDrop`, `NodeRelay`, `NodeBegin` | the four fates of a message: for another node, void or undeclared, pass-only signal, processed |
| `NodeEmit`, `NodeBargeIn`, `NodePoll`, `NodeResume`, `NodeFinish` | inside `process()`: output, a cancel minted by a model-driven VAD, a poll, and the return with the relay of its `finally` |
| `Deliver`, `Close`, `SubmitVoid`, `SubmitKill`, `Disposed` | `send_data`, `close()`, and the steps of `dispose()` |

A put on a full bounded queue is a disabled action: the thread waits. Time
stamps are integers in units of the clock's resolution; `Epsilon` is the nudge
of the event handler. `Infinity` absorbs the nudge, as a float does.

Left out: the entry's own blocking put on a *bounded first queue* (assumption
`Bound[1] = 0`), the decoding of a message, start-up (the model begins where
`start_pipeline` has started the threads). Nodes that hold content and send it
in a later iteration (receiver, span sessions, buffers) are not covered by the
chain's order theorem; they have modules of their own.

### ClientLifecycle

A step is everything an asyncio task does between two awaits. A request is a
value of `at`; a connection object is named by the register request that made it,
a runtime by the init request that built it. The FIFO locks are sequences whose
head is the holder. The set of requests is a constant, so a behaviour is a finite
number of requests in any order: what it bounds is how many requests overlap, and
two of each kind are enough for a request to find that another has replaced what
it had read.

### LLMTurn

The generator yields chunks (empty, a sentence, a tool round, an error), the node
polls before it uses each, and a control message runs `custom_cancel` or
`custom_event` inside that poll. The history is the list of messages by turn,
with the sentences each carries; the wording is left out, the interruption marker
is a flag. A write of the history file is one step.

### Bracket

Dispatcher, branches and receiver as consecutive nodes with their inboxes and
control queues. Dispatcher and receiver do not poll in `process()`, so one
message is one step; a branch keeps its message in hand for any time. The
dispatcher's own inbox is left to the environment (a message may arrive whenever
it has drained its control queue). A node that drained and waits in `get` is in
`waiting`: it may still take a message after a cancel has reached its queue,
which is the stale read described under Observations. Not modelled: field selection, exceptions of the receiver itself, nested
brackets.

### ChunkSession

The span loop of `SpanProcessingStep` with `ChunkGenerationStep`'s three kinds of
session. A pipelined session has one request per input in flight on one
connection and pairs replies with the head of a FIFO of contexts; the model's
reply *is* the request it answers, so a shifted pairing is visible. The service
answers late, fails, or never answers. Decoding of a reply into frames is not
modelled.

### JointStream

`process()` of one sentence with a thread per stream beside it. A pump is `"new"`
(created, not yet in its generator), `"next"` (inside `next()`) or `"ended"` (its
`_DONE` is in the queue); its queue is the chunks it has `made` less the chunks
the node has `taken`. The node takes one chunk of each running stream per round
(`TakeChunk`, `TakeDone`, `TakeLast`) and polls before each take; every way out of
`process()` is `Leave`, its `finally`. Pumps are not joined, so those of an
earlier sentence run on beside the next one's until their generator's next
boundary. Of a caller the model keeps what outlives a request: the turn whose
motion a continuous caller would continue. The conversion of motion and audio and
the wiring of products to fields are not modelled.

### DanmakuBuffer

The node's loop is span-driven: `check_cancel`, a get with a timeout, and
`custom_update` when nothing came. `pc` says which comes next; `Tick` advances the
three timers (age of a message, time since the last release, idle time) up to
their limits, so time is counted in ticks and a limit of one tick is "run out or
not". The context ring keeps the last stamps seen, `clean` is `_cancel_clean_ts`,
and `late` records the stamps of acknowledgements that were read behind a newer
cancel: `custom_event` appends them to the swept ring all the same.
A release takes the messages that fit, by priority, stamps them with the newest
context that survives, locks the buffer until the client acknowledges playback, and an
exception anywhere runs the loop's error path. The text of a batch is left out.

### VadSegment and VadNode

`VadSegment` has the operators of `VADStep` on a ring of chunks: one sample is
named by its time, so a turn's audio is a set of times and "exact" can be said.
Gaps between chunks, boundaries in the future, in a gap, in the past or at a
chunk's edge, and eviction by a cancel or by the ring's size are all there. The
ring loses chunks from the left, and the chunks a turn keeps are those that reach
its mark, the last ones since chunks follow one another: both are a suffix (`Since`).
`VadNode` is one action per thing the node is given (`Hear` a chunk, recording
signals, `Interrupt`, `Dispose`), each handled to completion as the code does; the
detector's verdict and the outcome of each request are chosen freely. `Reap` and
`Expire` are the service's reaper on abandoned and on idle sessions. An answer of
the service reports at most two events, a start and a stop in either order
(`SpeechResumed`, `SpeechPassed`); a longer answer is a further composition of the
same two handlers. `astray` records why the detector may be in speech while the
node has no turn: `"lost"`, a request failed, or `"cut"`, the turn was force-ended at
the ring's length, which happens without any fault and resets nothing.

### FrameSplitter

It overrides `run`: before the clock starts, content is discarded and signals
pass (`Top`, `PausedTake`, `PausedEmpty`); afterwards each tick drains the control
queue, fills the buffer from the input until there is a group, sends one group or
a default one, and sleeps. A message is a shape: how many groups it splits into,
how many of them can be rendered, whether data rides along. The output queue is
kept as its `last` entry, which is all its order depends on.

### GatewaySession

A session has the name of the offer that made it. An action is what a task does
between two awaits: `Request` to `Fail` are `handle_offer` under the session lock;
`Connect` to `LeaveDone` are `_pipeline_session`; `Direct*` and `Assemble`,
`GroupSent` are the two senders; `Stamp` is the stamp taken under the send lock;
`Cleanup` is shared by everyone who may call it (`Abort`, `Fail`, `Leave`), and
`CloseSocket`, `ClosePeer` are its awaits. A write may fail, and a connection may
come about after its session was closed. The clock is coarse, so equal stamps
occur. Content, codecs, ICE and the compatibility checks of an offer are left out
(`Reject` covers their refusals).

### GroupDispatcher

Frames are counted. The shared clock has `Beats` beats a period; on a beat every
lane whose frame falls on it takes one, and the consumer, on a phase of its own,
unpacks a group, in any order among them. A group has a whole
number of each lane's frames, at least one, for its rate is the gcd of theirs
(`WebRTCSession.__init__`); the beats are as fine as `RateAssumption` needs. A lane without a frame falls back to
silence or an idle frame. It is assumed that a task which is due runs before the
next beat, and that the tracks have started before the first group comes.

## 3. Runs

| Run | Instance | Checks |
|---|---|---|
| `pipeline` | 2 nodes, node 1 a barge-in emitter whose messages are for the chain or for node 1 alone, a verb, 2 submissions (messages, cancels, events) of 2 turns, teardown | `TypeOK`, `WorkIsFresh`, `VoidedBeforeKilled`, `KeepsTurnOrder` (refinement of `TurnStream`), `OnlyVoidedIsDropped`, `CancelTakesEffect`, `TeardownCompletes` |
| `pipeline_tight` | 2 nodes, a signal renamed on its way, capacity 1 on node 2's queue | the finding |
| `lifecycle` | 1 id, 2 registers, 1 unregister, a plain and a forced init, 2 sockets | `TypeOK`, `OneLiveConnection`, `LeasesRuntimes` (refinement of `RuntimeLease`), `EndpointEndsItsOwn`, `RequestsAreAnswered` |
| `llm` | 2 turns, 2 sentences, 2 rounds, 2 controls, window of 3 | `TypeOK`, `NothingSentIsForgotten`, `MarkerEndsItsTurn`, `KeepsTranscript` (refinement of `Transcript`) |
| `bracket` | 2 branches, 2 messages, 1 cancel | `RegionInv` (types; no branch has to wait for another's copy of a message), `NothingIsLost`, `KeepsGroups` (refinement of `Gather`) |
| `chunk` | 2 streams of 2 inputs, 3 kinds of session, 2 controls | `SlotInv` (types; the remote slot is released), `NodeReturns`, `KeepsEnvelopes` (refinement of `Envelopes`) |
| `joint` | 2 streams (one extended, the other the anchor and continuous), 3 modes, 2 sentences of up to 2 turns, a cancel or teardown | `PumpInv` (types; no pump generates for a sentence that is over), `AllReturn`, `KeepsZip` (refinement of `ChunkZip`) |
| `danmaku` | 3 messages of 3 priorities and 2 stamps, 2 cancels or acknowledgements, these also older than the cancel, buffer and ring of 2, batches of 1 | `BufferInv` (types; the span covers the buffer), `ReleasesAreFresh` (a batch holds nothing void; a void stamp only from a ring of nothing but late acknowledgements), `EveryMessageLeaves` |
| `voice` | 4 chunks of 2 samples with gaps, a ring of 6, streamed or not, up to two detector events a chunk, 3 signals or cancels, 2 failing requests | `VoiceTypes`, `SegmentIsExact`, `DetectorAgrees` (with its two exceptions, both reached), `SessionsEnd` |
| `gateway` | 2 offers, 2 direct messages or groups, the first a cancel that is stamped one back, 2 instants | `TypeOK`, `WireInOrder`, `OnlyThePresentRelays`, `SessionsEnd` |
| `splitter` | 3 messages of 8 shapes and 2 stamps, 1 cancel, start, teardown | `TypeOK`, `KeepsRuns`, `InputIsRead` |
| `dispatcher` | 3 lanes at the default 50, 30 and 20 frames a second in 10 groups, every phase | `LanesStayTogether`, no deadlock |

Every run but `pipeline_tight` passes. `TeardownCompletes` therefore holds with
unbounded queues, as every shipped configuration has them, and fails with a bound.

`CHECK_DEADLOCK FALSE` appears wherever the system really stops: a disposed
client, all requests served, a thread that exited, a client with nothing to say.

**Bounds.** `MaxSubmitted`, `MaxControls`, `MaxOut`, `MaxTurns`, `MaxItems`,
`MaxInputs`, `MaxStreams`, `MaxCancels`, `MaxMessages`, `MaxSent`, `MaxChunks`,
`MaxSignals`, `MaxFaults`, `MaxTime` and `MaxWaiting` bound counters in guards;
the set of requests bounds the lifecycle, the set of offers the gateway. Two nodes are the least with an upstream, a
downstream and a node a message is forwarded through; two stamps are the least
with an older and a newer turn, and the cancel (after its nudge) falls between
them; one cancel plus teardown already gives two cancels and a kill in one
control queue. Two sentences and a tool round give every shape of cut in the
transcript. Two branches are the least for a message that passes an earlier
branch; two inputs per stream the least for a pairing to shift. Of the two joined streams
the one that is extended has fewer chunks, so that repeated tails occur; either
may end early at any chunk, so each of them ends first in some behaviour.
Three buffered messages overflow a buffer of two and leave one behind a release;
a ring of two loses the third context. Four chunks of two samples are longer than
a ring of six, so that a turn can outlive its beginning, and three signals open,
close and interrupt a turn. Two offers are the least for a session to meet an
earlier one's leftovers; a cancel and a message after it the least for the stamps
to cross. Two frames of splitter output order are compared at a time, three
messages put a cancelled one between two others. The dispatcher's state is finite
but for the groups that wait, and waiting groups change nothing but that the next
fill succeeds.

**Fairness.** `Pipeline`: weak fairness of each node thread, of the event handler
and of the steps of `dispose()`. Threads are scheduled by the operating system;
`process()` is bounded (`MaxOut`) and a node's get ends within its one-second
timeout. Nothing is assumed of the client, of delivery or of a peer's leaving.
`ClientLifecycle`: the loop resumes a task that can run, `asyncio.Lock` is FIFO,
and a killed runtime's threads exit. `ChunkSession`: the thread runs, a wait on
the connection ends by `receive_timeout` at last, and a blocking
`generate_chunk` is assumed to return. `JointStream`: node and pumps run, and a
caller's `next()` returns, by its read timeout at last. `DanmakuBuffer`: the
thread runs and time passes; the audience and the player owe it nothing.
`VadNode` (`FairVoiceSpec`): the service's reaper runs. `FrameSplitter`: its thread runs.
`GatewaySession`: the loop resumes a task whose await returns; requests,
connections, writes and closes return, in success or failure; a read on a closed
WebSocket fails; the client need not come. `LLMTurn`, `Bracket` and `GroupDispatcher` state no
liveness; `NothingIsLost` is the bracket's safety counterpart, and the dispatcher
is checked for deadlock.

## 4. Proofs

Every theorem holds for all values of its module's constants: any number of
nodes, requests, sockets, streams, messages or limits, under the named assumptions
beside them, which say what the constants are (sets and ranges, reserved names, a
`None` that is no value, stamps below `Infinity`). A hypothesis beyond those is in
the statement. Each state invariant is proved from an inductive one,
which the table names with its parts; each refinement by mapping the initial
states and every step, under that invariant.

### Pipeline

| Theorem | States | Argument |
|---|---|---|
| `TypeCorrect` | `Spec => []TypeOK` | `TypeOK` is inductive by itself |
| `FreshWork` | `Spec => []WorkIsFresh` | `FreshInv`: inductive together with `TypeOK` once it covers the poll: there, a message older than the watermark has `voided` set, so `NodeResume` is closed to it; a begin checks the watermark, a barge-in raises it to the message's own stamp at most |
| `OnlyVoidedDropped` | `Spec => OnlyVoidedIsDropped` | `IssuedInv`: every watermark, and every cancel in a control queue, in the inbox or in dispatch, is at most the highest stamp anyone has submitted (the nudge only lowers it); a dropped message is older than its node's watermark, so older than some submitted cancel |
| `VoidBeforeKill` | `Spec => []VoidedBeforeKilled` | `VoidInv`, along the path of a kill: in the inbox `cancel(infinity)` precedes it; once dispatched, each control queue holds it behind one or its node's watermark is already infinite; while teardown has not submitted it, no kill exists (`KilledPart`, `ControlPart`, `DispatchPart`, `InboxPart`, `StagePart`) |
| `TurnOrder` | `Spec => KeepsTurnOrder` | `OrderInv` (`LaneOrder`, `QueueOrder`, `HandLast`, `Accepted`, `Entry`, `NoEcho`): the lane of a queue is what it holds and what the node before it has in hand; from the client back to the entry stamps never decrease within a lane or from one lane to the next, each was accepted from the client, and none is older than the last one handed out |

`Emitters`, `Edges`, `Addressees` and the contracts are arbitrary within their types.

### Client lifecycle

| Theorem | States | Argument |
|---|---|---|
| `LeaseInvariant` | `Spec => []LeaseInv` | every request is where its kind may be (`AtPart`); who works under a lock has it and who waits is in line (`LockPart`); the table leads to connections of the right id (`TablePart`); what a request that works under the lifecycle lock finds (`WorkPart`); an initialised connection is the current one and its runtime runs, unless it is being reaped (`RuntimePart`); a socket is that of the connection it was attached to (`SocketPart`), and its two tasks go before it (`TaskPart`); a runtime is built once, and the table leads to whatever threads there are (`ThreadPart`) |
| `LifecycleTypes`, `ConnectionsAreLive` | `Spec => []TypeOK`, `Spec => []OneLiveConnection` | follow from it |
| `EndpointsEndTheirOwn` | `Spec => EndpointEndsItsOwn` | an endpoint that has waited for the lock disposes only what `StillOwns` compares with what it captured, and that is its own by `SocketPart` |
| `OneLease` | `Spec => LeasesRuntimes` | the leases of an id are its live runtimes; only a build, a start, a join and an exit change them, and by `ThreadPart` and `RuntimePart` none is left when one is built; every other step stutters |

### Language-model node

| Theorem | States | Argument |
|---|---|---|
| `TurnTypes`, `NothingIsForgotten`, `MarkersEndTurns` | `Spec => []TypeOK`, `[]NothingSentIsForgotten`, `[]MarkerEndsItsTurn` | `TurnInv`: a turn that goes on is neither cancelled nor written (`CurrentPart`); its segments say what was sent, and a turn that is over and was heard is written (`SentPart`); the file's turns stand in order, the repairable one last and exactly behind `span` (`FilePart`); teardown's cancel precedes its kill (`KillPart`); turns are bounded by prompts (`CountPart`) |
| `TranscriptIsKept` | `Spec => KeepsTranscript` | what the file tells of a turn, as a set, is what its messages say; a commit adds what was sent of the newest turn, and the exact cut, made once while the turn is `repairable`, only removes from it |

What `SegmentMessages` builds from any number of segments is proved by induction
over them, with sets and functions in place of predicates and operators (below).

### Dispatch bracket

| Theorem | States | Argument |
|---|---|---|
| `BracketInvariant` | `Spec => []BracketInv` | about the lane: all messages between dispatcher and receiver, from the receiver's queue back over the branches, the message a branch has in hand before those in its queue. A message there is one its id was split into (`LanePart`), behind every older id and, within its id, behind the start and before the end (`OrderPart`); the open group is of the oldest id in the lane (`GroupPart`), and is open for every id whose start is gone, unless the receiver knows a cancel of it (`OpenPart`); ends follow their starts (`EndPart`); what has left is older than all this (`LeftPart`); what is not gone has its last message in the lane (`ClosePart`) and each of its copies there, or answered, or silent (`WholePart`) |
| `Parallel` | `Spec => []RegionInv` | `OrderPart`: of one id's copies the later branch's is ahead |
| `NoneLost` | `Spec => []NothingIsLost` | `ClosePart` with an empty lane |
| `Gathers` | `Spec => KeepsGroups` | a merge leaves the open group: in turn by `LeftPart`, whole by `WholePart` and `OrderPart`, as nothing of its id is left behind its end; a caught signal likewise; an answer outside a group would contradict `OpenPart` |

A step changes one or two queues, and every conjunct speaks of all places in the
lane. Each step is therefore described once, by the place a message had before it
(`Moves`: the new lane is the old one without some lost places, in the same order,
each message the same or become its answer); that the parts survive is proved for
every such move, and a step only shows which move it is.

### Span and chunk sessions

| Theorem | States | Argument |
|---|---|---|
| `ChunkInvariant` | `Spec => []ChunkInv` | teardown's cancel is read before its kill (`ControlPart`); replies come in the order of the contexts, and without a span nothing is owed (`FifoPart`); the inbox is the end of what upstream sent, in its order (`QueuePart`), and output, hand and inbox follow one another (`OrderPart`); the open span is that of the open envelope and not void (`SpanPart`), as is what is in hand (`HeldPart`); from the inputs generated over those in flight to those in the inbox none is missing (`DuePart`); what comes without a span, for a stream that is not void, finds its envelope open and its generator failed (`RestPart`) |
| `SlotIsFree` | `Spec => []SlotInv` | its parts about a node without a span |
| `EnvelopesAreKept` | `Spec => KeepsEnvelopes` | the streams stamped below the watermark are the abstract void ones; an emitted reply is the successor of what the envelope holds by `FifoPart` and `DuePart`, and an end is due when nothing is |

### Voice activity

| Theorem | States | Argument |
|---|---|---|
| `VoiceTyped` | `VoiceSpec => []VoiceTypes` | `VoiceInv`, below |
| `Segmented` | `VoiceSpec => []SegmentIsExact` | `VoiceInv`: times rise with positions, at least by one each (`HeardOK`); every chunk of the ring, trimmed or not, tells positions and times of samples that were heard, the chunks follow one another up to the last sample, and they are no more than the ring's size (`RingOK`, by `Line`); a turn whose start is to come has nothing yet, and the ring ends before its start (`Waiting`); of a turn that has found its start, the samples asked for are exactly those after its mark, its own chunks reach back to the mark whatever the ring has lost since, what is sent is a prefix that no end can still exclude, and without an end it is no longer than the ring (`Running`); the last finished turn is exact, and what is heard later is past its end (`ClosedOK`). The resolution of a time against a line of chunks is a lemma (the samples after the position are those at or after the time), and so is each of resolving, draining, capping, finishing, trimming and evicting; the handlers compose them |
| `Agreed` | `VoiceSpec => []DetectorAgrees` | inductive with `VoiceInv`: a start leaves a turn open which has no end yet; a chunk keeps the end of the turn it extends or closes (`Follower`), so that a detector's turn can only close at the ring's length, as `"cut"` says, and is then the last one closed, without an end; whatever else ends a turn resets the detector, and a reset that fails leaves `"lost"`. The two exceptions are part of the property |

The voice node runs in the span loop, and its theorems stand in `ChunkProofs` with
those of the other span node.

### Danmaku buffer

| Theorem | States | Argument |
|---|---|---|
| `SpanFollowsBuffer` | `Spec => []BufferInv` | `DanmakuInv`: messages are numbered as they come, those in the buffer before those in the inbox (`IdPart`), so that `First` orders them strictly and takes no more than its limit; the buffer is a finite function (`ShapePart`), swept up to `clean`, which is behind the watermark only while the control queue is drained (`CleanPart`); `Sync` sets the span to the least stamp of what is left |
| `FreshReleases` | `Spec => ReleasesAreFresh` | a release takes place outside the drain, so `clean` is the watermark: `CleanPart` speaks of the batch, and `RingPart` of the stamp (what is in the ring is no older than `clean`, or was read late). The stamp is the maximum of the ring, or the watermark if it is empty; if it is void, so is all of the ring. No hypothesis on the stamps; the exception is the late acknowledgement of section 5 |

### Joint stream

| Theorem | States | Argument |
|---|---|---|
| `JointPumps` | `JointSpec => []PumpInv` | `JointInv`: the sentences in the input queue are in order, unbegun and newer than what has left (`InboxPart`); nothing is of a sentence that was not sent (`SentPart`); the sentence in `process()` is not void and its envelope is the open one (`HeldPart`); in a round each stream has given a chunk for every pack so far, one more if the round has come by it, or has ended, and the round goes through the streams in their order (`RoundPart`); at the close the streams of the mode's boundary are spent (`EndPart`) |
| `JointKeepsZip` | `JointSpec => KeepsZip` | the last take of a round emits the next pack by `RoundPart`: what the node remembers as the last chunk of a stream that has ended is all that it made, and the others stand at the pack's number; by `HeldPart` it goes into the open envelope of a sentence that is not void, and the close is `ChunkZip`'s by `EndPart`. Every other step only lets the world move: a pump that has ended makes no more, sentences are added, the watermark rises |

The two stand in `FrameProofs`, beside the proofs about the splitter that plays the
packs.

### Frame splitter

| Theorem | States | Argument |
|---|---|---|
| `SplitterInvariant`, `SplitterTypes` | `Spec => []FrameInv`, `Spec => []TypeOK` | before the clock starts nothing is played (`PausedPart`); what is played is not void (`FreshPart`); the buffer goes on where the output has stopped and reaches the message's last group (`RunPart`); a message begun is in the buffer with all that is left of it, or void (`UnfinishedPart`); stamps rise from output over buffer to input queue (`OrderPart`) |
| `RunsAreKept` | `Spec => KeepsRuns` | what a tick sends is the head of the buffer, which by `RunPart` and `FreshPart` may follow the output, or a default, for an empty buffer or a failed step, where by `UnfinishedPart` and `RunPart` a message begun is void or has come to its last group that can be rendered |

### Gateway

| Theorem | States | Argument |
|---|---|---|
| `OnePresentRelays` | `Spec => []OnlyThePresentRelays` | `RelayInv`: who works on an offer has the session lock, and fetches only while the table is empty (`LockPart`); from its creation to the end of its cleanup a session is in the table (`TablePart`); it is closed exactly when cleanup has begun (`StagePart`); the pipeline task exists only for an answered offer, which is not refused before cleanup is done (`LinkPart`); a WebSocket is set only by that task and gone before the session leaves the table (`SocketPart`); readiness, a place in the send lock's line and a packing assembler each imply it while the session is open (`SenderPart`) |
| `GatewayTypes` | `Spec => []TypeOK` | `RelayInv` and `SendInv`: each of the three writing tasks is in the send lock's line while it has something to send, once (`QueuePart`); nobody else is before `connection_start` (`StartPart`); direct messages are numbered as they arrive and written in that order (`DirectPart`) |
| `WireIsInOrder` | `CancelOffset <= 0` implies `Spec => []WireInOrder` | `StampPart`: no stamp is later than the clock, and none but a cancel's is earlier than one written. The offset is a signed trim of a cancel's stamp (`server_webrtc.py:115`, `:694`), 0 by default: a positive one stamps a cancel ahead of what follows it, and the order the property speaks of is then broken by configuration |
| `Together` | `LanesSpec => []LanesStayTogether` | `Lead(l)`: the beats until lane `l` is at its last frame, its next frame's beat plus a step for every further one. For some `r`, each lane's lead is at most `r` and less than it by no more than the lane's step (`InStep`), and a positive `r` ends on a beat of the consumer's clock (`Covered`): a beat lowers all of them by one, a frame taken changes none, a stand-in is taken only when `r` is 0, and a group, which comes only then, adds the whole period to all. Frames in proportion to the rates follow by multiplying out, with a handful of lemmas on products and remainders |

Why the strengthenings are needed: a property speaks of one place, and its reason
is elsewhere. `OnlyVoidedIsDropped` speaks of a drop at one node, while the cancel
that justifies it may have passed inbox, handler and control queue;
`KeepsTurnOrder` speaks of the client's end of the chain; `EndpointEndsItsOwn` of
an endpoint that captured its connection several awaits ago; `KeepsEnvelopes` of a
reply whose context was queued an unknown number of inputs earlier;
`ReleasesAreFresh` of a ring filled by other messages; `KeepsGroups` of a merge at
the receiver, whose answers were due at branches any number of queues earlier;
`KeepsZip` of a pack whose chunks were counted one stream at a time, in rounds that
cancels, ends and failures may cut short; `SegmentIsExact` of the last turn finished,
whose samples were told apart by a ring that may have dropped them since.

What proving changed in the models: `FrameSplitter`'s `Filled` had overlapping
guards in a `CASE` (a void message matched two arms), now a first test as in the
code; `LLMTurn`'s `SegmentMessages` and `DanmakuBuffer`'s ring sweep
(`Surviving`) are recursive functions and the counts of `Envelopes` and `ChunkZip`
cardinalities, each equal to what it replaces; so are `Bracket`'s `Copies`, which
reversed and filtered a sequence; `Bracket`, `ChunkSession` and `DanmakuBuffer` needed what they took for
granted, that `None` and `Kill` are no numbers and `Infinity` is not 0, and
`GroupDispatcher` that no lane is called `Consumer`. `VadSegment` took what it keeps of
the ring and of a turn's chunks by filtering; it takes a suffix, which is the same
for chunks that follow one another and can be reasoned about. Its `SegmentIsExact`
speaks of positions, so that each sample is there once by what it says, and `Nil` is
assumed to be no time, turn or segment. `VadNode` and `JointStream` have names of
their own for what other modules call `Init` or `Cancel`, as their proofs stand beside
another component's.

### Induction over data

The library's induction theorems take an operator, which the provers here cannot
instantiate. `TurnProofs`, `DanmakuProofs` and `BracketProofs` state what they need
with sets and functions instead: every set of naturals that is not empty has a least number
(`LeastNumber`, from well-foundedness), a set with 0 and with every successor has
all numbers (`SetInduction`), and a step function can be repeated (`Recursion`), so
that a recursive function is what its equation says; with them, what
`SegmentMessages`, `Surviving` and `Copies` compute is proved for every input. A
bounded set has a maximum (`MaxExists`, also in `FrameProofs`). `ChunkProofs` has the
least number (`MinIsLeast`), as the suffix of a ring begins at one. Each module has
its own copies, so that none depends on another component's.

### Only model-checked

Every liveness property: `CancelTakesEffect`, `TeardownCompletes`,
`RequestsAreAnswered`, `NodeReturns`, `EveryMessageLeaves`, `InputIsRead` and the
others of section 3. Fairness and `ENABLED` are out of the provers' reach. Each
invariant and each action property or refinement that a passing run checks is stated
by a theorem.

## 5. Findings

1. **`pipeline_tight`** With `max_queue_size` set on a node, an upstream node can
   wait in `put` on the queue of a node that has already obeyed its kill;
   `wait_for_threads` then never returns. No shipped configuration sets it.

### Observations

Behaviours met while modelling that no run is kept for: the code makes no promise
about them, or makes it in words a run would only repeat. The hazards without a
property refer to these.

* **A stale get** (`BaseProcessingStep.py:478`). The report says a node that
  dequeues a void message drops it because its watermark is current
  (`technical_report/main.tex:293`). The control queue is drained *before* the blocking `get`; a
  cancel that arrives during the get is not applied to the message it returns,
  which then enters `process()` and is stopped by the next poll (`WorkIsFresh`).
* **The history window** (`SimpleHistory.py:27`). `history_length` counts
  messages, and the comment at line 12 equates 20 messages with 10 turns; a tool
  turn has four, so the loaded window can start in the middle of one.
* **A cancelled motion is continued** (`MotionGenerationStep.py:339`). A pump
  stopped by a cancel is not joined (`JointStreamStep.py:70`). If its generator
  ends at that moment it still saves its motion in the shared caller, after the
  reset of the cancel, and the next turn's first request continues it. Keeping the
  history per stop event, or saving it in the node's thread, would close the gap.
* **A late acknowledgement** (`DanmakuBufferStep.py:111`). A `playback_complete`
  stamped before a cancel that the node has read enters the context ring behind the
  sweep; the entry exempts events from monotonic stamps. With nothing newer in the
  ring the next release carries the void stamp: released idle talk stamped 1, a
  cancel stamped 2, an acknowledgement stamped 1, and the next idle talk is stamped 1.
  The comment of lines 69-73 says that cancel evicts "so a batch can never be stamped
  into a cancelled turn". The nodes after it drop the release as void, and the node
  stays locked until the playback timeout. The `danmaku` run has the case, and
  `ReleasesAreFresh` says what holds: it takes a ring of nothing but late
  acknowledgements, and one context that is current prevents it.
* **Two releases of one stamp** (`DanmakuBufferStep.py:114`). Two releases can carry
  the same stamp, so a late acknowledgement of the first unlocks the second. A ring
  shorter than what is handled while a message is buffered can lose that message's
  stamp.
* **The lookback past a cancel** (`VADStep.py:217`). The chunk a cancel falls in
  enters the ring whole when it is heard after the cancel, although lines 48-49
  trim it when it was heard before. A reset whose create fails, or a session idle
  for thirty minutes, leaves a dead session id until the next manual turn or
  cancel. A streamed turn whose end is older than the audio already sent cannot be
  trimmed.
* **The end of a long utterance** (`VADStep.py:240`). A detector's turn that reaches
  the ring's length is force-ended, and nothing resets the detector: it stays in
  speech without a turn, and what is said until the next pause is lost. For a cancel
  of the turn `on_span_cancel` resets the detector for this very reason
  (`ServerVADStep.py:224-231`); of the forced end no comment speaks. `DetectorAgrees`
  names it as the one exception besides a failed request (`astray = "cut"`).
* **An old connection** (`server_webrtc.py:1059`). A connection of a session that
  was closed meanwhile may reach the main server while a new session exists; the
  gateway drops it at once, which is what `OnlyThePresentRelays` says. Stamps
  assume that `time.time()` does not step back.
* **Fillers from the future** (`server_webrtc.py:745`). The last
  frame is remembered on receipt, so a gap in an earlier window may be filled with
  a newer frame.

## 6. Not modelled, and why

* `pipeline validator`: pure checks of a configuration before anything runs; the
  runtime models take a validated one. Next in the plan.
* In the gateway: the group assembler's input windows, the compatibility checks of
  an offer, codecs and ICE. `GatewaySession` has the assembler as a sender only.
* In the splitter: numbering, rendering and resampling of frames; `FrameCollector`
  unpacks one message into one and keeps no state.
* In voice activity: resampling, WAV encoding, the detectors' arithmetic, and two
  clients on one session of the service.
* The media callers behind the nodes, recognition, retrieval and pad nodes: one
  request or computation per message; their control is the node loop.
* Standalone model services, web UI, configuration files: numeric code, pages and
  data without protocol state.
* Inside modelled parts: a crash during the write of the history file (no recovery
  is coded that a property could be about), an initializer abandoned by its
  timeout (nothing reads its state again), the entry blocked on a bounded first
  queue (stalls the whole loop, outside one client's runtime).

## 7. Plan

| # | Module | Status |
|---|---|---|
| 1 | `Pipeline`, `TurnStream` | modelled, checked, proved |
| 2 | `ClientLifecycle`, `RuntimeLease` | modelled, checked, safety proved |
| 3 | `LLMTurn`, `Transcript` | modelled, checked, safety proved |
| 4 | `Bracket`, `Gather` | modelled, checked, proved |
| 5 | `ChunkSession`, `Envelopes` | modelled, checked, safety proved |
| 6 | `JointStream`, `ChunkZip` | modelled, checked, safety proved |
| 7 | `DanmakuBuffer` | modelled, checked, safety proved |
| 8 | `VadSegment`, `VadNode` | modelled, checked, safety proved |
| 9 | `FrameSplitter` | modelled, checked, safety proved |
| 10 | `GatewaySession`, `GroupDispatcher` | modelled, checked; safety proved |
| 11 | `GroupAssembler` | the input windows, their overflow and the frames that fill a gap |
| 12 | `Contract` | the validator's operators against a reference definition |
