-------------------------------- MODULE LLMTurn --------------------------------
(***************************************************************************)
(* The language-model node: process() of OpenaiStep (and, with LoopNum = 1 *)
(* and no tools, of LLMStep), its cancel and event hooks, and SimpleHistory,*)
(* which buffers the turn and keeps the history file.                      *)
(*                                                                         *)
(* The node loop is that of module Pipeline, here with the hooks run by    *)
(* each control message.  The model's answer is a sequence of chunks: some *)
(* carry nothing, some a sentence, and a round may end in tool calls.  An  *)
(* API error ends the round (generate() swallows it).  A response id is    *)
(* the number of the turn, an item id the position of the sentence in it.  *)
(***************************************************************************)
EXTENDS Integers, SequencesExt

CONSTANTS
    Stamps,         \* turn timestamps
    Cancels,        \* stamps of cancels, as they leave the event handler
    Infinity,       \* the stamp of teardown's cancel
    UsesTools,      \* whether the caller offers tools
    LoopNum,        \* loop_num: rounds of generation per turn
    HistoryLength,  \* history_length: messages kept when the file is loaded
    MaxTurns,       \* bound: prompts the client sends
    MaxItems,       \* bound: sentences per turn
    MaxControls,    \* bound: control messages before teardown
    None

Turns == 1..MaxTurns

ASSUME LLMAssumption ==
    /\ Stamps \subseteq Nat /\ Cancels \subseteq Nat /\ Infinity \in Nat
    /\ \A t \in Stamps : t < Infinity
    /\ UsesTools \in BOOLEAN
    /\ LoopNum \in Nat \ {0} /\ HistoryLength \in Nat
    /\ MaxTurns \in Nat /\ MaxItems \in Nat /\ MaxControls \in Nat
    /\ None \notin Nat

Segment == [kind : {"item"}, item : 1..MaxItems] \cup [kind : {"tools"}, item : {0}]
Message == [role   : {"user", "assistant", "tool"},
            turn   : Turns,
            items  : Seq(1..MaxItems),   \* the sentences of an assistant message
            calls  : BOOLEAN,            \* whether it carries tool_calls
            marked : BOOLEAN]            \* whether it ends in the interruption marker
Control == [verb : {"cancel"}, ts : Cancels \cup {Infinity}]
           \cup [verb : {"kill"}]
           \cup [verb : {"report"}, turn : Turns, item : {None} \cup 0..MaxItems]

VARIABLES
    lastTs,      \* entry: the monotonicity gate
    prompts,     \* the node's input queue: stamps of prompts
    asked,       \* prompts sent
    control,     \* the node's control queue
    controls,    \* control messages sent
    pc,          \* "top", "get", "gen" (in the generator), "poll" or "exited"
    current,     \* current_timestamp
    watermark,   \* cancel_timestamp
    killed,
    voided,      \* hasCancel of the running poll
    pending,     \* the chunk the generator has just yielded
    round,       \* current_loop
    again,       \* ~already_end: the round ended in tool calls
    turn,        \* turns begun; the latest one's response_id
    segments,    \* _turn_segments
    span,        \* _turn_span
    loaded,      \* current_history
    file,        \* the history file
    repairable,  \* _last_turn
    sent,        \* history: sentences put on the output queue, per turn
    written      \* history: the turns that were committed

nodeVars == <<pc, current, watermark, killed, voided>>
genVars  == <<pending, round, again>>
harnessVars == <<segments, span, loaded, file, written>>
vars == <<lastTs, prompts, asked, control, controls, nodeVars, genVars, turn,
          harnessVars, repairable, sent>>

Init ==
    /\ lastTs = 0 /\ prompts = <<>> /\ asked = 0 /\ control = <<>> /\ controls = 0
    /\ pc = "top" /\ current = None /\ watermark = 0 /\ killed = FALSE /\ voided = FALSE
    /\ pending = None /\ round = 0 /\ again = FALSE
    /\ turn = 0 /\ segments = <<>> /\ span = None /\ loaded = <<>> /\ file = <<>>
    /\ repairable = None
    /\ sent = [t \in Turns |-> 0] /\ written = {}

-------------------------------------------------------------------------------
(* SimpleHistory.                                                          *)

User(t)              == [role |-> "user", turn |-> t, items |-> <<>>,
                         calls |-> FALSE, marked |-> FALSE]
Says(t, items, call) == [role |-> "assistant", turn |-> t, items |-> items,
                         calls |-> call, marked |-> FALSE]
Result(t)            == [role |-> "tool", turn |-> t, items |-> <<>>,
                         calls |-> FALSE, marked |-> FALSE]

\* A trailing assistant message that later text still joins.
OpenText(ms) == ms # <<>> /\ Last(ms).role = "assistant" /\ ~Last(ms).calls

\* Consecutive sentences merge; a tool round closes the message with its calls
\* and adds the results.
AddSegment(t, ms, seg) ==
    LET done == IF OpenText(ms) THEN Front(ms) ELSE ms
        text == IF OpenText(ms) THEN Last(ms).items ELSE <<>>
    IN  IF seg.kind = "item"
        THEN Append(done, Says(t, Append(text, seg.item), FALSE))
        ELSE done \o <<Says(t, text, TRUE), Result(t)>>

SegmentMessages(t, segs) ==
    LET upTo[n \in 0..Len(segs)] ==
          IF n = 0 THEN <<>> ELSE AddSegment(t, upTo[n - 1], segs[n])
    IN  upTo[Len(segs)]

Marked(t, ms) ==
    IF OpenText(ms)
    THEN Append(Front(ms), [Last(ms) EXCEPT !.marked = TRUE])
    ELSE Append(ms, [Says(t, <<>>, FALSE) EXCEPT !.marked = TRUE])

Block(t, segs, interrupted) ==
    LET ms == SegmentMessages(t, segs)
    IN  <<User(t)>> \o (IF interrupted THEN Marked(t, ms) ELSE ms)

\* history[-history_length:]; a length of 0 keeps everything.
Latest(h) ==
    IF Len(h) > HistoryLength /\ HistoryLength > 0
    THEN SubSeq(h, Len(h) - HistoryLength + 1, Len(h))
    ELSE h

Save(h) == loaded' = h /\ file' = h

Commit(interrupted) ==
    /\ span' = Len(loaded)
    /\ Save(loaded \o Block(turn, segments, interrupted))
    /\ written' = written \cup {turn}

\* The segments before the first sentence that was not kept.
Played(kept) ==
    LET cut == {i \in DOMAIN segments : segments[i].kind = "item" /\ segments[i].item > kept}
    IN  IF cut = {} THEN segments
        ELSE SubSeq(segments, 1, (CHOOSE i \in cut : \A j \in cut : i <= j) - 1)

\* Rebuilds on top of the coarse cut it should replace.
MutantRefine(kept) == Save(loaded \o Block(turn, Played(kept), TRUE))

Refine(kept) == Save(SubSeq(loaded, 1, span) \o Block(turn, Played(kept), TRUE))

-------------------------------------------------------------------------------
(* The client, and teardown.                                               *)

Prompt(t) ==
    /\ asked < MaxTurns /\ t >= lastTs
    /\ asked' = asked + 1 /\ lastTs' = t
    /\ prompts' = Append(prompts, t)
    /\ UNCHANGED <<control, controls, nodeVars, genVars, turn, harnessVars,
                   repairable, sent>>

Submit(c) ==
    /\ controls < MaxControls
    /\ controls' = controls + 1
    /\ control' = Append(control, c)
    /\ UNCHANGED <<lastTs, prompts, asked, nodeVars, genVars, turn, harnessVars,
                   repairable, sent>>

ClientCancel(c) == Submit([verb |-> "cancel", ts |-> c])

\* A report names a turn the client has seen and the sentence it was playing:
\* 0 for "none yet", None for a report without the field.
ClientReport(t, i) == t <= turn /\ Submit([verb |-> "report", turn |-> t, item |-> i])

\* cancel(inf), then kill; nothing follows.
Teardown ==
    /\ controls <= MaxControls
    /\ controls' = MaxControls + 1 /\ asked' = MaxTurns
    /\ control' = control \o <<[verb |-> "cancel", ts |-> Infinity], [verb |-> "kill"]>>
    /\ UNCHANGED <<lastTs, prompts, nodeVars, genVars, turn, harnessVars, repairable,
                   sent>>

-------------------------------------------------------------------------------
(* The control queue, drained at the top of the loop and in every poll.    *)

Larger(a, b) == IF a < b THEN b ELSE a

Read(verb) ==
    /\ pc \in {"top", "poll"} /\ control # <<>> /\ Head(control).verb = verb
    /\ control' = Tail(control)

Hits(ts) == current # None /\ current < Larger(watermark, ts)

\* Leaves the conclusion to the loop, as a hook that only invalidates would.
MutantCustomCancel == current' = None /\ UNCHANGED <<harnessVars, repairable>>

\* custom_cancel: commit what was sent, with the marker, and open the repair
\* window; current_timestamp None makes it happen once.
CustomCancel ==
    /\ IF segments # <<>>
       THEN Commit(TRUE) /\ repairable' = turn
       ELSE UNCHANGED <<harnessVars, repairable>>
    /\ UNCHANGED segments
    /\ current' = None

ReadCancel ==
    /\ Read("cancel")
    /\ LET ts == Head(control).ts IN
         /\ watermark' = Larger(watermark, ts)
         /\ IF Hits(ts)
            THEN voided' = TRUE /\ CustomCancel
            ELSE UNCHANGED <<voided, current, harnessVars, repairable>>
    /\ UNCHANGED <<lastTs, prompts, asked, controls, pc, killed, genVars, turn, sent>>

ReadKill ==
    /\ Read("kill")
    /\ killed' = TRUE
    /\ UNCHANGED <<lastTs, prompts, asked, controls, pc, current, watermark, voided,
                   genVars, turn, harnessVars, repairable, sent>>

\* The sentences before the reported one stay; an unknown sentence, a missing
\* field and a turn that is not the repairable one are ignored.
Sentences == {segments[i].item : i \in {j \in DOMAIN segments : segments[j].kind = "item"}}

MutantRepairs(e) == e.item \in Sentences \cup {0} /\ span # None   \* any turn's report
Repairs(e) == repairable = e.turn /\ e.item \in Sentences \cup {0} /\ span # None

ReadReport ==
    /\ Read("report")
    /\ IF Repairs(Head(control))
       THEN /\ Refine(Larger(Head(control).item - 1, 0))
            /\ repairable' = None
            /\ UNCHANGED <<segments, span, written>>
       ELSE UNCHANGED <<harnessVars, repairable>>
    /\ UNCHANGED <<lastTs, prompts, asked, controls, nodeVars, genVars, turn, sent>>

-------------------------------------------------------------------------------
(* The node loop around process().                                         *)

Drained(p) == pc = p /\ control = <<>>

Wait ==
    /\ Drained("top")
    /\ pc' = IF killed THEN "exited" ELSE "get"
    /\ UNCHANGED <<lastTs, prompts, asked, control, controls, current, watermark,
                   killed, voided, genVars, turn, harnessVars, repairable, sent>>

Timeout ==
    /\ pc = "get" /\ prompts = <<>>
    /\ pc' = "top"
    /\ UNCHANGED <<lastTs, prompts, asked, control, controls, current, watermark,
                   killed, voided, genVars, turn, harnessVars, repairable, sent>>

Discard ==
    /\ pc = "get" /\ prompts # <<>> /\ Head(prompts) < watermark
    /\ prompts' = Tail(prompts)
    /\ pc' = "top"
    /\ UNCHANGED <<lastTs, asked, control, controls, current, watermark, killed,
                   voided, genVars, turn, harnessVars, repairable, sent>>

\* process() up to its first round: the repair window closes, begin_turn loads
\* the history, SoS goes out.
Begin ==
    /\ pc = "get" /\ prompts # <<>> /\ Head(prompts) >= watermark
    /\ prompts' = Tail(prompts) /\ current' = Head(prompts)
    /\ turn' = turn + 1 /\ repairable' = None
    /\ loaded' = Latest(file) /\ segments' = <<>> /\ span' = None
    /\ round' = 1 /\ again' = FALSE /\ pending' = None
    /\ pc' = "gen"
    /\ UNCHANGED <<lastTs, asked, control, controls, watermark, killed, voided,
                   file, written, sent>>

\* The generator yields; the loop polls before it looks at the chunk.
Yield(kind) ==
    /\ pc = "gen" /\ ~again
    /\ kind = "item" => sent[turn] < MaxItems
    /\ kind = "tools" => UsesTools
    /\ pending' = kind
    /\ voided' = FALSE
    /\ pc' = "poll"
    /\ UNCHANGED <<lastTs, prompts, asked, control, controls, current, watermark,
                   killed, round, again, turn, harnessVars, repairable, sent>>

\* The hook has concluded the turn; process() leaves fast, without EoS.
Abort ==
    /\ Drained("poll") /\ (voided \/ killed)
    /\ current' = None /\ pending' = None /\ voided' = FALSE
    /\ pc' = "top"
    /\ UNCHANGED <<lastTs, prompts, asked, control, controls, watermark, killed,
                   round, again, turn, harnessVars, repairable, sent>>

Proceed == Drained("poll") /\ ~voided /\ ~killed /\ pending' = None /\ pc' = "gen"

\* A chunk with no content is recorded too.
MutantConsumeEmpty ==
    /\ Proceed /\ pending = "empty"
    /\ segments' = Append(segments, [kind |-> "empty", item |-> 0])
    /\ UNCHANGED <<lastTs, prompts, asked, control, controls, current, watermark,
                   killed, voided, round, again, turn, span, loaded, file, written,
                   repairable, sent>>

ConsumeEmpty ==
    /\ Proceed /\ pending = "empty"
    /\ UNCHANGED <<lastTs, prompts, asked, control, controls, current, watermark,
                   killed, voided, round, again, turn, harnessVars, repairable, sent>>

\* A sentence is recorded and sent.
ConsumeItem ==
    /\ Proceed /\ pending = "item"
    /\ segments' = Append(segments, [kind |-> "item", item |-> sent[turn] + 1])
    /\ sent' = [sent EXCEPT ![turn] = @ + 1]
    /\ UNCHANGED <<lastTs, prompts, asked, control, controls, current, watermark,
                   killed, voided, round, again, turn, span, loaded, file, written,
                   repairable>>

\* Tool calls end the round and ask for another.
ConsumeTools ==
    /\ Proceed /\ pending = "tools"
    /\ segments' = Append(segments, [kind |-> "tools", item |-> 0])
    /\ again' = TRUE
    /\ UNCHANGED <<lastTs, prompts, asked, control, controls, current, watermark,
                   killed, voided, round, turn, span, loaded, file, written,
                   repairable, sent>>

NextRound ==
    /\ pc = "gen" /\ again /\ round < LoopNum
    /\ round' = round + 1 /\ again' = FALSE
    /\ UNCHANGED <<lastTs, prompts, asked, control, controls, nodeVars, pending, turn,
                   harnessVars, repairable, sent>>

\* Natural completion: EoS, then the turn's one history entry.
Finish ==
    /\ pc = "gen" /\ (again => round = LoopNum)
    /\ Commit(FALSE)
    /\ repairable' = turn
    /\ current' = None
    /\ pc' = "top"
    /\ UNCHANGED <<lastTs, prompts, asked, control, controls, watermark, killed,
                   voided, genVars, turn, segments, sent>>

-------------------------------------------------------------------------------
Client ==
    \/ \E t \in Stamps : Prompt(t)
    \/ \E c \in Cancels : ClientCancel(c)
    \/ \E t \in Turns, i \in {None} \cup 0..MaxItems : ClientReport(t, i)
    \/ Teardown

Node ==
    \/ ReadCancel \/ ReadKill \/ ReadReport
    \/ Wait \/ Timeout \/ Discard \/ Begin
    \/ \E kind \in {"empty", "item", "tools"} : Yield(kind)
    \/ Abort \/ ConsumeEmpty \/ ConsumeItem \/ ConsumeTools \/ NextRound \/ Finish

Next == Client \/ Node

Spec == Init /\ [][Next]_vars

-------------------------------------------------------------------------------
TypeOK ==
    /\ lastTs \in Nat /\ prompts \in Seq(Stamps) /\ asked \in Nat
    /\ control \in Seq(Control) /\ controls \in Nat
    /\ pc \in {"top", "get", "gen", "poll", "exited"}
    /\ current \in Stamps \cup {None} /\ watermark \in Nat
    /\ killed \in BOOLEAN /\ voided \in BOOLEAN
    /\ pending \in {None, "empty", "item", "tools"}
    /\ round \in 0..LoopNum /\ again \in BOOLEAN
    /\ turn \in 0..MaxTurns
    /\ segments \in Seq(Segment) /\ span \in Nat \cup {None}
    /\ loaded \in Seq(Message) /\ file \in Seq(Message)
    /\ repairable \in Turns \cup {None}
    /\ sent \in [Turns -> Nat] /\ written \in SUBSET Turns

\* The history keeps the transcript's promise: every turn is written once, with
\* what the client was sent, whichever way it ended; a playback report repairs
\* only the newest turn, once, and only shortens it.
Told(t) == UNION {ToSet(file[i].items) : i \in {j \in DOMAIN file : file[j].turn = t}}

History == INSTANCE Transcript WITH
    told       <- [t \in Turns |-> Told(t)],
    repairable <- IF repairable = None THEN {} ELSE {repairable}

KeepsTranscript == History!Spec

\* Between turns, and when the thread ends, the newest turn is in the history if
\* any sentence of it was sent: no interruption, however timed, makes the model
\* forget what it said.
NothingSentIsForgotten ==
    (pc \in {"top", "get", "exited"} /\ turn > 0 /\ sent[turn] > 0) => turn \in written

\* The interruption marker closes its turn: nothing of the turn follows it, also
\* when a playback report has replaced the cut made at cancel time.
MarkerEndsItsTurn ==
    \A i \in DOMAIN file :
        file[i].marked => (i = Len(file) \/ file[i + 1].turn # file[i].turn)
===============================================================================
