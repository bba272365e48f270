-------------------------------- MODULE Bracket --------------------------------
(***************************************************************************)
(* A parallel region: DispatcherStep, its branch nodes and ReceiverStep,    *)
(* linearised as consecutive nodes of the chain (dispatcher 0, branches     *)
(* 1..Branches, receiver Branches + 1), each with its input queue, its      *)
(* control queue and the node loop of module Pipeline.                      *)
(*                                                                         *)
(* The dispatcher and the receiver do not poll inside process(), so one     *)
(* message is one step of theirs.  A branch works on its message for any    *)
(* time, polls, and answers, or ends without an answer: process() raised,   *)
(* or the branch had nothing to say.  Stamps enter in order (theorem        *)
(* TurnOrder of the chain before the dispatcher).                           *)
(***************************************************************************)
EXTENDS Integers, FiniteSets, SequencesExt

CONSTANTS
    Branches,    \* number of branches
    Subscribed,  \* dispatch_signals: the branches the caught signal is copied to
    Stamps,      \* turn timestamps
    Cancels,     \* stamps of cancels, as they leave the event handler
    MaxInputs,   \* bound: messages that enter the region
    MaxCancels,  \* bound: cancels
    None

Receiver == Branches + 1
Branch   == 1..Branches
Nodes    == 0..Receiver
Inside   == 1..Receiver
Ids      == 1..MaxInputs

\* "data" is content for dest; "signal" a caught signal; "answer" a branch's
\* output; "start" and "end" are dispatch_start and dispatch_end.
Message == [kind : {"data", "signal", "answer", "start", "end"},
            dest : Inside, id : Ids, from : {None} \cup Branch, ts : Stamps]

\* What the receiver has collected since dispatch_start.
Group == [id : Ids, answers : SUBSET (Ids \X Branch)]

ASSUME BracketAssumption ==
    /\ Branches \in Nat \ {0} /\ Subscribed \subseteq Branch
    /\ Stamps \subseteq Nat /\ Cancels \subseteq Nat
    /\ MaxInputs \in Nat /\ MaxCancels \in Nat
    /\ None \notin Nat \cup Message \cup Group

VARIABLES
    entered,    \* the kinds of the messages that have entered, in order
    stamp,      \* the stamp of each
    spread,     \* the cancel being copied to the control queues and where next
    cancels,    \* cancels submitted
    inbox,      \* inbox[n]: the input queue of a branch or of the receiver
    control,    \* control[n]: its control queue
    watermark,  \* watermark[n]: cancel_timestamp
    waiting,    \* the nodes that have drained their control queue and wait in get
    working,    \* working[n]: the message a branch is processing
    group,      \* the receiver's current_group
    current,    \* the receiver's current_timestamp: the span's stamp
    silent,     \* history: the messages a branch ended without an answer
    left        \* what the receiver has put on its output queue

entryVars    == <<entered, stamp>>
handlerVars  == <<spread, cancels>>
branchVars   == <<working, silent>>
receiverVars == <<group, current, left>>
vars == <<entryVars, handlerVars, inbox, control, watermark, waiting, branchVars,
          receiverVars>>

Idle == [ts |-> 0, next |-> Receiver + 1]    \* the event handler waits

Init ==
    /\ entered = <<>> /\ stamp = <<>> /\ spread = Idle /\ cancels = 0
    /\ inbox = [n \in Inside |-> <<>>] /\ control = [n \in Nodes |-> <<>>]
    /\ watermark = [n \in Nodes |-> 0] /\ waiting = Nodes /\ working = [n \in Branch |-> None]
    /\ group = None /\ current = None /\ silent = {} /\ left = <<>>

-------------------------------------------------------------------------------
(* The event handler.                                                       *)

Cancel(c) ==
    /\ cancels < MaxCancels /\ spread.next > Receiver
    /\ cancels' = cancels + 1
    /\ spread' = [ts |-> c, next |-> 0]
    /\ UNCHANGED <<entryVars, inbox, control, watermark, waiting, branchVars, receiverVars>>

HandlerPut ==
    /\ spread.next \in Nodes
    /\ control' = [control EXCEPT ![spread.next] = Append(@, spread.ts)]
    /\ spread' = [spread EXCEPT !.next = @ + 1]
    /\ UNCHANGED <<entryVars, cancels, inbox, watermark, waiting, branchVars, receiverVars>>

-------------------------------------------------------------------------------
(* The node loop.                                                           *)

Larger(a, b) == IF a < b THEN b ELSE a

\* The top of the loop: a drain that finds nothing goes straight on to the
\* blocking get, and a cancel that comes during the get is read after it.
Loop(n) == waiting' = IF control'[n] = <<>> THEN waiting \cup {n} ELSE waiting \ {n}

\* A drain at the top of the loop (also when get has timed out), or a poll of a
\* branch at work: the cancel voids the message at work or the open group if that
\* is older.
ReadCancel(n) ==
    /\ n \in waiting /\ n # 0 => inbox[n] = <<>>
    /\ control[n] # <<>>
    /\ control' = [control EXCEPT ![n] = Tail(@)]
    /\ LET w == Larger(watermark[n], Head(control[n])) IN
         /\ watermark' = [watermark EXCEPT ![n] = w]
         /\ IF n \in Branch /\ working[n] # None /\ working[n].ts < w
            THEN working' = [working EXCEPT ![n] = None]
            ELSE UNCHANGED working
         /\ IF n = Receiver /\ current # None /\ current < w
            THEN group' = None /\ current' = None
            ELSE UNCHANGED <<group, current>>
    /\ IF n \in Branch /\ working'[n] # None THEN UNCHANGED waiting ELSE Loop(n)
    /\ UNCHANGED <<entryVars, handlerVars, inbox, silent, left>>

Got(n) == Head(inbox[n])

Has(n) == n \in waiting /\ n # 0 /\ inbox[n] # <<>>

Mine(n) == Has(n) /\ Got(n).dest = n /\ Got(n).ts >= watermark[n]

\* A message for a node further on is forwarded as it is.
Forwarded(m) == m

\* The node takes its message; what it emits goes to the next node.
Take(n, emitted) ==
    /\ inbox' = IF n = Receiver
                THEN [inbox EXCEPT ![n] = Tail(@)]
                ELSE [inbox EXCEPT ![n] = Tail(@), ![n + 1] = @ \o emitted]
    /\ UNCHANGED <<entryVars, handlerVars, control, watermark>>

Consume(n, emitted) == Take(n, emitted) /\ Loop(n)

\* Forwarding does not look at the stamp.
Forward(n) ==
    /\ Has(n) /\ Got(n).dest # n
    /\ Consume(n, <<Forwarded(Got(n))>>)
    /\ UNCHANGED <<branchVars, receiverVars>>

Discard(n) ==
    /\ Has(n) /\ Got(n).dest = n /\ Got(n).ts < watermark[n]
    /\ Consume(n, <<>>)
    /\ UNCHANGED <<branchVars, receiverVars>>

-------------------------------------------------------------------------------
(* DispatcherStep.  Its input queue is left to its environment: a message    *)
(* that waits there does so unseen, so it enters when the dispatcher gets it.*)

Directed(kind, dest, m, from) ==
    [kind |-> kind, dest |-> dest, id |-> m.id, from |-> from, ts |-> m.ts]

\* The first branch first.
MutantCopies(kind, to, m) ==
    LET upTo[b \in 0..Branches] ==
          IF b = 0 THEN <<>>
          ELSE IF b \in to THEN Append(upTo[b - 1], Directed(kind, b, m, None))
          ELSE upTo[b - 1]
    IN  upTo[Branches]

\* Copies for the branches, the last branch first.
Copies(kind, to, m) ==
    LET downFrom[b \in 0..Branches] ==
          IF b = 0 THEN <<>>
          ELSE IF b \in to THEN <<Directed(kind, b, m, None)>> \o downFrom[b - 1]
          ELSE downFrom[b - 1]
    IN  downFrom[Branches]

\* dispatch_end overtakes the branch messages.
MutantDispatched(m) ==
    <<Directed("start", Receiver, m, None), Directed("end", Receiver, m, None)>>
        \o Copies("data", Branch, m)

Dispatched(m) ==
    <<Directed("start", Receiver, m, None)>>
        \o Copies("data", Branch, m)
        \o <<Directed("end", Receiver, m, None)>>

\* A caught signal: copies for its branches, then the relay, to the receiver.
DispatchedSignal(m) ==
    Append(Copies("signal", Subscribed, m), Directed("signal", Receiver, m, None))

Enter(kind, t) ==
    /\ Len(entered) < MaxInputs /\ 0 \in waiting
    /\ stamp # <<>> => t >= Last(stamp)
    /\ entered' = Append(entered, kind) /\ stamp' = Append(stamp, t)
    /\ LET m == [id |-> Len(entered) + 1, ts |-> t] IN
         IF t < watermark[0] THEN UNCHANGED inbox
         ELSE inbox' = [inbox EXCEPT ![1] =
                          @ \o (IF kind = "data" THEN Dispatched(m) ELSE DispatchedSignal(m))]
    /\ UNCHANGED <<handlerVars, control, watermark, branchVars, receiverVars>>
    /\ Loop(0)

-------------------------------------------------------------------------------
(* The branches.                                                            *)

Begin(b) ==
    /\ Mine(b) /\ Got(b).kind = "data"
    /\ working' = [working EXCEPT ![b] = Got(b)]
    /\ Take(b, <<>>) /\ waiting' = waiting \ {b}
    /\ UNCHANGED <<silent, receiverVars>>

CatchSignal(b) ==
    /\ Mine(b) /\ Got(b).kind = "signal"
    /\ Consume(b, <<>>)
    /\ UNCHANGED <<branchVars, receiverVars>>

Answer(b) ==
    /\ working[b] # None
    /\ inbox' = [inbox EXCEPT ![b + 1] =
                   Append(@, Directed("answer", Receiver, working[b], b))]
    /\ working' = [working EXCEPT ![b] = None]
    /\ UNCHANGED <<entryVars, handlerVars, control, watermark, silent, receiverVars>>
    /\ Loop(b)

\* process() raised, or there was nothing to say; the loop goes on.
SayNothing(b) ==
    /\ working[b] # None
    /\ working' = [working EXCEPT ![b] = None]
    /\ silent' = silent \cup {working[b].id}
    /\ UNCHANGED <<entryVars, handlerVars, inbox, control, watermark, receiverVars>>
    /\ Loop(b)

-------------------------------------------------------------------------------
(* ReceiverStep.                                                            *)

Arrived(kind) == Mine(Receiver) /\ Got(Receiver).kind = kind /\ Consume(Receiver, <<>>)

\* A group left open is replaced.
Open ==
    /\ Arrived("start")
    /\ group' = [id |-> Got(Receiver).id, answers |-> {}]
    /\ current' = Got(Receiver).ts
    /\ UNCHANGED <<branchVars, left>>

Leaves(id, answers) == left' = Append(left, [id |-> id, answers |-> answers])

\* Outside a group an answer is forwarded as it is: it leaves as no message (0).
Collect ==
    /\ Arrived("answer")
    /\ LET answer == <<Got(Receiver).id, Got(Receiver).from>> IN
         IF group # None
         THEN group' = [group EXCEPT !.answers = @ \cup {answer}] /\ UNCHANGED left
         ELSE Leaves(0, {answer}) /\ UNCHANGED group
    /\ UNCHANGED <<branchVars, current>>

\* Takes a group without answers for no group.
MutantMerge ==
    /\ Arrived("end")
    /\ IF group # None /\ group.answers # {} THEN Leaves(group.id, group.answers) ELSE UNCHANGED left
    /\ group' = None
    /\ current' = IF group # None THEN None ELSE current
    /\ UNCHANGED branchVars

\* dispatch_end merges the group, or is ignored when there is none.
Merge ==
    /\ Arrived("end")
    /\ IF group # None THEN Leaves(group.id, group.answers) ELSE UNCHANGED left
    /\ group' = None
    /\ current' = IF group # None THEN None ELSE current
    /\ UNCHANGED branchVars

PassSignal ==
    /\ Arrived("signal")
    /\ Leaves(Got(Receiver).id, {})
    /\ UNCHANGED <<branchVars, group, current>>

-------------------------------------------------------------------------------
Step(n) ==
    \/ ReadCancel(n) \/ Forward(n) \/ Discard(n)
    \/ n \in Branch /\ (Begin(n) \/ CatchSignal(n) \/ Answer(n) \/ SayNothing(n))
    \/ n = Receiver /\ (Open \/ Collect \/ Merge \/ PassSignal)

Next ==
    \/ \E kind \in {"data", "signal"}, t \in Stamps : Enter(kind, t)
    \/ \E c \in Cancels : Cancel(c)
    \/ HandlerPut
    \/ \E n \in Nodes : Step(n)

Spec == Init /\ [][Next]_vars

-------------------------------------------------------------------------------
TypeOK ==
    /\ entered \in Seq({"data", "signal"}) /\ stamp \in Seq(Stamps)
    /\ Len(stamp) = Len(entered) /\ Len(entered) <= MaxInputs
    /\ spread \in [ts : Nat, next : Nodes \cup {Receiver + 1}] /\ cancels \in Nat
    /\ inbox \in [Inside -> Seq(Message)] /\ control \in [Nodes -> Seq(Cancels)]
    /\ watermark \in [Nodes -> Nat] /\ waiting \in SUBSET Nodes
    /\ working \in [Branch -> {None} \cup Message]
    /\ group \in {None} \cup Group
    /\ current \in {None} \cup Stamps
    /\ silent \in SUBSET Ids
    /\ left \in Seq([id : {0} \cup Ids, answers : SUBSET (Ids \X Branch)])

\* A message some node has learnt to be void.
Voided(i) == \E n \in Nodes : stamp[i] < watermark[n]

\* The region keeps the promise of Gather: groups never interleave, each leaves
\* once and in order, whole unless a cancel voids it or a branch was silent, and
\* no answer leaves outside its group.
Region == INSTANCE Gather WITH
    asked   <- [i \in DOMAIN entered |-> IF entered[i] = "data" THEN Branch ELSE {}],
    excused <- {i \in DOMAIN entered : Voided(i)} \cup silent

KeepsGroups == Region!Spec

\* The branches work in parallel: when a branch has a message's copy before it
\* or in hand, no copy of that message for a later branch is behind it.
NoBranchWaits ==
    \A b \in Branch : \A i \in DOMAIN inbox[b] :
        LET m == inbox[b][i] IN
        (m.kind = "data" /\ m.dest > b) =>
            /\ \A j \in 1..(i - 1) : inbox[b][j].kind = "data" /\ inbox[b][j].dest = b
                                     => inbox[b][j].id # m.id
            /\ working[b] # None => working[b].id # m.id

\* The invariant of the region: types, and branches that work in parallel.
RegionInv == TypeOK /\ NoBranchWaits

\* When the region is at rest, every message that entered has left unless it is
\* voided: neither a silent branch nor a group without answers loses one.
AtRest  == (\A n \in Inside : inbox[n] = <<>>) /\ (\A b \in Branch : working[b] = None)
Gone(i) == Voided(i) \/ \E k \in DOMAIN left : left[k].id = i

NothingIsLost == AtRest => \A i \in DOMAIN entered : Gone(i)
===============================================================================
