---------------------------- MODULE GatewaySession ----------------------------
(* The sessions that the WebRTC gateway opens for one client: the offer that *)
(* creates a session under the client's lock, the task that connects it to   *)
(* the pipeline's WebSocket, the tasks that write to that WebSocket, and the *)
(* cleanup that any of them may call (server_webrtc.py).  The event loop     *)
(* runs one task at a time: an action is what a task does between two awaits.*)
(* A session has the name of the offer that creates it.                      *)
EXTENDS Naturals, Integers, Sequences, SequencesExt

CONSTANTS
    Offers,        \* POST /offer requests of one client
    None,
    Cancels,       \* which of the client's direct messages are cancels
    CancelOffset,  \* added to the stamp of a cancel
    MaxMessages,   \* bound: direct messages and media groups, of all sessions
    MaxTime        \* bound: the clock

ASSUME OfferAssumption == None \notin Offers
ASSUME CancelAssumption == Cancels \subseteq 1..MaxMessages /\ CancelOffset \in Int
ASSUME BoundAssumption == MaxMessages \in Nat /\ MaxTime \in Nat

VARIABLES
    now,        \* time.time()
    lockQ,      \* session_lock: the offer that holds it, and those that wait
    present,    \* sessions[client_id]
    offer,      \* how far each request is
    closed,     \* _closed
    stage,      \* how far cleanup() is
    ws,         \* self.ws is set
    ready,      \* ws_ready
    link,       \* the _pipeline_session task
    arrived,    \* direct messages received
    pending,    \* _forward_dc_message tasks, in the order of _direct_send_lock
    direct,     \* the first of them: "idle" before it wants the send lock
    assembler,  \* the _group_assembler task
    groups,     \* groups assembled
    sendQ,      \* _pipeline_send_lock: its holder and those that wait
    stamp,      \* the stamp its holder has taken, None before
    wire        \* what went out on the WebSocket

offerVars  == <<lockQ, present, offer>>
endVars    == <<closed, stage>>
linkVars   == <<ws, ready, link>>
directVars == <<arrived, pending, direct>>
groupVars  == <<assembler, groups>>
sendVars   == <<sendQ, stamp, wire>>
vars == <<now, offerVars, endVars, linkVars, directVars, groupVars, sendVars>>

Senders == {"start", "direct", "group"}

Init ==
    /\ now = 0
    /\ lockQ = <<>> /\ present = None
    /\ offer = [s \in Offers |-> "new"]
    /\ closed = [s \in Offers |-> FALSE]
    /\ stage = [s \in Offers |-> "open"]
    /\ ws = [s \in Offers |-> FALSE]
    /\ ready = [s \in Offers |-> FALSE]
    /\ link = [s \in Offers |-> "none"]
    /\ arrived = 0
    /\ pending = [s \in Offers |-> <<>>]
    /\ direct = [s \in Offers |-> "idle"]
    /\ assembler = [s \in Offers |-> "none"]
    /\ groups = 0
    /\ sendQ = [s \in Offers |-> <<>>]
    /\ stamp = [s \in Offers |-> None]
    /\ wire = [s \in Offers |-> <<>>]

Tick ==
    /\ now < MaxTime
    /\ now' = now + 1
    /\ UNCHANGED <<offerVars, endVars, linkVars, directVars, groupVars, sendVars>>

-------------------------------------------------------------------------------
(* cleanup(): whoever calls it first runs it, the others wait for its end.   *)

\* The caller closes the session and cancels the assembler, which lets go of
\* the send lock; then it awaits the close of the WebSocket, if it is open.
Cleanup(s, open) ==
    IF closed[s] THEN UNCHANGED <<endVars, ready, assembler, sendQ, stamp>>
    ELSE /\ closed' = [closed EXCEPT ![s] = TRUE]
         /\ stage' = [stage EXCEPT ![s] = IF open THEN "socket" ELSE "peer"]
         /\ ready' = [ready EXCEPT ![s] = open /\ @]
         /\ assembler' = [assembler EXCEPT ![s] = "stopped"]
         /\ sendQ' = [sendQ EXCEPT ![s] = RemoveFirst(@, "group")]
         /\ stamp' = [stamp EXCEPT ![s] =
                         IF sendQ[s] # <<>> /\ Head(sendQ[s]) = "group" THEN None ELSE @]

\* The pipeline WebSocket is closed.
CloseSocket(s) ==
    /\ stage[s] = "socket"
    /\ stage' = [stage EXCEPT ![s] = "peer"]
    /\ ws' = [ws EXCEPT ![s] = FALSE]
    /\ ready' = [ready EXCEPT ![s] = FALSE]
    /\ UNCHANGED <<now, offerVars, closed, link, directVars, groupVars, sendVars>>

\* The peer connection is closed and the server forgets this session, and this
\* one only.
ClosePeer(s) ==
    /\ stage[s] = "peer"
    /\ stage' = [stage EXCEPT ![s] = "done"]
    /\ present' = IF present = s THEN None ELSE present
    /\ UNCHANGED <<now, lockQ, offer, closed, linkVars, directVars, groupVars,
                   sendVars>>

\* The peer connection fails, or a lane of input overflows.
Abort(s) ==
    /\ offer[s] \in {"waiting", "accepted"} /\ ~closed[s]
    /\ Cleanup(s, ws[s])
    /\ UNCHANGED <<now, offerVars, ws, link, directVars, groups, wire>>

-------------------------------------------------------------------------------
(* handle_offer, _create_session and WebRTCSession.handle_offer.             *)

Request(s) ==
    /\ offer[s] = "new"
    /\ offer' = [offer EXCEPT ![s] = "queued"]
    /\ lockQ' = Append(lockQ, s)
    /\ UNCHANGED <<now, present, endVars, linkVars, directVars, groupVars, sendVars>>

Holds(s, at) == offer[s] = at /\ Head(lockQ) = s

Refused(s) ==
    /\ offer' = [offer EXCEPT ![s] = "refused"]
    /\ lockQ' = Tail(lockQ)

\* A second session of a client is refused.
Enter(s) ==
    /\ Holds(s, "queued")
    /\ IF present # None THEN Refused(s)
       ELSE offer' = [offer EXCEPT ![s] = "fetching"] /\ lockQ' = lockQ
    /\ UNCHANGED <<now, present, endVars, linkVars, directVars, groupVars, sendVars>>

\* The pipeline's configuration does not arrive or does not fit the offer.
Reject(s) ==
    /\ Holds(s, "fetching")
    /\ Refused(s)
    /\ UNCHANGED <<now, present, endVars, linkVars, directVars, groupVars, sendVars>>

\* The session enters the table; its assembler waits for ws_ready.
Create(s) ==
    /\ Holds(s, "fetching")
    /\ present' = s
    /\ offer' = [offer EXCEPT ![s] = "answering"]
    /\ assembler' = [assembler EXCEPT ![s] = "waiting"]
    /\ UNCHANGED <<now, lockQ, endVars, linkVars, directVars, groups, sendVars>>

\* The descriptions are set, or refused; then the pipeline task starts and the
\* offer waits for it.
Answer(s) ==
    /\ Holds(s, "answering")
    /\ \/ /\ offer' = [offer EXCEPT ![s] = "waiting"]
          /\ link' = [link EXCEPT ![s] = "connecting"]
       \/ offer' = [offer EXCEPT ![s] = "failing"] /\ link' = link
    /\ UNCHANGED <<now, lockQ, present, endVars, ws, ready, directVars, groupVars,
                   sendVars>>

\* _wait_for_pipeline_ready returns; the answer goes to the client.
Accept(s) ==
    /\ Holds(s, "waiting") /\ ready[s] /\ ~closed[s]
    /\ offer' = [offer EXCEPT ![s] = "accepted"]
    /\ lockQ' = Tail(lockQ)
    /\ UNCHANGED <<now, present, endVars, linkVars, directVars, groupVars, sendVars>>

\* A refused offer leaves its session to whoever ends it.
MutantFail(s) ==
    /\ Holds(s, "failing") \/ (Holds(s, "waiting") /\ closed[s])
    /\ Refused(s)
    /\ UNCHANGED <<now, present, endVars, linkVars, directVars, groupVars, sendVars>>

\* A failed offer cleans up before it is refused.
Fail(s) ==
    /\ Holds(s, "failing") \/ (Holds(s, "waiting") /\ closed[s])
    /\ IF stage[s] = "done" THEN Refused(s)
       ELSE offer' = [offer EXCEPT ![s] = "failing"] /\ lockQ' = lockQ
    /\ Cleanup(s, ws[s])
    /\ UNCHANGED <<now, present, ws, link, directVars, groups, wire>>

-------------------------------------------------------------------------------
(* _pipeline_send_lock: one message is stamped and written at a time.        *)

Queued(s, w) == sendQ' = [sendQ EXCEPT ![s] = Append(@, w)]

Sends(s, w) == sendQ[s] # <<>> /\ Head(sendQ[s]) = w

\* The holder lets the lock go.
Released(s) ==
    /\ sendQ' = [sendQ EXCEPT ![s] = Tail(@)]
    /\ stamp' = [stamp EXCEPT ![s] = None]

\* The message a holder sends: a cancel's stamp may be trimmed.
Message(s, w) ==
    [kind |-> w, n |-> IF w = "direct" THEN Head(pending[s]) ELSE 0]

Trimmed(s, w) ==
    IF w = "direct" /\ Head(pending[s]) \in Cancels THEN now + CancelOffset ELSE now

\* Under the lock an open session's message is stamped.
Stamp(s) ==
    /\ sendQ[s] # <<>> /\ stamp[s] = None /\ ~closed[s]
    /\ stamp' = [stamp EXCEPT ![s] = Trimmed(s, Head(sendQ[s]))]
    /\ UNCHANGED <<now, offerVars, endVars, linkVars, directVars, groupVars, sendQ,
                   wire>>

Written(s, w) ==
    wire' = [wire EXCEPT ![s] = Append(@, [msg |-> Message(s, w), ts |-> stamp[s]])]

\* A sender has its message stamped; if the socket is still open it goes out.
Transmitted(s, w) == Sends(s, w) /\ stamp[s] # None /\ ws[s] /\ Written(s, w)

\* A closed session sends nothing; a write may fail when the peer is gone.
NotSent(s, w) ==
    /\ Sends(s, w)
    /\ (stamp[s] = None) => closed[s]
    /\ wire' = wire

-------------------------------------------------------------------------------
(* _pipeline_session.                                                        *)

\* The readiness is announced before connection_start is sent.
MutantConnect(s) ==
    /\ link[s] = "connecting"
    /\ IF closed[s] THEN link' = [link EXCEPT ![s] = "leaving"] /\ UNCHANGED <<ws, ready, sendQ>>
       ELSE /\ ws' = [ws EXCEPT ![s] = TRUE]
            /\ ready' = [ready EXCEPT ![s] = TRUE]
            /\ link' = [link EXCEPT ![s] = "starting"]
            /\ Queued(s, "start")
    /\ UNCHANGED <<now, offerVars, endVars, directVars, groupVars, stamp, wire>>

\* The session may have ended while the connection was made.
MutantConnected(s) ==
    /\ link[s] = "connecting"
    /\ ws' = [ws EXCEPT ![s] = TRUE]
    /\ link' = [link EXCEPT ![s] = "starting"]
    /\ Queued(s, "start")
    /\ UNCHANGED <<now, offerVars, endVars, ready, directVars, groupVars, stamp, wire>>

\* A session that ended while the connection was made does not take it.
Connect(s) ==
    /\ link[s] = "connecting"
    /\ IF closed[s] THEN link' = [link EXCEPT ![s] = "leaving"] /\ UNCHANGED <<ws, sendQ>>
       ELSE /\ ws' = [ws EXCEPT ![s] = TRUE]
            /\ link' = [link EXCEPT ![s] = "starting"]
            /\ Queued(s, "start")
    /\ UNCHANGED <<now, offerVars, endVars, ready, directVars, groupVars, stamp, wire>>

\* connection_start is out: the waiters may send.  A session closed meanwhile takes
\* the event back: only after the socket's own close, but who reads the event also
\* checks _closed.
Started(s) ==
    /\ Transmitted(s, "start")
    /\ Released(s)
    /\ ready' = [ready EXCEPT ![s] = ~closed[s]]
    /\ link' = [link EXCEPT ![s] = IF closed[s] THEN "leaving" ELSE "relaying"]
    /\ UNCHANGED <<now, offerVars, endVars, ws, directVars, groupVars>>

NotStarted(s) ==
    /\ NotSent(s, "start")
    /\ Released(s)
    /\ link' = [link EXCEPT ![s] = "leaving"]
    /\ UNCHANGED <<now, offerVars, endVars, ws, ready, directVars, groupVars>>

\* The connection is refused, or the relay ends: a timeout, an error, a close.
Lose(s) ==
    /\ link[s] \in {"connecting", "relaying"}
    /\ link' = [link EXCEPT ![s] = "leaving"]
    /\ UNCHANGED <<now, offerVars, endVars, ws, ready, directVars, groupVars, sendVars>>

\* The task forgets the WebSocket and calls cleanup(), which closes the session
\* before it awaits anything.
Leave(s) ==
    /\ link[s] = "leaving"
    /\ link' = [link EXCEPT ![s] = "ending"]
    /\ ws' = [ws EXCEPT ![s] = FALSE]
    /\ IF closed[s]
       THEN /\ ready' = [ready EXCEPT ![s] = FALSE]
            /\ UNCHANGED <<endVars, assembler, sendQ, stamp>>
       ELSE Cleanup(s, FALSE)
    /\ UNCHANGED <<now, offerVars, directVars, groups, wire>>

LeaveDone(s) ==
    /\ link[s] = "ending" /\ stage[s] = "done"
    /\ link' = [link EXCEPT ![s] = "gone"]
    /\ UNCHANGED <<now, offerVars, endVars, ws, ready, directVars, groupVars, sendVars>>

-------------------------------------------------------------------------------
(* _forward_dc_message: the direct lane.                                     *)

\* A client that has the answer sends a direct message; one task for each.
Direct(s) ==
    /\ offer[s] = "accepted" /\ stage[s] # "done" /\ arrived + groups < MaxMessages
    /\ arrived' = arrived + 1
    /\ pending' = [pending EXCEPT ![s] = Append(@, arrived')]
    /\ UNCHANGED <<now, offerVars, endVars, linkVars, direct, groupVars, sendVars>>

\* The task that has _direct_send_lock is done.
DirectOver(s) ==
    /\ pending' = [pending EXCEPT ![s] = Tail(@)]
    /\ direct' = [direct EXCEPT ![s] = "idle"]

\* A task goes for the send lock without waiting for the one before it.
MutantDirectReady(s) ==
    /\ pending[s] # <<>> /\ direct[s] = "idle" /\ ready[s] /\ ~closed[s]
    /\ Queued(s, "direct")
    /\ UNCHANGED <<now, offerVars, endVars, linkVars, directVars, groupVars, stamp, wire>>

DirectReady(s) ==
    /\ pending[s] # <<>> /\ direct[s] = "idle" /\ ready[s] /\ ~closed[s]
    /\ direct' = [direct EXCEPT ![s] = "sending"]
    /\ Queued(s, "direct")
    /\ UNCHANGED <<now, offerVars, endVars, linkVars, arrived, pending, groupVars,
                   stamp, wire>>

\* The session closed while the task waited for its turn.
DirectDropped(s) ==
    /\ pending[s] # <<>> /\ direct[s] = "idle" /\ closed[s]
    /\ DirectOver(s)
    /\ UNCHANGED <<now, offerVars, endVars, linkVars, arrived, groupVars, sendVars>>

DirectSent(s) ==
    /\ Transmitted(s, "direct") \/ NotSent(s, "direct")
    /\ Released(s)
    /\ DirectOver(s)
    /\ UNCHANGED <<now, offerVars, endVars, linkVars, arrived, groupVars>>

-------------------------------------------------------------------------------
(* _group_assembler, as a sender: what it packs is GroupAssembler's affair.  *)

AssemblerStart(s) ==
    /\ assembler[s] = "waiting" /\ ready[s]
    /\ assembler' = [assembler EXCEPT ![s] = "packing"]
    /\ UNCHANGED <<now, offerVars, endVars, linkVars, directVars, groups, sendVars>>

Assemble(s) ==
    /\ assembler[s] = "packing" /\ arrived + groups < MaxMessages
    /\ groups' = groups + 1
    /\ assembler' = [assembler EXCEPT ![s] = "sending"]
    /\ Queued(s, "group")
    /\ UNCHANGED <<now, offerVars, endVars, linkVars, directVars, stamp, wire>>

\* A failed write ends the assembler.
GroupSent(s) ==
    /\ \/ Transmitted(s, "group") /\ assembler' = [assembler EXCEPT ![s] = "packing"]
       \/ NotSent(s, "group") /\ assembler' = [assembler EXCEPT ![s] = "stopped"]
    /\ Released(s)
    /\ UNCHANGED <<now, offerVars, endVars, linkVars, directVars, groups>>

-------------------------------------------------------------------------------
Ending(s) == CloseSocket(s) \/ ClosePeer(s)

Offering(s) == Enter(s) \/ Reject(s) \/ Create(s) \/ Answer(s) \/ Accept(s) \/ Fail(s)

Linking(s) == Connect(s) \/ Started(s) \/ NotStarted(s) \/ Leave(s) \/ LeaveDone(s)

Forwarding(s) ==
    DirectReady(s) \/ DirectDropped(s) \/ DirectSent(s) \/ GroupSent(s) \/ Stamp(s)

Next ==
    \/ Tick
    \/ \E s \in Offers :
         \/ Request(s) \/ Offering(s) \/ Ending(s) \/ Linking(s) \/ Forwarding(s)
         \/ Abort(s) \/ Lose(s) \/ Direct(s) \/ AssemblerStart(s) \/ Assemble(s)

Spec == Init /\ [][Next]_vars

\* The loop resumes every task whose await returns; requests, connections,
\* writes and closes return, in success or in failure, and a read on a closed
\* WebSocket fails.
Fairness ==
    WF_vars(\E s \in Offers : \/ Offering(s) \/ Ending(s) \/ Linking(s) \/ Forwarding(s)
                             \/ (closed[s] /\ Lose(s)))

FairSpec == Spec /\ Fairness

-------------------------------------------------------------------------------
TypeOK ==
    /\ now \in 0..MaxTime
    /\ lockQ \in Seq(Offers) /\ present \in Offers \cup {None}
    /\ offer \in [Offers -> {"new", "queued", "fetching", "answering", "waiting",
                             "failing", "accepted", "refused"}]
    /\ closed \in [Offers -> BOOLEAN]
    /\ stage \in [Offers -> {"open", "socket", "peer", "done"}]
    /\ ws \in [Offers -> BOOLEAN] /\ ready \in [Offers -> BOOLEAN]
    /\ link \in [Offers -> {"none", "connecting", "starting", "relaying", "leaving",
                            "ending", "gone"}]
    /\ arrived \in 0..MaxMessages
    /\ pending \in [Offers -> Seq(1..MaxMessages)]
    /\ direct \in [Offers -> {"idle", "sending"}]
    /\ assembler \in [Offers -> {"none", "waiting", "packing", "sending", "stopped"}]
    /\ groups \in 0..MaxMessages
    /\ sendQ \in [Offers -> Seq(Senders)] /\ \A s \in Offers : IsInjective(sendQ[s])
    /\ stamp \in [Offers -> Int \cup {None}]
    /\ wire \in [Offers -> Seq([msg : [kind : Senders, n : 0..MaxMessages], ts : Int])]

IsCancel(m) == m.msg.kind = "direct" /\ m.msg.n \in Cancels

\* What the main server's entry relies on: a session's WebSocket begins with
\* connection_start, and no message but a cancel has a smaller stamp than one
\* before it, so none is dropped at the door and a cancel spares what the
\* client sends after it; direct messages keep the order of the data channel.
\* An accepted offer's connection has been started.
WireInOrder ==
    \A s \in Offers :
        /\ wire[s] # <<>> => wire[s][1].msg.kind = "start"
        /\ offer[s] = "accepted" => wire[s] # <<>>
        /\ \A j \in DOMAIN wire[s] : \A i \in 1..(j - 1) :
             /\ wire[s][j].msg.kind # "start"
             /\ IsCancel(wire[s][j]) \/ wire[s][i].ts <= wire[s][j].ts
             /\ (wire[s][i].msg.kind = "direct" /\ wire[s][j].msg.kind = "direct")
                  => wire[s][i].msg.n < wire[s][j].msg.n

\* The pipeline accepts one WebSocket per client: only the session in the table
\* holds one, however late a connection of an earlier session comes about; and
\* while a session is open its senders never find "pipeline WebSocket is not
\* connected".
OnlyThePresentRelays ==
    \A s \in Offers :
        /\ ws[s] => present = s
        /\ (sendQ[s] # <<>> /\ ~closed[s]) => ws[s]

\* Every offer is answered, and a session that ends, by whatever task and in
\* whatever state of the others, ends with all of them and frees the client for
\* the next offer; a session that has lost its pipeline does end.
SessionsEnd ==
    <>[](\A s \in Offers :
           /\ offer[s] \in {"new", "accepted", "refused"}
           /\ offer[s] = "refused" => present # s
           /\ (closed[s] \/ link[s] = "gone")
                => /\ stage[s] = "done" /\ present # s /\ link[s] \in {"none", "gone"}
                   /\ pending[s] = <<>> /\ sendQ[s] = <<>>
                   /\ assembler[s] = "stopped")
===============================================================================
