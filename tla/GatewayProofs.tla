----------------------------- MODULE GatewayProofs -----------------------------
(* Proofs about the gateway's sessions for every set of offers, every number *)
(* of messages and every choice of cancels: who relays to the pipeline, with *)
(* every offset of a cancel's stamp, and the order of what is relayed; and   *)
(* about the lanes of its dispatcher, for any lanes and rates.               *)
EXTENDS GatewaySession, GroupDispatcher, SequenceTheorems, TLAPS

-------------------------------------------------------------------------------
(* What each part of a session has to say about the others.                  *)

States ==
    {"new", "queued", "fetching", "answering", "waiting", "failing", "accepted",
     "refused"}

Shape ==
    /\ lockQ \in Seq(Offers) /\ present \in Offers \cup {None}
    /\ offer \in [Offers -> States]
    /\ closed \in [Offers -> BOOLEAN]
    /\ stage \in [Offers -> {"open", "socket", "peer", "done"}]
    /\ ws \in [Offers -> BOOLEAN] /\ ready \in [Offers -> BOOLEAN]
    /\ link \in [Offers -> {"none", "connecting", "starting", "relaying", "leaving",
                            "ending", "gone"}]
    /\ assembler \in [Offers -> {"none", "waiting", "packing", "sending", "stopped"}]
    /\ DOMAIN sendQ = Offers

\* The session lock: who waits for it is in line, who works on an offer has it,
\* and while the configuration is fetched the table is empty.
HasLock == {"fetching", "answering", "waiting", "failing"}

LockPart ==
    \A s \in Offers :
        /\ offer[s] = "queued" => \E i \in DOMAIN lockQ : lockQ[i] = s
        /\ offer[s] \in HasLock => lockQ # <<>> /\ Head(lockQ) = s
        /\ offer[s] = "fetching" => present = None

\* The table: a session is in it from its creation to the end of its cleanup.
TablePart ==
    \A s \in Offers :
        (offer[s] \in {"answering", "waiting", "failing", "accepted"} /\ stage[s] # "done")
            => present = s

\* Cleanup has begun when the session is closed.
StagePart == \A s \in Offers : closed[s] <=> stage[s] # "open"

\* The pipeline task starts, and a session is closed, after the answer; the offer
\* is not refused then before the session has ended.
LinkPart ==
    \A s \in Offers : link[s] # "none" \/ closed[s] =>
        /\ offer[s] \in {"waiting", "failing", "accepted", "refused"}
        /\ offer[s] = "refused" => stage[s] = "done"

\* The WebSocket belongs to the pipeline task, and cleanup closes it.
SocketPart ==
    \A s \in Offers : ws[s] => link[s] # "none" /\ stage[s] \in {"open", "socket"}

\* In an open session whoever may send has the WebSocket.
SenderPart ==
    \A s \in Offers :
        /\ ~closed[s]
        /\ ready[s] \/ sendQ[s] # <<>> \/ assembler[s] \in {"packing", "sending"}
        => ws[s]

RelayInv ==
    /\ Shape /\ LockPart /\ TablePart /\ StagePart /\ LinkPart /\ SocketPart
    /\ SenderPart

-------------------------------------------------------------------------------
\* The steps one by one.
LEMMA NextSteps ==
    ASSUME Next
    PROVE  \/ Tick
           \/ \E s \in Offers :
                \/ Request(s) \/ Enter(s) \/ Reject(s) \/ Create(s) \/ Answer(s)
                \/ Accept(s) \/ Fail(s)
                \/ CloseSocket(s) \/ ClosePeer(s) \/ Abort(s)
                \/ Connect(s) \/ Started(s) \/ NotStarted(s) \/ Lose(s) \/ Leave(s)
                \/ LeaveDone(s)
                \/ Direct(s) \/ DirectReady(s) \/ DirectDropped(s) \/ DirectSent(s)
                \/ Stamp(s) \/ AssemblerStart(s) \/ Assemble(s) \/ GroupSent(s)
  BY Zenon DEF Next, Offering, Ending, Linking, Forwarding

\* What a session is after a call of cleanup(): closed, and where it was if it had
\* been closed before; the other sessions are left alone.
CleanedUp(s, open) ==
    /\ closed' = [closed EXCEPT ![s] = TRUE]
    /\ stage' \in [Offers -> {"open", "socket", "peer", "done"}]
    /\ closed[s] => stage' = stage
    /\ ~closed[s] => stage'[s] = IF open THEN "socket" ELSE "peer"
    /\ ready' \in [Offers -> BOOLEAN]
    /\ assembler' \in [Offers -> {"none", "waiting", "packing", "sending", "stopped"}]
    /\ DOMAIN sendQ' = Offers
    /\ \A r \in Offers \ {s} : /\ stage'[r] = stage[r]
                               /\ ready'[r] = ready[r]
                               /\ assembler'[r] = assembler[r]
                               /\ sendQ'[r] = sendQ[r]

\* Whatever cleanup() finds, it leaves the session so.
LEMMA CleanupCloses ==
    ASSUME Shape, NEW s \in Offers, NEW open \in BOOLEAN, Cleanup(s, open)
    PROVE  CleanedUp(s, open)
<1>1. CASE closed[s]
  BY <1>1 DEF Cleanup, CleanedUp, Shape, endVars
<1>2. CASE ~closed[s]
  <2>1. stage' = [stage EXCEPT ![s] = IF open THEN "socket" ELSE "peer"]
    BY <1>2 DEF Cleanup
  <2>2. /\ stage' \in [Offers -> {"open", "socket", "peer", "done"}]
        /\ stage'[s] = IF open THEN "socket" ELSE "peer"
        /\ \A r \in Offers \ {s} : stage'[r] = stage[r]
    BY <2>1 DEF Shape
  <2>3. /\ closed' = [closed EXCEPT ![s] = TRUE]
        /\ ready' \in [Offers -> BOOLEAN]
        /\ \A r \in Offers \ {s} : ready'[r] = ready[r]
    BY <1>2 DEF Cleanup, Shape
  <2>4. /\ assembler' \in [Offers -> {"none", "waiting", "packing", "sending", "stopped"}]
        /\ DOMAIN sendQ' = Offers
        /\ \A r \in Offers \ {s} : assembler'[r] = assembler[r] /\ sendQ'[r] = sendQ[r]
    BY <1>2 DEF Cleanup, Shape
  <2>. QED  BY <1>2, <2>2, <2>3, <2>4 DEF CleanedUp
<1>. QED  BY <1>1, <1>2

\* Who joins the line of a lock goes to its end.
LEMMA JoinLine ==
    ASSUME NEW q \in Seq(Offers), NEW s \in Offers
    PROVE  /\ Append(q, s) \in Seq(Offers) /\ Append(q, s) # <<>>
           /\ q # <<>> => Head(Append(q, s)) = Head(q)
           /\ \E i \in DOMAIN Append(q, s) : Append(q, s)[i] = s
           /\ \A i \in DOMAIN q : i \in DOMAIN Append(q, s) /\ Append(q, s)[i] = q[i]
<1>1. Append(q, s) \in Seq(Offers) /\ Len(Append(q, s)) = Len(q) + 1 /\ Len(q) \in Nat
  OBVIOUS
<1>2. Append(q, s) # <<>>
  BY <1>1
<1>3. q # <<>> => Head(Append(q, s)) = Head(q)
  OBVIOUS
<1>4. Len(q) + 1 \in DOMAIN Append(q, s) /\ Append(q, s)[Len(q) + 1] = s
  OBVIOUS
<1>5. \A i \in DOMAIN q : i \in DOMAIN Append(q, s) /\ Append(q, s)[i] = q[i]
  OBVIOUS
<1>. QED  BY <1>1, <1>2, <1>3, <1>4, <1>5

\* When the lock is let go the others stay in line.
LEMMA LeaveLine ==
    ASSUME NEW q \in Seq(Offers), q # <<>>
    PROVE  /\ Tail(q) \in Seq(Offers)
           /\ \A i \in DOMAIN q :
                q[i] # Head(q) => i - 1 \in DOMAIN Tail(q) /\ Tail(q)[i - 1] = q[i]
<1>1. Tail(q) \in Seq(Offers)
  OBVIOUS
<1>2. ASSUME NEW i \in DOMAIN q, q[i] # Head(q)
      PROVE  i - 1 \in DOMAIN Tail(q) /\ Tail(q)[i - 1] = q[i]
  BY <1>2
<1>. QED  BY <1>1, <1>2

\* An offer gets in line.
LEMMA LockJoined ==
    ASSUME Shape, LockPart, NEW s \in Offers, lockQ' = Append(lockQ, s),
           offer' = [offer EXCEPT ![s] = "queued"], present' = present
    PROVE  lockQ' \in Seq(Offers) /\ LockPart'
<1>. lockQ \in Seq(Offers) /\ offer \in [Offers -> States]
  BY DEF Shape
<1>1. lockQ' \in Seq(Offers) /\ lockQ' # <<>>
  BY JoinLine
<1>2. ASSUME NEW r \in Offers, offer'[r] = "queued"
      PROVE  \E i \in DOMAIN lockQ' : lockQ'[i] = r
  <2>1. CASE r = s
    BY <2>1, JoinLine
  <2>2. CASE r # s
    <3>1. PICK i \in DOMAIN lockQ : lockQ[i] = r
      BY <1>2, <2>2 DEF LockPart
    <3>. QED  BY <3>1, JoinLine
  <2>. QED  BY <2>1, <2>2
<1>3. ASSUME NEW r \in Offers, offer'[r] \in HasLock
      PROVE  Head(lockQ') = r /\ (offer'[r] = "fetching" => present' = None)
  <2>1. offer[r] \in HasLock /\ offer'[r] = offer[r]
    BY <1>3 DEF HasLock
  <2>. QED  BY <2>1, JoinLine DEF LockPart
<1>. QED  BY <1>1, <1>2, <1>3 DEF LockPart, HasLock

\* The holder goes on with its offer.
LEMMA LockHeld ==
    ASSUME Shape, LockPart, NEW s \in Offers, NEW at \in HasLock,
           offer[s] \in HasLock \cup {"queued"}, Head(lockQ) = s, lockQ' = lockQ,
           offer' = [offer EXCEPT ![s] = at], at = "fetching" => present' = None
    PROVE  LockPart'
<1>. lockQ \in Seq(Offers) /\ offer \in [Offers -> States]
  BY DEF Shape
<1>1. lockQ # <<>>
  BY DEF LockPart
<1>2. ASSUME NEW r \in Offers, r # s
      PROVE  offer'[r] = offer[r] /\ offer[r] \notin HasLock
  BY <1>2 DEF LockPart
<1>3. offer'[s] = at
  OBVIOUS
<1>. QED  BY <1>1, <1>2, <1>3 DEF LockPart, HasLock

\* The holder is done with its offer.
LEMMA LockLeft ==
    ASSUME Shape, LockPart, NEW s \in Offers, NEW at \in {"accepted", "refused"},
           offer[s] \in HasLock \cup {"queued"}, Head(lockQ) = s,
           lockQ' = Tail(lockQ), offer' = [offer EXCEPT ![s] = at]
    PROVE  lockQ' \in Seq(Offers) /\ LockPart'
<1>. lockQ \in Seq(Offers) /\ offer \in [Offers -> States]
  BY DEF Shape
<1>1. lockQ # <<>>
  BY DEF LockPart
<1>2. lockQ' \in Seq(Offers)
  BY <1>1, LeaveLine
<1>3. ASSUME NEW r \in Offers
      PROVE  offer'[r] \notin HasLock
  BY DEF LockPart, HasLock
<1>4. ASSUME NEW r \in Offers, offer'[r] = "queued"
      PROVE  \E i \in DOMAIN lockQ' : lockQ'[i] = r
  <2>1. r # s
    BY <1>4
  <2>2. PICK i \in DOMAIN lockQ : lockQ[i] = r
    BY <1>4, <2>1 DEF LockPart
  <2>. QED  BY <1>1, <2>1, <2>2, LeaveLine
<1>. QED  BY <1>2, <1>3, <1>4 DEF LockPart, HasLock

\* Who leaves the offers alone leaves the session lock and the table alone.
LEMMA LockKept == LockPart /\ UNCHANGED offerVars => LockPart'
  BY DEF LockPart, offerVars

-------------------------------------------------------------------------------
\* The offers' steps under the lock.
LEMMA OfferSteps ==
    ASSUME RelayInv, NEW s \in Offers,
           Request(s) \/ Enter(s) \/ Reject(s) \/ Create(s) \/ Answer(s) \/
           Accept(s) \/ Fail(s)
    PROVE  RelayInv'
<1>. USE DEF RelayInv
<1>1. CASE Request(s)
  <2>1. LockPart' /\ lockQ' \in Seq(Offers)
    BY <1>1, LockJoined DEF Request, endVars, linkVars, groupVars,
             sendVars
  <2>2. Shape'
    BY <1>1, <2>1 DEF Request, endVars, linkVars, groupVars, sendVars,
             Shape, States
  <2>3. TablePart'
    BY <1>1 DEF Request, endVars, linkVars, groupVars, sendVars, Shape,
             TablePart, StagePart, LinkPart
  <2>4. StagePart' /\ LinkPart'
    BY <1>1 DEF Request, endVars, linkVars, groupVars, sendVars, Shape,
             StagePart, LinkPart
  <2>5. SocketPart' /\ SenderPart'
    BY <1>1 DEF Request, endVars, linkVars, groupVars, sendVars, Shape,
             StagePart, SocketPart, SenderPart
  <2>. QED  BY <2>1, <2>2, <2>3, <2>4, <2>5
<1>2. CASE Enter(s)
  <2>1. LockPart' /\ lockQ' \in Seq(Offers)
    <3>1. CASE present = None
      BY <1>2, <3>1, LockHeld DEF Enter, Holds, Refused, endVars,
               linkVars, groupVars, sendVars, HasLock, Shape
    <3>2. CASE present # None
      BY <1>2, <3>2, LockLeft DEF Enter, Holds, Refused, endVars,
               linkVars, groupVars, sendVars, HasLock
    <3>. QED  BY <3>1, <3>2
  <2>2. Shape'
    BY <1>2, <2>1 DEF Enter, Holds, Refused, endVars, linkVars, groupVars,
             sendVars, Shape, States
  <2>3. TablePart'
    BY <1>2 DEF Enter, Holds, Refused, endVars, linkVars, groupVars,
             sendVars, Shape, TablePart, StagePart, LinkPart
  <2>4. StagePart' /\ LinkPart'
    BY <1>2 DEF Enter, Holds, Refused, endVars, linkVars, groupVars,
             sendVars, Shape, StagePart, LinkPart
  <2>5. SocketPart' /\ SenderPart'
    BY <1>2 DEF Enter, Holds, Refused, endVars, linkVars, groupVars,
             sendVars, Shape, StagePart, SocketPart, SenderPart
  <2>. QED  BY <2>1, <2>2, <2>3, <2>4, <2>5
<1>3. CASE Reject(s)
  <2>1. LockPart' /\ lockQ' \in Seq(Offers)
    BY <1>3, LockLeft DEF Reject, Holds, Refused, endVars, linkVars,
             groupVars, sendVars, HasLock
  <2>2. Shape'
    BY <1>3, <2>1 DEF Reject, Holds, Refused, endVars, linkVars,
             groupVars, sendVars, Shape, States
  <2>3. TablePart'
    BY <1>3 DEF Reject, Holds, Refused, endVars, linkVars, groupVars,
             sendVars, Shape, TablePart, StagePart, LinkPart
  <2>4. StagePart' /\ LinkPart'
    BY <1>3 DEF Reject, Holds, Refused, endVars, linkVars, groupVars,
             sendVars, Shape, StagePart, LinkPart
  <2>5. SocketPart' /\ SenderPart'
    BY <1>3 DEF Reject, Holds, Refused, endVars, linkVars, groupVars,
             sendVars, Shape, StagePart, SocketPart, SenderPart
  <2>. QED  BY <2>1, <2>2, <2>3, <2>4, <2>5
<1>4. CASE Create(s)
  <2>1. LockPart'
    BY <1>4, LockHeld DEF Create, Holds, endVars, linkVars, sendVars,
             HasLock
  <2>2. Shape'
    BY <1>4, <2>1 DEF Create, Holds, endVars, linkVars, sendVars, Shape,
             States
  <2>3. TablePart'
    BY <1>4, OfferAssumption DEF Create, Holds, endVars, linkVars,
             sendVars, Shape, TablePart, StagePart, LinkPart, LockPart
  <2>4. StagePart' /\ LinkPart'
    BY <1>4 DEF Create, Holds, endVars, linkVars, sendVars, Shape,
             StagePart, LinkPart
  <2>5. SocketPart' /\ SenderPart'
    BY <1>4 DEF Create, Holds, endVars, linkVars, sendVars, Shape,
             StagePart, SocketPart, SenderPart
  <2>. QED  BY <2>1, <2>2, <2>3, <2>4, <2>5
<1>5. CASE Answer(s)
  <2>1. LockPart'
    BY <1>5, LockHeld DEF Answer, Holds, endVars, groupVars, sendVars,
             HasLock
  <2>2. Shape'
    BY <1>5, <2>1 DEF Answer, Holds, endVars, groupVars, sendVars, Shape,
             States
  <2>3. TablePart'
    BY <1>5 DEF Answer, Holds, endVars, groupVars, sendVars, Shape,
             TablePart, StagePart, LinkPart
  <2>4. StagePart' /\ LinkPart'
    BY <1>5 DEF Answer, Holds, endVars, groupVars, sendVars, Shape,
             StagePart, LinkPart
  <2>5. SocketPart' /\ SenderPart'
    BY <1>5 DEF Answer, Holds, endVars, groupVars, sendVars, Shape,
             StagePart, SocketPart, SenderPart
  <2>. QED  BY <2>1, <2>2, <2>3, <2>4, <2>5
<1>6. CASE Accept(s)
  <2>1. LockPart' /\ lockQ' \in Seq(Offers)
    BY <1>6, LockLeft DEF Accept, Holds, endVars, linkVars, groupVars,
             sendVars, HasLock
  <2>2. Shape'
    BY <1>6, <2>1 DEF Accept, Holds, endVars, linkVars, groupVars,
             sendVars, Shape, States
  <2>3. TablePart'
    BY <1>6 DEF Accept, Holds, endVars, linkVars, groupVars, sendVars,
             Shape, TablePart, StagePart, LinkPart
  <2>4. StagePart' /\ LinkPart'
    BY <1>6 DEF Accept, Holds, endVars, linkVars, groupVars, sendVars,
             Shape, StagePart, LinkPart
  <2>5. SocketPart' /\ SenderPart'
    BY <1>6 DEF Accept, Holds, endVars, linkVars, groupVars, sendVars,
             Shape, StagePart, SocketPart, SenderPart
  <2>. QED  BY <2>1, <2>2, <2>3, <2>4, <2>5
<1>7. CASE Fail(s)
  <2>0. CleanedUp(s, ws[s])
    BY <1>7, CleanupCloses DEF Fail, Holds, Refused, Shape
  <2>1. LockPart' /\ lockQ' \in Seq(Offers)
    <3>1. CASE stage[s] # "done"
      BY <1>7, <3>1, LockHeld DEF Fail, Holds, Refused, HasLock, Shape
    <3>2. CASE stage[s] = "done"
      BY <1>7, <3>2, LockLeft DEF Fail, Holds, Refused, HasLock
    <3>. QED  BY <3>1, <3>2
  <2>2. Shape'
    BY <1>7, <2>0, <2>1 DEF Fail, Holds, Refused, CleanedUp, Shape, States
  <2>3. TablePart'
    BY <1>7, <2>0 DEF Fail, Holds, Refused, CleanedUp, Shape, TablePart,
             StagePart, LinkPart
  <2>4. StagePart'
    BY <1>7, <2>0 DEF Fail, Holds, Refused, CleanedUp, Shape, StagePart
  <2>5. LinkPart'
    BY <1>7, <2>0 DEF Fail, Holds, Refused, CleanedUp, Shape, StagePart,
             LinkPart
  <2>6. SocketPart' /\ SenderPart'
    BY <1>7, <2>0 DEF Fail, Holds, Refused, CleanedUp, Shape, StagePart,
             SocketPart, SenderPart
  <2>. QED  BY <2>1, <2>2, <2>3, <2>4, <2>5, <2>6
<1>. QED
  BY <1>1, <1>2, <1>3, <1>4, <1>5, <1>6, <1>7

\* The end of a session.
LEMMA EndSteps ==
    ASSUME RelayInv, NEW s \in Offers,
           CloseSocket(s) \/ ClosePeer(s) \/ Abort(s)
    PROVE  RelayInv'
<1>. USE DEF RelayInv
<1>1. CASE CloseSocket(s)
  <2>1. LockPart'
    BY <1>1, LockKept DEF CloseSocket, offerVars, groupVars, sendVars
  <2>2. Shape'
    BY <1>1, <2>1 DEF CloseSocket, offerVars, groupVars, sendVars, Shape,
             States
  <2>3. TablePart'
    BY <1>1 DEF CloseSocket, offerVars, groupVars, sendVars, Shape,
             TablePart, StagePart, LinkPart
  <2>4. StagePart' /\ LinkPart'
    BY <1>1 DEF CloseSocket, offerVars, groupVars, sendVars, Shape,
             StagePart, LinkPart
  <2>5. SocketPart' /\ SenderPart'
    BY <1>1 DEF CloseSocket, offerVars, groupVars, sendVars, Shape,
             StagePart, SocketPart, SenderPart
  <2>. QED  BY <2>1, <2>2, <2>3, <2>4, <2>5
<1>2. CASE ClosePeer(s)
  <2>1. LockPart'
    BY <1>2, OfferAssumption DEF ClosePeer, linkVars, groupVars, sendVars,
             Shape, LockPart
  <2>2. Shape'
    BY <1>2, <2>1 DEF ClosePeer, linkVars, groupVars, sendVars, Shape,
             States
  <2>3. TablePart'
    BY <1>2, OfferAssumption DEF ClosePeer, linkVars, groupVars, sendVars,
             Shape, TablePart, StagePart, LinkPart, SocketPart
  <2>4. StagePart' /\ LinkPart'
    BY <1>2 DEF ClosePeer, linkVars, groupVars, sendVars, Shape,
             StagePart, LinkPart
  <2>5. SocketPart' /\ SenderPart'
    BY <1>2 DEF ClosePeer, linkVars, groupVars, sendVars, Shape,
             StagePart, SocketPart, SenderPart
  <2>. QED  BY <2>1, <2>2, <2>3, <2>4, <2>5
<1>3. CASE Abort(s)
  <2>0. CleanedUp(s, ws[s])
    BY <1>3, CleanupCloses DEF Abort, offerVars, Shape
  <2>1. LockPart'
    BY <1>3, LockKept DEF Abort, offerVars
  <2>2. Shape'
    BY <1>3, <2>0, <2>1 DEF Abort, offerVars, CleanedUp, Shape, States
  <2>3. TablePart'
    BY <1>3, <2>0 DEF Abort, offerVars, CleanedUp, Shape, TablePart,
             StagePart, LinkPart
  <2>4. StagePart'
    BY <1>3, <2>0 DEF Abort, offerVars, CleanedUp, Shape, StagePart
  <2>5. LinkPart'
    BY <1>3, <2>0 DEF Abort, offerVars, CleanedUp, Shape, StagePart,
             LinkPart
  <2>6. SocketPart' /\ SenderPart'
    BY <1>3, <2>0 DEF Abort, offerVars, CleanedUp, Shape, StagePart,
             SocketPart, SenderPart
  <2>. QED  BY <2>1, <2>2, <2>3, <2>4, <2>5, <2>6
<1>. QED
  BY <1>1, <1>2, <1>3

\* The pipeline task.
LEMMA LinkSteps ==
    ASSUME RelayInv, NEW s \in Offers,
           Connect(s) \/ Started(s) \/ NotStarted(s) \/ Lose(s) \/ Leave(s) \/
           LeaveDone(s)
    PROVE  RelayInv'
<1>. USE DEF RelayInv
<1>1. CASE Connect(s)
  <2>1. LockPart'
    BY <1>1, LockKept DEF Connect, Queued, offerVars, endVars, groupVars
  <2>2. Shape'
    BY <1>1, <2>1 DEF Connect, Queued, offerVars, endVars, groupVars,
             Shape, States
  <2>3. TablePart'
    BY <1>1 DEF Connect, Queued, offerVars, endVars, groupVars, Shape,
             TablePart, StagePart, LinkPart
  <2>4. StagePart' /\ LinkPart'
    BY <1>1 DEF Connect, Queued, offerVars, endVars, groupVars, Shape,
             StagePart, LinkPart
  <2>5. SocketPart'
    BY <1>1 DEF Connect, endVars, Shape, StagePart, SocketPart
  <2>6. SenderPart'
    <3>1. CASE closed[s]
      BY <1>1, <3>1 DEF Connect, endVars, groupVars, SenderPart
    <3>2. CASE ~closed[s]
      <4>1. /\ ws' = [ws EXCEPT ![s] = TRUE] /\ Queued(s, "start")
            /\ UNCHANGED <<closed, ready, assembler>>
        BY <1>1, <3>2 DEF Connect, endVars, groupVars
      <4>2. ws'[s] /\ \A r \in Offers \ {s} : ws'[r] = ws[r]
        BY <4>1 DEF Shape
      <4>3. \A r \in Offers \ {s} : sendQ'[r] = sendQ[r]
        BY <4>1 DEF Queued, Shape
      <4>. QED  BY <4>1, <4>2, <4>3 DEF SenderPart
    <3>. QED  BY <3>1, <3>2
  <2>. QED  BY <2>1, <2>2, <2>3, <2>4, <2>5, <2>6
<1>2. CASE Started(s)
  <2>1. LockPart'
    BY <1>2, LockKept DEF Started, Transmitted, Sends, Released,
             offerVars, endVars, groupVars
  <2>2. Shape'
    BY <1>2, <2>1 DEF Started, Transmitted, Sends, Released, offerVars,
             endVars, groupVars, Shape, States
  <2>3. TablePart'
    BY <1>2 DEF Started, Transmitted, Sends, Released, offerVars, endVars,
             groupVars, Shape, TablePart, StagePart, LinkPart
  <2>4. StagePart' /\ LinkPart'
    BY <1>2 DEF Started, Transmitted, Sends, Released, offerVars, endVars,
             groupVars, Shape, StagePart, LinkPart, SocketPart, SenderPart
  <2>5. SocketPart' /\ SenderPart'
    BY <1>2 DEF Started, Transmitted, Sends, Released, offerVars, endVars,
             groupVars, Shape, StagePart, SocketPart, SenderPart
  <2>. QED  BY <2>1, <2>2, <2>3, <2>4, <2>5
<1>3. CASE NotStarted(s)
  <2>1. LockPart'
    BY <1>3, LockKept DEF NotStarted, NotSent, Sends, Released, offerVars,
             endVars, groupVars
  <2>2. Shape'
    BY <1>3, <2>1 DEF NotStarted, NotSent, Sends, Released, offerVars,
             endVars, groupVars, Shape, States
  <2>3. TablePart'
    BY <1>3 DEF NotStarted, NotSent, Sends, Released, offerVars, endVars,
             groupVars, Shape, TablePart, StagePart, LinkPart
  <2>4. StagePart' /\ LinkPart'
    BY <1>3 DEF NotStarted, NotSent, Sends, Released, offerVars, endVars,
             groupVars, Shape, StagePart, LinkPart, SocketPart, SenderPart
  <2>5. SocketPart' /\ SenderPart'
    BY <1>3 DEF NotStarted, NotSent, Sends, Released, offerVars, endVars,
             groupVars, Shape, StagePart, SocketPart, SenderPart
  <2>. QED  BY <2>1, <2>2, <2>3, <2>4, <2>5
<1>4. CASE Lose(s)
  <2>1. LockPart'
    BY <1>4, LockKept DEF Lose, offerVars, endVars, groupVars, sendVars
  <2>2. Shape'
    BY <1>4, <2>1 DEF Lose, offerVars, endVars, groupVars, sendVars,
             Shape, States
  <2>3. TablePart'
    BY <1>4 DEF Lose, offerVars, endVars, groupVars, sendVars, Shape,
             TablePart, StagePart, LinkPart
  <2>4. StagePart' /\ LinkPart'
    BY <1>4 DEF Lose, offerVars, endVars, groupVars, sendVars, Shape,
             StagePart, LinkPart
  <2>5. SocketPart' /\ SenderPart'
    BY <1>4 DEF Lose, offerVars, endVars, groupVars, sendVars, Shape,
             StagePart, SocketPart, SenderPart
  <2>. QED  BY <2>1, <2>2, <2>3, <2>4, <2>5
<1>5. CASE Leave(s)
  <2>1. LockPart'
    BY <1>5, LockKept DEF Leave
  <2>2. CASE closed[s]
    <3>1. Shape'
      BY <1>5, <2>2 DEF Leave, offerVars, endVars, Shape, States
    <3>2. TablePart'
      BY <1>5, <2>2 DEF Leave, offerVars, endVars, Shape, TablePart,
               StagePart, LinkPart
    <3>3. StagePart' /\ LinkPart'
      BY <1>5, <2>2 DEF Leave, offerVars, endVars, Shape, StagePart,
               LinkPart
    <3>4. SocketPart' /\ SenderPart'
      BY <1>5, <2>2 DEF Leave, offerVars, endVars, Shape, StagePart,
               SocketPart, SenderPart
    <3>. QED  BY <2>1, <3>1, <3>2, <3>3, <3>4
  <2>3. CASE ~closed[s]
    <3>0. CleanedUp(s, FALSE)
      BY <1>5, <2>3, CleanupCloses DEF Leave
    <3>1. Shape'
      BY <1>5, <2>3, <3>0 DEF Leave, offerVars, CleanedUp, Shape, States
    <3>2. TablePart'
      BY <1>5, <2>3, <3>0 DEF Leave, offerVars, CleanedUp, Shape,
               TablePart, StagePart, LinkPart
    <3>3. StagePart' /\ LinkPart'
      BY <1>5, <2>3, <3>0 DEF Leave, offerVars, CleanedUp, Shape,
               StagePart, LinkPart
    <3>4. SocketPart' /\ SenderPart'
      BY <1>5, <2>3, <3>0 DEF Leave, offerVars, CleanedUp, Shape,
               StagePart, SocketPart, SenderPart
    <3>. QED  BY <2>1, <3>1, <3>2, <3>3, <3>4
  <2>. QED  BY <2>2, <2>3
<1>6. CASE LeaveDone(s)
  <2>1. LockPart'
    BY <1>6, LockKept DEF LeaveDone, offerVars, endVars, groupVars,
             sendVars
  <2>2. Shape'
    BY <1>6, <2>1 DEF LeaveDone, offerVars, endVars, groupVars, sendVars,
             Shape, States
  <2>3. TablePart'
    BY <1>6 DEF LeaveDone, offerVars, endVars, groupVars, sendVars, Shape,
             TablePart, StagePart, LinkPart
  <2>4. StagePart' /\ LinkPart'
    BY <1>6 DEF LeaveDone, offerVars, endVars, groupVars, sendVars, Shape,
             StagePart, LinkPart
  <2>5. SocketPart' /\ SenderPart'
    BY <1>6 DEF LeaveDone, offerVars, endVars, groupVars, sendVars, Shape,
             StagePart, SocketPart, SenderPart
  <2>. QED  BY <2>1, <2>2, <2>3, <2>4, <2>5
<1>. QED
  BY <1>1, <1>2, <1>3, <1>4, <1>5, <1>6

\* The senders: none opens, closes or connects a session, and who asks for the
\* send lock in an open session has been told that it is ready.
LEMMA SendSteps ==
    ASSUME RelayInv, NEW s \in Offers,
           \/ Direct(s) \/ DirectReady(s) \/ DirectDropped(s) \/ DirectSent(s)
           \/ Stamp(s) \/ AssemblerStart(s) \/ Assemble(s) \/ GroupSent(s)
    PROVE  RelayInv'
<1>1. /\ UNCHANGED <<offerVars, endVars, linkVars>>
      /\ assembler' \in [Offers -> {"none", "waiting", "packing", "sending", "stopped"}]
      /\ DOMAIN sendQ' = Offers
      /\ \A r \in Offers :
           (sendQ'[r] # <<>> \/ assembler'[r] \in {"packing", "sending"})
             => \/ ready[r] \/ sendQ[r] # <<>> \/ assembler[r] \in {"packing", "sending"}
                \/ closed[r]
  <2>. USE DEF RelayInv, Shape, SenderPart, offerVars, endVars, linkVars
  <2>1. CASE Direct(s)
    BY <2>1 DEF Direct, groupVars, sendVars
  <2>2. CASE DirectReady(s)
    BY <2>2 DEF DirectReady, Queued, groupVars
  <2>3. CASE DirectDropped(s)
    BY <2>3 DEF DirectDropped, groupVars, sendVars
  <2>4. CASE DirectSent(s)
    BY <2>4 DEF DirectSent, Transmitted, NotSent, Sends, Released, groupVars
  <2>5. CASE Stamp(s)
    BY <2>5 DEF Stamp, groupVars
  <2>6. CASE AssemblerStart(s)
    BY <2>6 DEF AssemblerStart, sendVars
  <2>7. CASE Assemble(s)
    BY <2>7 DEF Assemble, Queued
  <2>8. CASE GroupSent(s)
    BY <2>8 DEF GroupSent, Transmitted, NotSent, Sends, Released
  <2>. QED  BY <2>1, <2>2, <2>3, <2>4, <2>5, <2>6, <2>7, <2>8
<1>2. LockPart'
  BY <1>1, LockKept DEF RelayInv
<1>3. Shape' /\ TablePart' /\ StagePart' /\ LinkPart' /\ SocketPart'
  BY <1>1 DEF RelayInv, Shape, TablePart, StagePart, LinkPart, SocketPart, offerVars,
              endVars, linkVars
<1>4. SenderPart'
  BY <1>1 DEF RelayInv, SenderPart, endVars, linkVars
<1>. QED  BY <1>2, <1>3, <1>4 DEF RelayInv

-------------------------------------------------------------------------------
\* No session, no offer: the invariant holds at the start.
LEMMA RelayInit == Init => RelayInv
  BY DEF Init, RelayInv, Shape, States, LockPart, HasLock, TablePart, StagePart,
         LinkPart, SocketPart, SenderPart

\* Every step of Next, and a stutter, keeps the invariant.
LEMMA RelayStep == RelayInv /\ [Next]_vars => RelayInv'
<1>. SUFFICES ASSUME RelayInv, [Next]_vars PROVE RelayInv'
  OBVIOUS
<1>1. CASE UNCHANGED vars \/ Tick
  BY <1>1 DEF Tick, vars, offerVars, endVars, linkVars, groupVars, sendVars, RelayInv,
              Shape, LockPart, TablePart, StagePart, LinkPart, SocketPart, SenderPart
<1>2. CASE Next
  BY <1>1, <1>2, NextSteps, OfferSteps, EndSteps, LinkSteps, SendSteps, Zenon
<1>. QED  BY <1>1, <1>2

\* A session with the WebSocket is one whose offer was answered and whose
\* cleanup has not closed it, so the table still has it.
LEMMA RelayImplies == RelayInv => OnlyThePresentRelays
  BY DEF RelayInv, Shape, TablePart, StagePart, LinkPart, SocketPart, SenderPart,
         OnlyThePresentRelays

\* At most one session of a client is connected to the pipeline, the one the
\* gateway's table has, and the senders of an open session have its WebSocket
\* (server_webrtc.py, the offer's lock, _pipeline_session and cleanup()): for any
\* number of offers and messages.
THEOREM OnePresentRelays == Spec => []OnlyThePresentRelays
  BY RelayInit, RelayStep, RelayImplies, PTL DEF Spec

-------------------------------------------------------------------------------
(* The send lock: a queue in which every sender is once at most.            *)

InQueue(w, q) == \E i \in DOMAIN q : q[i] = w

\* A sender that is not in the queue joins it.
LEMMA QueueJoined ==
    ASSUME NEW q \in Seq(Senders), IsInjective(q), NEW w \in Senders, ~InQueue(w, q)
    PROVE  /\ Append(q, w) \in Seq(Senders) /\ IsInjective(Append(q, w))
           /\ Append(q, w) # <<>>
           /\ q # <<>> => Head(Append(q, w)) = Head(q)
           /\ \A x : InQueue(x, Append(q, w)) <=> InQueue(x, q) \/ x = w
<1>. DEFINE p == Append(q, w)
<1>1. /\ p \in Seq(Senders) /\ Len(p) = Len(q) + 1 /\ Len(q) \in Nat
      /\ DOMAIN p = 1..Len(q) + 1 /\ DOMAIN q = 1..Len(q)
      /\ p[Len(q) + 1] = w /\ \A i \in 1..Len(q) : p[i] = q[i]
  OBVIOUS
<1>2. \A i \in DOMAIN p : (i \in DOMAIN q /\ p[i] = q[i]) \/ (i = Len(q) + 1 /\ p[i] = w)
  BY <1>1
<1>3. IsInjective(p)
  BY <1>1, <1>2 DEF IsInjective, InQueue
<1>4. \A x : InQueue(x, p) <=> InQueue(x, q) \/ x = w
  BY <1>1, <1>2 DEF InQueue
<1>5. p # <<>> /\ (q # <<>> => Head(p) = Head(q))
  BY <1>1
<1>. QED  BY <1>1, <1>3, <1>4, <1>5

\* The holder leaves it.
LEMMA QueueServed ==
    ASSUME NEW q \in Seq(Senders), IsInjective(q), q # <<>>
    PROVE  /\ Tail(q) \in Seq(Senders) /\ IsInjective(Tail(q))
           /\ Head(q) \in Senders /\ InQueue(Head(q), q)
           /\ \A x : InQueue(x, Tail(q)) <=> InQueue(x, q) /\ x # Head(q)
<1>. DEFINE p == Tail(q)
<1>1. /\ p \in Seq(Senders) /\ Len(q) \in Nat \ {0} /\ Head(q) = q[1] /\ q[1] \in Senders
      /\ DOMAIN q = 1..Len(q) /\ DOMAIN p = 1..Len(q) - 1
      /\ \A i \in DOMAIN p : p[i] = q[i + 1]
  OBVIOUS
<1>2. IsInjective(p)
  BY <1>1 DEF IsInjective
<1>3. \A i \in DOMAIN p : p[i] # Head(q) /\ i + 1 \in DOMAIN q
  BY <1>1 DEF IsInjective
<1>4. ASSUME NEW i \in DOMAIN q, q[i] # Head(q) PROVE i - 1 \in DOMAIN p /\ p[i - 1] = q[i]
  BY <1>1, <1>4
<1>5. \A x : InQueue(x, p) <=> InQueue(x, q) /\ x # Head(q)
  <2>1. ASSUME NEW x, InQueue(x, p) PROVE InQueue(x, q) /\ x # Head(q)
    BY <1>1, <1>3, <2>1 DEF InQueue
  <2>2. ASSUME NEW x, InQueue(x, q), x # Head(q) PROVE InQueue(x, p)
    BY <1>4, <2>2 DEF InQueue
  <2>. QED  BY <2>1, <2>2
<1>6. InQueue(Head(q), q)
  BY <1>1 DEF InQueue
<1>. QED  BY <1>1, <1>2, <1>5, <1>6

\* A sender that is cancelled leaves it, wherever it was.
LEMMA QueueLeft ==
    ASSUME NEW q \in Seq(Senders), IsInjective(q), NEW w \in Senders
    PROVE  /\ RemoveFirst(q, w) \in Seq(Senders) /\ IsInjective(RemoveFirst(q, w))
           /\ q # <<>> /\ Head(q) # w
                => RemoveFirst(q, w) # <<>> /\ Head(RemoveFirst(q, w)) = Head(q)
           /\ \A x : InQueue(x, RemoveFirst(q, w)) <=> InQueue(x, q) /\ x # w
<1>. DEFINE p == RemoveFirst(q, w)
            I == {i \in 1..Len(q) : q[i] = w}
<1>1. Len(q) \in Nat /\ DOMAIN q = 1..Len(q) /\ \A i \in 1..Len(q) : q[i] \in Senders
  OBVIOUS
<1>2. CASE I = {}
  <2>1. p = q /\ ~InQueue(w, q)
    BY <1>1, <1>2 DEF RemoveFirst, InQueue
  <2>. QED  BY <2>1
<1>3. CASE I # {}
  <2>1. PICK n \in 1..Len(q) : q[n] = w
    BY <1>3
  <2>2. I = {n}
    BY <1>1, <2>1 DEF IsInjective
  <2>3. Min(I) = n
    BY <2>2 DEF Min
  <2>4. p = SubSeq(q, 1, n - 1) \o SubSeq(q, n + 1, Len(q))
    BY <2>1, <2>2, <2>3 DEF RemoveFirst, RemoveAt, SelectInSeq
  <2>. DEFINE a == SubSeq(q, 1, n - 1)
              b == SubSeq(q, n + 1, Len(q))
  <2>5. /\ a \in Seq(Senders) /\ Len(a) = n - 1 /\ \A i \in 1..n - 1 : a[i] = q[i]
    BY <1>1, <2>1
  <2>6. /\ b \in Seq(Senders) /\ Len(b) = Len(q) - n
        /\ \A i \in 1..Len(q) - n : b[i] = q[i + n]
    <3>1. b \in Seq(Senders)
      BY <1>1, <2>1
    <3>2. Len(b) = Len(q) - n
      <4>1. n + 1 \in Int /\ Len(q) \in Int /\ \A i \in n + 1..Len(q) : q[i] \in Senders
        BY <1>1, <2>1
      <4>2. Len(b) = IF n + 1 <= Len(q) THEN Len(q) - (n + 1) + 1 ELSE 0
        BY <4>1, SubSeqProperties
      <4>3. n \in Int /\ n <= Len(q)
        BY <1>1, <2>1
      <4>4. CASE n + 1 <= Len(q)
        BY <4>1, <4>2, <4>3, <4>4
      <4>5. CASE ~(n + 1 <= Len(q))
        BY <4>1, <4>2, <4>3, <4>5
      <4>. QED  BY <4>4, <4>5
    <3>3. ASSUME NEW i \in 1..Len(q) - n PROVE b[i] = q[i + n]
      BY <1>1, <2>1, <3>3
    <3>. QED  BY <3>1, <3>2, <3>3
  <2>. HIDE DEF p, a, b
  <2>7. /\ p \in Seq(Senders) /\ DOMAIN p = 1..Len(q) - 1
        /\ \A i \in 1..n - 1 : p[i] = q[i]
        /\ \A i \in n..Len(q) - 1 : p[i] = q[i + 1]
    <3>1. p = a \o b
      BY <2>4 DEF a, b
    <3>2. p \in Seq(Senders) /\ Len(p) = Len(a) + Len(b)
      BY <2>5, <2>6, <3>1, ConcatProperties
    <3>3. DOMAIN p = 1..Len(p)
      BY <3>2
    <3>4. \A i \in 1..Len(a) : p[i] = a[i]
      BY <2>5, <2>6, <3>1
    <3>5. \A i \in 1..Len(b) : p[i + Len(a)] = b[i]
      BY <2>5, <2>6, <3>1
    <3>6. Len(p) = Len(q) - 1
      BY <1>1, <2>1, <2>5, <2>6, <3>2
    <3>7. ASSUME NEW i \in n..Len(q) - 1 PROVE p[i] = q[i + 1]
      <4>1. i - n + 1 \in 1..Len(b) /\ i - n + 1 + Len(a) = i /\ i - n + 1 + n = i + 1
        BY <1>1, <2>1, <2>5, <2>6, <3>7
      <4>. QED  BY <2>6, <3>5, <4>1
    <3>. QED  BY <2>5, <3>2, <3>3, <3>4, <3>6, <3>7
  <2>8. IsInjective(p)
    <3>. DEFINE at(i) == IF i < n THEN i ELSE i + 1
    <3>1. \A i \in DOMAIN p : p[i] = q[at(i)] /\ at(i) \in DOMAIN q
      BY <1>1, <2>1, <2>7
    <3>2. ASSUME NEW i \in DOMAIN p, NEW j \in DOMAIN p, p[i] = p[j]
          PROVE  i = j
      <4>1. at(i) = at(j)
        BY <3>1, <3>2 DEF IsInjective
      <4>. QED  BY <2>1, <2>7, <4>1
    <3>. QED  BY <3>2 DEF IsInjective
  <2>9. \A x : InQueue(x, p) <=> InQueue(x, q) /\ x # w
    <3>1. ASSUME NEW i \in DOMAIN p PROVE p[i] # w /\ \E j \in DOMAIN q : q[j] = p[i]
      <4>1. PICK j \in DOMAIN q : p[i] = q[j] /\ j # n
        <5>1. CASE i < n
          <6>1. i \in 1..n - 1 /\ i \in DOMAIN q /\ i # n
            BY <1>1, <2>1, <2>7, <5>1
          <6>. QED  BY <2>7, <6>1
        <5>2. CASE ~(i < n)
          <6>1. i \in n..Len(q) - 1 /\ i + 1 \in DOMAIN q /\ i + 1 # n
            BY <1>1, <2>1, <2>7, <5>2
          <6>. QED  BY <2>7, <6>1
        <5>. QED  BY <5>1, <5>2
      <4>. QED  BY <1>1, <2>1, <4>1 DEF IsInjective
    <3>2. ASSUME NEW i \in DOMAIN q, q[i] # w PROVE \E j \in DOMAIN p : p[j] = q[i]
      <4>1. CASE i < n
        BY <1>1, <2>1, <2>7, <4>1
      <4>2. CASE i > n
        <5>1. i - 1 \in n..Len(q) - 1 /\ p[i - 1] = q[i]
          BY <1>1, <2>1, <2>7, <4>2
        <5>. QED  BY <1>1, <2>1, <2>7, <5>1
      <4>. QED  BY <1>1, <2>1, <3>2, <4>1, <4>2
    <3>. QED  BY <3>1, <3>2 DEF InQueue
  <2>10. ASSUME q # <<>>, Head(q) # w PROVE p # <<>> /\ Head(p) = Head(q)
    <3>1. n > 1 /\ q[1] = Head(q) /\ Len(q) > 1
      BY <1>1, <2>1, <2>10
    <3>2. 1 \in DOMAIN p /\ p[1] = q[1]
      BY <1>1, <2>1, <2>7, <3>1
    <3>. QED  BY <2>7, <3>1, <3>2
  <2>. QED  BY <2>7, <2>8, <2>9, <2>10 DEF p
<1>. QED  BY <1>2, <1>3

-------------------------------------------------------------------------------
(* What is written, and in which order.                                     *)

Entry == [msg : [kind : Senders, n : 0..MaxMessages], ts : Int]

SendTypes ==
    /\ now \in 0..MaxTime /\ arrived \in 0..MaxMessages /\ groups \in 0..MaxMessages
    /\ pending \in [Offers -> Seq(1..MaxMessages)]
    /\ direct \in [Offers -> {"idle", "sending"}]
    /\ sendQ \in [Offers -> Seq(Senders)] /\ \A s \in Offers : IsInjective(sendQ[s])
    /\ stamp \in [Offers -> Int \cup {None}]
    /\ wire \in [Offers -> Seq(Entry)]

\* Each of the three tasks that write is in the queue of the send lock while it has
\* something to send; a stamp is its holder's.
QueuePart ==
    \A s \in Offers :
        /\ InQueue("start", sendQ[s]) <=> link[s] = "starting"
        /\ InQueue("direct", sendQ[s]) <=> direct[s] = "sending"
        /\ InQueue("group", sendQ[s]) <=> assembler[s] = "sending"
        /\ direct[s] = "sending" => pending[s] # <<>>
        /\ stamp[s] # None => sendQ[s] # <<>>

\* Nobody else wants to write before connection_start has gone out.
StartPart ==
    \A s \in Offers :
        /\ link[s] \in {"none", "connecting", "starting"} => wire[s] = <<>>
        /\ wire[s] = <<>> => /\ ~ready[s] /\ direct[s] = "idle"
                             /\ assembler[s] \notin {"packing", "sending"}
        /\ wire[s] # <<>> => wire[s][1].msg.kind = "start"
        /\ \A j \in DOMAIN wire[s] : j > 1 => wire[s][j].msg.kind # "start"
        /\ offer[s] = "accepted" => wire[s] # <<>>

\* Direct messages are numbered as they arrive, and the ones that wait came after
\* the ones that were written.
DirectPart ==
    /\ arrived + groups <= MaxMessages
    /\ \A s \in Offers :
        /\ \A k \in DOMAIN pending[s] :
             /\ pending[s][k] <= arrived
             /\ \A i \in 1..(k - 1) : pending[s][i] < pending[s][k]
             /\ \A i \in DOMAIN wire[s] :
                  wire[s][i].msg.kind = "direct" => wire[s][i].msg.n < pending[s][k]
        /\ \A j \in DOMAIN wire[s] : wire[s][j].msg.kind = "direct" =>
             /\ wire[s][j].msg.n <= arrived
             /\ \A i \in 1..(j - 1) :
                  wire[s][i].msg.kind = "direct" => wire[s][i].msg.n < wire[s][j].msg.n

SendInv == SendTypes /\ QueuePart /\ StartPart /\ DirectPart

HeldCancel(s) == Head(sendQ[s]) = "direct" /\ Head(pending[s]) \in Cancels

\* No stamp is later than the clock, and one that is no cancel's is not earlier than
\* any that was written.
StampPart ==
    \A s \in Offers :
        /\ \A i \in DOMAIN wire[s] : wire[s][i].ts <= now
        /\ stamp[s] # None =>
             /\ stamp[s] <= now
             /\ HeldCancel(s) \/ \A i \in DOMAIN wire[s] : wire[s][i].ts <= stamp[s]
        /\ \A j \in DOMAIN wire[s] : \A i \in 1..(j - 1) :
             IsCancel(wire[s][j]) \/ wire[s][i].ts <= wire[s][j].ts

\* A step that writes nothing and brings nobody to the send lock, though the
\* assembler may be taken out of its queue.
Calm ==
    /\ now' \in 0..MaxTime /\ now <= now'
    /\ UNCHANGED <<arrived, groups, pending, direct, wire>>
    /\ sendQ' \in [Offers -> Seq(Senders)] /\ stamp' \in [Offers -> Int \cup {None}]
    /\ \A s \in Offers :
         /\ IsInjective(sendQ'[s])
         /\ InQueue("start", sendQ'[s]) <=> InQueue("start", sendQ[s])
         /\ InQueue("direct", sendQ'[s]) <=> InQueue("direct", sendQ[s])
         /\ InQueue("group", sendQ'[s]) <=> assembler'[s] = "sending"
         /\ stamp'[s] # None => /\ stamp'[s] = stamp[s] /\ sendQ[s] # <<>>
                                /\ sendQ'[s] # <<>> /\ Head(sendQ'[s]) = Head(sendQ[s])
         /\ link'[s] = "starting" <=> link[s] = "starting"
         /\ link'[s] \in {"none", "connecting"} => link[s] \in {"none", "connecting"}
         /\ ready'[s] => ready[s]
         /\ assembler'[s] \in {"packing", "sending"}
              => assembler[s] \in {"packing", "sending"} \/ ready[s]
         /\ offer'[s] = "accepted" => offer[s] = "accepted" \/ ready[s]

\* Such a step keeps everything.
LEMMA CalmKeeps ==
    ASSUME SendInv, Calm
    PROVE  SendInv' /\ (StampPart => StampPart')
<1>. USE DEF SendInv
<1>1. SendTypes'
  BY DEF SendTypes, Calm
<1>2. QueuePart'
  BY DEF QueuePart, Calm
<1>3. StartPart'
  BY DEF StartPart, Calm
<1>4. DirectPart'
  BY DEF DirectPart, Calm
<1>5. ASSUME StampPart PROVE StampPart'
  <2>1. now \in Int /\ now' \in Int /\ now <= now'
    BY DEF SendTypes, Calm
  <2>2. /\ wire' = wire /\ pending' = pending
        /\ \A s \in Offers : \A i \in DOMAIN wire[s] : wire[s][i].ts \in Int
    <3>1. ASSUME NEW s \in Offers, NEW i \in DOMAIN wire[s] PROVE wire[s][i] \in Entry
      BY DEF SendTypes
    <3>. QED  BY <3>1 DEF Calm, Entry
  <2>3. ASSUME NEW s \in Offers, stamp'[s] # None
        PROVE  stamp'[s] = stamp[s] /\ stamp[s] \in Int /\ (HeldCancel(s)' <=> HeldCancel(s))
    BY <2>2, <2>3 DEF SendTypes, Calm, HeldCancel
  <2>. QED  BY <1>5, <2>1, <2>2, <2>3 DEF StampPart, IsCancel
<1>. QED  BY <1>1, <1>2, <1>3, <1>4, <1>5

\* cleanup() takes the assembler, and no other, out of the queue.
LEMMA CleanupSends ==
    ASSUME Shape, SendInv, NEW s \in Offers, NEW open \in BOOLEAN, Cleanup(s, open)
    PROVE  /\ sendQ' \in [Offers -> Seq(Senders)] /\ stamp' \in [Offers -> Int \cup {None}]
           /\ \A r \in Offers :
                /\ IsInjective(sendQ'[r])
                /\ InQueue("start", sendQ'[r]) <=> InQueue("start", sendQ[r])
                /\ InQueue("direct", sendQ'[r]) <=> InQueue("direct", sendQ[r])
                /\ InQueue("group", sendQ'[r]) <=> assembler'[r] = "sending"
                /\ stamp'[r] # None =>
                     /\ stamp'[r] = stamp[r] /\ sendQ[r] # <<>>
                     /\ sendQ'[r] # <<>> /\ Head(sendQ'[r]) = Head(sendQ[r])
                /\ ready'[r] => ready[r]
                /\ assembler'[r] \in {"packing", "sending"} => assembler'[r] = assembler[r]
<1>. USE DEF SendInv
<1>1. CASE closed[s]
  BY <1>1 DEF Cleanup, SendTypes, QueuePart
<1>2. CASE ~closed[s]
  <2>1. /\ assembler' = [assembler EXCEPT ![s] = "stopped"]
        /\ ready' = [ready EXCEPT ![s] = open /\ @]
        /\ sendQ' = [sendQ EXCEPT ![s] = RemoveFirst(@, "group")]
        /\ stamp' = [stamp EXCEPT ![s] =
                        IF sendQ[s] # <<>> /\ Head(sendQ[s]) = "group" THEN None ELSE @]
    BY <1>2 DEF Cleanup
  <2>2. /\ sendQ[s] \in Seq(Senders) /\ IsInjective(sendQ[s]) /\ "group" \in Senders
    BY DEF SendTypes, Senders
  <2>3. /\ sendQ' \in [Offers -> Seq(Senders)] /\ stamp' \in [Offers -> Int \cup {None}]
        /\ sendQ'[s] = RemoveFirst(sendQ[s], "group")
        /\ \A r \in Offers \ {s} : sendQ'[r] = sendQ[r] /\ stamp'[r] = stamp[r]
        /\ stamp'[s] = IF sendQ[s] # <<>> /\ Head(sendQ[s]) = "group" THEN None ELSE stamp[s]
    BY <2>1, <2>2, QueueLeft DEF SendTypes
  <2>4. /\ assembler'[s] = "stopped" /\ (ready'[s] => ready[s])
        /\ \A r \in Offers \ {s} : assembler'[r] = assembler[r] /\ ready'[r] = ready[r]
    BY <2>1 DEF Shape
  <2>5. /\ IsInjective(sendQ'[s])
        /\ \A x : InQueue(x, sendQ'[s]) <=> InQueue(x, sendQ[s]) /\ x # "group"
        /\ sendQ[s] # <<>> /\ Head(sendQ[s]) # "group"
             => sendQ'[s] # <<>> /\ Head(sendQ'[s]) = Head(sendQ[s])
    <3>. DEFINE q == sendQ[s]
                p == RemoveFirst(q, "group")
    <3>1. /\ IsInjective(p) /\ \A x : InQueue(x, p) <=> InQueue(x, q) /\ x # "group"
          /\ q # <<>> /\ Head(q) # "group" => p # <<>> /\ Head(p) = Head(q)
      BY <2>2, QueueLeft
    <3>2. sendQ'[s] = p
      BY <2>3
    <3>. HIDE DEF p, q
    <3>. QED  BY <3>1, <3>2 DEF q
  <2>6. ASSUME NEW r \in Offers
        PROVE  /\ IsInjective(sendQ'[r])
               /\ InQueue("start", sendQ'[r]) <=> InQueue("start", sendQ[r])
               /\ InQueue("direct", sendQ'[r]) <=> InQueue("direct", sendQ[r])
               /\ InQueue("group", sendQ'[r]) <=> assembler'[r] = "sending"
               /\ stamp'[r] # None =>
                    /\ stamp'[r] = stamp[r] /\ sendQ[r] # <<>>
                    /\ sendQ'[r] # <<>> /\ Head(sendQ'[r]) = Head(sendQ[r])
               /\ ready'[r] => ready[r]
               /\ assembler'[r] \in {"packing", "sending"} => assembler'[r] = assembler[r]
    <3>1. CASE r = s
      <4>1. stamp[s] # None => sendQ[s] # <<>>
        BY DEF QueuePart
      <4>2. stamp'[s] # None => stamp'[s] = stamp[s] /\ sendQ[s] # <<>> /\ Head(sendQ[s]) # "group"
        BY <2>3, <4>1
      <4>. QED  BY <2>4, <2>5, <3>1, <4>2
    <3>2. CASE r # s
      <4>1. /\ sendQ'[r] = sendQ[r] /\ stamp'[r] = stamp[r]
            /\ assembler'[r] = assembler[r] /\ ready'[r] = ready[r]
        BY <2>3, <2>4, <3>2
      <4>2. /\ IsInjective(sendQ[r])
            /\ InQueue("group", sendQ[r]) <=> assembler[r] = "sending"
            /\ stamp[r] # None => sendQ[r] # <<>>
        BY DEF SendTypes, QueuePart
      <4>. QED  BY <4>1, <4>2
    <3>. QED  BY <3>1, <3>2
  <2>. QED  BY <2>3, <2>6
<1>. QED  BY <1>1, <1>2

\* The steps of the offers and of the end of a session, and those of the pipeline
\* task and the assembler that open or close nothing.
LEMMA CalmSteps ==
    ASSUME RelayInv, SendInv, NEW s \in Offers,
           \/ Request(s) \/ Enter(s) \/ Reject(s) \/ Create(s) \/ Answer(s) \/ Accept(s)
           \/ CloseSocket(s) \/ ClosePeer(s) \/ Lose(s) \/ LeaveDone(s) \/ AssemblerStart(s)
           \/ ((Leave(s) \/ Connect(s)) /\ closed[s])
    PROVE  Calm
<1>1. UNCHANGED <<now, arrived, groups, pending, direct, sendVars>>
  BY DEF Request, Enter, Reject, Create, Answer, Accept, CloseSocket, ClosePeer, Lose,
         LeaveDone, AssemblerStart, Leave, Connect, directVars, groupVars, sendVars
<1>2. \A r \in Offers :
         /\ link'[r] = "starting" <=> link[r] = "starting"
         /\ link'[r] \in {"none", "connecting"} => link[r] \in {"none", "connecting"}
  <2>1. CASE link' = link
    BY <2>1
  <2>2. CASE Answer(s)
    BY <2>2 DEF Answer, Holds, RelayInv, Shape, LinkPart
  <2>3. ASSUME link[s] # "starting", NEW l \in {"leaving", "gone", "ending"},
               link' = [link EXCEPT ![s] = l]
        PROVE  \A r \in Offers :
                 /\ link'[r] = "starting" <=> link[r] = "starting"
                 /\ link'[r] \in {"none", "connecting"} => link[r] \in {"none", "connecting"}
    BY <2>3 DEF RelayInv, Shape
  <2>4. CASE Lose(s)
    BY <2>3, <2>4 DEF Lose
  <2>5. CASE LeaveDone(s)
    BY <2>3, <2>5 DEF LeaveDone
  <2>6. CASE Leave(s)
    BY <2>3, <2>6 DEF Leave
  <2>7. CASE Connect(s) /\ closed[s]
    BY <2>3, <2>7 DEF Connect
  <2>. QED
    BY <2>1, <2>2, <2>4, <2>5, <2>6, <2>7
       DEF Request, Enter, Reject, Create, Accept, CloseSocket, ClosePeer, AssemblerStart,
           linkVars
<1>3. \A r \in Offers : ready'[r] => ready[r]
  <2>1. CASE ready' = ready
    BY <2>1
  <2>2. CASE ready' = [ready EXCEPT ![s] = FALSE]
    BY <2>2 DEF RelayInv, Shape
  <2>. QED
    BY <2>1, <2>2
       DEF Request, Enter, Reject, Create, Answer, Accept, CloseSocket, ClosePeer, Lose,
           LeaveDone, AssemblerStart, Leave, Connect, linkVars
<1>4. \A r \in Offers :
         /\ assembler'[r] \in {"packing", "sending"}
              => assembler[r] \in {"packing", "sending"} \/ ready[r]
         /\ assembler'[r] = "sending" <=> assembler[r] = "sending"
  <2>1. CASE assembler' = assembler
    BY <2>1
  <2>2. CASE Create(s)
    <3>1. link[s] = "none"
      BY <2>2 DEF Create, Holds, RelayInv, LinkPart, Shape
    <3>2. assembler[s] # "sending"
      BY <3>1 DEF SendInv, StartPart
    <3>. QED  BY <2>2, <3>2 DEF Create, RelayInv, Shape
  <2>3. CASE AssemblerStart(s)
    BY <2>3 DEF AssemblerStart, RelayInv, Shape
  <2>. QED
    BY <2>1, <2>2, <2>3 DEF Request, Enter, Reject, Answer, Accept, CloseSocket, ClosePeer,
                            Lose, LeaveDone, Leave, Connect, groupVars
<1>5. \A r \in Offers : offer'[r] = "accepted" => offer[r] = "accepted" \/ ready[r]
  <2>1. CASE offer' = offer
    BY <2>1
  <2>2. CASE Accept(s)
    BY <2>2 DEF Accept, Holds, RelayInv, Shape
  <2>3. ASSUME NEW p \in States \ {"accepted"}, offer' = [offer EXCEPT ![s] = p]
        PROVE  \A r \in Offers : offer'[r] = "accepted" => offer[r] = "accepted"
    BY <2>3 DEF RelayInv, Shape
  <2>4. CASE Request(s) \/ Enter(s) \/ Reject(s) \/ Create(s) \/ Answer(s)
    BY <2>1, <2>3, <2>4 DEF Request, Enter, Reject, Create, Answer, Refused, States
  <2>. QED
    BY <2>1, <2>2, <2>4 DEF CloseSocket, ClosePeer, Lose, LeaveDone, AssemblerStart, Leave,
                            Connect, offerVars
<1>. QED
  BY <1>1, <1>2, <1>3, <1>4, <1>5 DEF Calm, SendInv, SendTypes, QueuePart, sendVars

\* The steps that call cleanup().
LEMMA CleanupSteps ==
    ASSUME RelayInv, SendInv, NEW s \in Offers,
           Fail(s) \/ Abort(s) \/ (Leave(s) /\ ~closed[s])
    PROVE  Calm
<1>1. UNCHANGED <<now, arrived, groups, pending, direct, wire>>
  BY DEF Fail, Abort, Leave, directVars
<1>2. PICK open \in BOOLEAN : Cleanup(s, open)
  BY DEF Fail, Abort, Leave, RelayInv, Shape
<1>3. \A r \in Offers :
         /\ link'[r] = "starting" <=> link[r] = "starting"
         /\ link'[r] \in {"none", "connecting"} => link[r] \in {"none", "connecting"}
  BY DEF Fail, Abort, Leave, RelayInv, Shape
<1>4. \A r \in Offers : offer'[r] = "accepted" => offer[r] = "accepted"
  <2>1. CASE Abort(s) \/ Leave(s)
    BY <2>1 DEF Abort, Leave, offerVars
  <2>2. CASE Fail(s)
    BY <2>2 DEF Fail, Refused, RelayInv, Shape
  <2>. QED  BY <2>1, <2>2
<1>. QED
  BY <1>1, <1>2, <1>3, <1>4, CleanupSends DEF Calm, RelayInv, SendInv, SendTypes

\* A sender gets in line.
LEMMA AskSends ==
    ASSUME SendInv, NEW s \in Offers, NEW w \in Senders, ~InQueue(w, sendQ[s]), Queued(s, w)
    PROVE  /\ sendQ' \in [Offers -> Seq(Senders)] /\ \A r \in Offers : IsInjective(sendQ'[r])
           /\ \A x : InQueue(x, sendQ'[s]) <=> InQueue(x, sendQ[s]) \/ x = w
           /\ \A r \in Offers \ {s} : sendQ'[r] = sendQ[r]
           /\ \A r \in Offers : sendQ[r] # <<>>
                => sendQ'[r] # <<>> /\ Head(sendQ'[r]) = Head(sendQ[r])
<1>. DEFINE q == sendQ[s]
            p == Append(q, w)
<1>1. q \in Seq(Senders) /\ IsInjective(q) /\ sendQ \in [Offers -> Seq(Senders)]
      /\ \A r \in Offers : IsInjective(sendQ[r])
  BY DEF SendInv, SendTypes
<1>2. /\ p \in Seq(Senders) /\ IsInjective(p) /\ p # <<>>
      /\ \A x : InQueue(x, p) <=> InQueue(x, q) \/ x = w
      /\ q # <<>> => Head(p) = Head(q)
  BY <1>1, QueueJoined
<1>3. sendQ'[s] = p /\ \A r \in Offers \ {s} : sendQ'[r] = sendQ[r]
  BY <1>1 DEF Queued
<1>4. sendQ' \in [Offers -> Seq(Senders)]
  BY <1>1, <1>2 DEF Queued
<1>. HIDE DEF p, q
<1>. QED  BY <1>1, <1>2, <1>3, <1>4 DEF q

\* Nobody else has the lock of a sender that lets it go.
LEMMA ReleaseSends ==
    ASSUME SendInv, NEW s \in Offers, NEW w \in Senders, Sends(s, w), Released(s)
    PROVE  /\ sendQ' \in [Offers -> Seq(Senders)] /\ \A r \in Offers : IsInjective(sendQ'[r])
           /\ InQueue(w, sendQ[s])
           /\ \A x : InQueue(x, sendQ'[s]) <=> InQueue(x, sendQ[s]) /\ x # w
           /\ \A r \in Offers \ {s} : sendQ'[r] = sendQ[r] /\ stamp'[r] = stamp[r]
           /\ stamp' \in [Offers -> Int \cup {None}] /\ stamp'[s] = None
<1>. DEFINE q == sendQ[s]
            p == Tail(q)
<1>1. /\ q \in Seq(Senders) /\ IsInjective(q) /\ q # <<>> /\ Head(q) = w
      /\ sendQ \in [Offers -> Seq(Senders)] /\ \A r \in Offers : IsInjective(sendQ[r])
      /\ stamp \in [Offers -> Int \cup {None}]
  BY DEF SendInv, SendTypes, Sends
<1>2. /\ p \in Seq(Senders) /\ IsInjective(p) /\ InQueue(w, q)
      /\ \A x : InQueue(x, p) <=> InQueue(x, q) /\ x # w
  BY <1>1, QueueServed
<1>3. sendQ'[s] = p /\ \A r \in Offers \ {s} : sendQ'[r] = sendQ[r] /\ stamp'[r] = stamp[r]
  BY <1>1 DEF Released
<1>4. sendQ' \in [Offers -> Seq(Senders)]
  BY <1>1, <1>2 DEF Released
<1>5. stamp' \in [Offers -> Int \cup {None}] /\ stamp'[s] = None
  BY <1>1 DEF Released
<1>. HIDE DEF p, q
<1>. QED  BY <1>1, <1>2, <1>3, <1>4, <1>5 DEF q

\* What a sender writes.
Sent(s, w) == [msg |-> Message(s, w), ts |-> stamp[s]]

\* What is written goes to the end.
LEMMA WriteSends ==
    ASSUME SendInv, NEW s \in Offers, NEW w \in Senders, Transmitted(s, w)
    PROVE  /\ Sent(s, w) \in Entry /\ Sent(s, w).msg.kind = w
           /\ Sent(s, w).ts = stamp[s] /\ stamp[s] \in Int
           /\ w = "direct" => pending[s] # <<>> /\ Sent(s, w).msg.n = Head(pending[s])
           /\ wire' \in [Offers -> Seq(Entry)]
           /\ Len(wire'[s]) = Len(wire[s]) + 1
           /\ wire'[s][Len(wire[s]) + 1] = Sent(s, w)
           /\ \A i \in 1..Len(wire[s]) : wire'[s][i] = wire[s][i]
           /\ \A r \in Offers \ {s} : wire'[r] = wire[r]
<1>. DEFINE e == Sent(s, w)
<1>1. stamp[s] \in Int
  BY DEF Transmitted, SendInv, SendTypes
<1>2. w = "direct" => pending[s] # <<>>
  <2>1. InQueue(w, sendQ[s])
    BY QueueServed DEF Transmitted, Sends, SendInv, SendTypes
  <2>. QED  BY <2>1 DEF SendInv, QueuePart
<1>3. Message(s, w) \in [kind : Senders, n : 0..MaxMessages]
  <2>1. CASE w = "direct"
    <3>1. pending[s] \in Seq(1..MaxMessages)
      BY DEF SendInv, SendTypes
    <3>2. Head(pending[s]) \in 1..MaxMessages
      BY <1>2, <2>1, <3>1, HeadTailProperties
    <3>. QED  BY <2>1, <3>2, BoundAssumption DEF Message
  <2>2. CASE w # "direct"
    BY <2>2, BoundAssumption DEF Message
  <2>. QED  BY <2>1, <2>2
<1>4. /\ e \in Entry /\ e.msg.kind = w /\ e.ts = stamp[s]
      /\ w = "direct" => e.msg.n = Head(pending[s])
  BY <1>1, <1>3 DEF Entry, Message, Sent
<1>5. /\ wire \in [Offers -> Seq(Entry)] /\ wire[s] \in Seq(Entry)
      /\ wire' = [wire EXCEPT ![s] = Append(wire[s], e)]
  BY DEF SendInv, SendTypes, Transmitted, Written, Sent
<1>. HIDE DEF e
<1>6. /\ Append(wire[s], e) \in Seq(Entry)
      /\ Len(Append(wire[s], e)) = Len(wire[s]) + 1
      /\ Append(wire[s], e)[Len(wire[s]) + 1] = e
      /\ \A i \in 1..Len(wire[s]) : Append(wire[s], e)[i] = wire[s][i]
  BY <1>4, <1>5, AppendProperties
<1>7. wire' \in [Offers -> Seq(Entry)] /\ \A r \in Offers \ {s} : wire'[r] = wire[r]
  BY <1>5, <1>6
<1>8. wire'[s] = Append(wire[s], e)
  BY <1>5
<1>9. /\ Len(wire'[s]) = Len(wire[s]) + 1 /\ wire'[s][Len(wire[s]) + 1] = e
      /\ \A i \in 1..Len(wire[s]) : wire'[s][i] = wire[s][i]
  BY <1>6, <1>8
<1>. QED  BY <1>1, <1>2, <1>4, <1>7, <1>9, Zenon DEF e

\* What a holder of the send lock does when it has written, or given up.
SentStep(s, w) ==
    /\ Sends(s, w) /\ Released(s) /\ (Transmitted(s, w) \/ wire' = wire)
    /\ UNCHANGED <<now, arrived, groups, offer>>
    /\ IF w = "direct" THEN DirectOver(s) ELSE UNCHANGED <<pending, direct>>
    /\ \A r \in Offers \ {s} : link'[r] = link[r] /\ assembler'[r] = assembler[r]
                               /\ ready'[r] = ready[r]
    /\ link'[s] = "starting" <=> (link[s] = "starting" /\ w # "start")
    /\ link'[s] \in {"none", "connecting"} => link[s] \in {"none", "connecting"}
    /\ assembler'[s] = "sending" <=> (assembler[s] = "sending" /\ w # "group")
    /\ assembler'[s] = "packing" => assembler[s] \in {"packing", "sending"}
    /\ ready'[s] => ready[s] \/ Transmitted(s, w)

\* The ends of the three writers are such steps.
LEMMA SentSteps ==
    ASSUME Shape, SendInv, NEW s \in Offers,
           Started(s) \/ NotStarted(s) \/ DirectSent(s) \/ GroupSent(s)
    PROVE  \E w \in Senders : SentStep(s, w)
<1>. USE DEF SentStep, Shape
<1>1. CASE Started(s) \/ NotStarted(s)
  <2>1. InQueue("start", sendQ[s])
    BY <1>1, QueueServed
       DEF Started, NotStarted, Transmitted, NotSent, Sends, SendInv, SendTypes, Senders
  <2>2. link[s] = "starting"
    BY <2>1 DEF SendInv, QueuePart
  <2>3. "start" \in Senders /\ (Transmitted(s, "start") => Sends(s, "start"))
    BY DEF Senders, Transmitted
  <2>4. CASE Started(s)
    BY <2>2, <2>3, <2>4 DEF Started, directVars, groupVars, offerVars
  <2>5. CASE NotStarted(s)
    BY <2>2, <2>3, <2>5 DEF NotStarted, NotSent, directVars, groupVars, offerVars
  <2>. QED  BY <1>1, <2>4, <2>5
<1>2. CASE DirectSent(s)
  <2>1. "direct" \in Senders /\ (Transmitted(s, "direct") => Sends(s, "direct"))
    BY DEF Senders, Transmitted
  <2>. QED  BY <1>2, <2>1 DEF DirectSent, NotSent, linkVars, groupVars, offerVars
<1>3. CASE GroupSent(s)
  <2>1. InQueue("group", sendQ[s])
    BY <1>3, QueueServed
       DEF GroupSent, Transmitted, NotSent, Sends, SendInv, SendTypes, Senders
  <2>2. assembler[s] = "sending"
    BY <2>1 DEF SendInv, QueuePart
  <2>3. "group" \in Senders /\ (Transmitted(s, "group") => Sends(s, "group"))
    BY DEF Senders, Transmitted
  <2>. QED  BY <1>3, <2>2, <2>3 DEF GroupSent, NotSent, linkVars, directVars, offerVars
<1>. QED  BY <1>1, <1>2, <1>3

\* Who writes keeps the order.
LEMMA SentKeeps ==
    ASSUME SendInv, NEW s \in Offers, NEW w \in Senders, SentStep(s, w)
    PROVE  SendInv' /\ (StampPart => StampPart')
<1>. DEFINE L == Len(wire[s])
            e == Sent(s, w)
<1>1. /\ sendQ' \in [Offers -> Seq(Senders)] /\ \A r \in Offers : IsInjective(sendQ'[r])
      /\ InQueue(w, sendQ[s])
      /\ \A x : InQueue(x, sendQ'[s]) <=> InQueue(x, sendQ[s]) /\ x # w
      /\ \A r \in Offers \ {s} : sendQ'[r] = sendQ[r] /\ stamp'[r] = stamp[r]
      /\ stamp' \in [Offers -> Int \cup {None}] /\ stamp'[s] = None
  BY ReleaseSends DEF SentStep
<1>2. wire[s] \in Seq(Entry) /\ L \in Nat /\ DOMAIN wire[s] = 1..L /\ (L = 0 <=> wire[s] = <<>>)
  BY EmptySeq DEF SendInv, SendTypes
<1>3. ASSUME Transmitted(s, w)
      PROVE  /\ e \in Entry /\ e.msg.kind = w /\ e.ts = stamp[s] /\ stamp[s] \in Int
             /\ w = "direct" => pending[s] # <<>> /\ e.msg.n = Head(pending[s])
             /\ DOMAIN wire'[s] = 1..(L + 1) /\ wire'[s] # <<>>
             /\ wire'[s][L + 1] = e /\ \A i \in 1..L : wire'[s][i] = wire[s][i]
  <2>1. wire'[s] \in Seq(Entry) /\ Len(wire'[s]) = L + 1
    BY <1>3, WriteSends
  <2>2. DOMAIN wire'[s] = 1..(L + 1) /\ wire'[s] # <<>>
    BY <1>2, <2>1
  <2>. QED  BY <1>3, <2>2, WriteSends
<1>4. wire' \in [Offers -> Seq(Entry)] /\ \A r \in Offers \ {s} : wire'[r] = wire[r]
  BY WriteSends DEF SentStep, SendInv, SendTypes
<1>5. w = "direct" => pending[s] # <<>>
  BY <1>1 DEF SendInv, QueuePart
<1>6. /\ pending' \in [Offers -> Seq(1..MaxMessages)]
      /\ direct' \in [Offers -> {"idle", "sending"}]
      /\ \A r \in Offers \ {s} : pending'[r] = pending[r] /\ direct'[r] = direct[r]
      /\ w = "direct" => pending'[s] = Tail(pending[s]) /\ direct'[s] = "idle"
      /\ w # "direct" => pending'[s] = pending[s] /\ direct'[s] = direct[s]
  <2>1. pending \in [Offers -> Seq(1..MaxMessages)] /\ direct \in [Offers -> {"idle", "sending"}]
    BY DEF SendInv, SendTypes
  <2>2. w = "direct" => Tail(pending[s]) \in Seq(1..MaxMessages)
    BY <1>5, <2>1
  <2>. QED  BY <2>1, <2>2 DEF SentStep, DirectOver
<1>7. /\ w = "start" => wire[s] = <<>> /\ link'[s] \notin {"none", "connecting", "starting"}
      /\ w # "start" => wire[s] # <<>> /\ link[s] \notin {"none", "connecting", "starting"}
                        /\ link'[s] \notin {"none", "connecting", "starting"}
  <2>1. CASE w = "start"
    BY <1>1, <2>1 DEF SendInv, QueuePart, StartPart, SentStep
  <2>2. CASE w # "start"
    <3>1. w \in {"direct", "group"}
      BY <2>2 DEF Senders
    <3>2. wire[s] # <<>>
      BY <1>1, <3>1 DEF SendInv, QueuePart, StartPart
    <3>. QED  BY <2>2, <3>2 DEF SendInv, StartPart, SentStep
  <2>. QED  BY <2>1, <2>2
<1>8. SendTypes'
  BY <1>1, <1>4, <1>6 DEF SendInv, SendTypes, SentStep
<1>9. QueuePart'
  <2>1. ASSUME NEW r \in Offers, r # s
        PROVE  /\ InQueue("start", sendQ'[r]) <=> link'[r] = "starting"
               /\ InQueue("direct", sendQ'[r]) <=> direct'[r] = "sending"
               /\ InQueue("group", sendQ'[r]) <=> assembler'[r] = "sending"
               /\ direct'[r] = "sending" => pending'[r] # <<>>
               /\ stamp'[r] # None => sendQ'[r] # <<>>
    <3>1. /\ sendQ'[r] = sendQ[r] /\ stamp'[r] = stamp[r]
          /\ pending'[r] = pending[r] /\ direct'[r] = direct[r]
      BY <1>1, <1>6, <2>1
    <3>2. link'[r] = link[r] /\ assembler'[r] = assembler[r]
      BY <2>1 DEF SentStep
    <3>. QED  BY <3>1, <3>2 DEF SendInv, QueuePart
  <2>2. /\ InQueue("start", sendQ'[s]) <=> link'[s] = "starting"
        /\ InQueue("group", sendQ'[s]) <=> assembler'[s] = "sending"
    BY <1>1 DEF SendInv, QueuePart, SentStep
  <2>3. /\ InQueue("direct", sendQ'[s]) <=> direct'[s] = "sending"
        /\ direct'[s] = "sending" => pending'[s] # <<>>
    BY <1>1, <1>6 DEF SendInv, QueuePart
  <2>. QED  BY <1>1, <2>1, <2>2, <2>3 DEF QueuePart
<1>10. StartPart'
  <2>1. ASSUME NEW r \in Offers, r # s
        PROVE  /\ wire'[r] = wire[r] /\ link'[r] = link[r] /\ ready'[r] = ready[r]
               /\ direct'[r] = direct[r] /\ assembler'[r] = assembler[r]
               /\ offer'[r] = offer[r]
    BY <1>4, <1>6, <2>1 DEF SentStep
  <2>2. CASE Transmitted(s, w)
    <3>1. wire'[s][1].msg.kind = "start"
      <4>1. CASE w = "start"
        BY <1>2, <1>3, <1>7, <2>2, <4>1
      <4>2. CASE w # "start"
        <5>1. 1 \in 1..L
          BY <1>2, <1>7, <4>2
        <5>. QED  BY <1>3, <1>7, <2>2, <4>2, <5>1 DEF SendInv, StartPart
      <4>. QED  BY <4>1, <4>2
    <3>2. ASSUME NEW j \in DOMAIN wire'[s], j > 1
          PROVE  wire'[s][j].msg.kind # "start"
      <4>1. CASE j = L + 1
        BY <1>2, <1>3, <1>7, <2>2, <3>2, <4>1
      <4>2. CASE j # L + 1
        <5>1. j \in DOMAIN wire[s] /\ wire'[s][j] = wire[s][j]
          BY <1>2, <1>3, <2>2, <4>2
        <5>. QED  BY <3>2, <5>1 DEF SendInv, StartPart
      <4>. QED  BY <4>1, <4>2
    <3>. QED  BY <1>3, <1>7, <2>1, <2>2, <3>1, <3>2 DEF SendInv, StartPart
  <2>3. CASE wire' = wire /\ ~Transmitted(s, w)
    <3>1. /\ ready'[s] => ready[s]
          /\ direct[s] = "idle" => direct'[s] = "idle"
          /\ assembler'[s] \in {"packing", "sending"} => assembler[s] \in {"packing", "sending"}
          /\ offer'[s] = offer[s]
      BY <1>6, <2>3 DEF SentStep
    <3>. QED  BY <1>7, <2>1, <2>3, <3>1 DEF SendInv, StartPart
  <2>. QED  BY <2>2, <2>3 DEF SentStep
<1>11. ASSUME NEW k \in DOMAIN pending'[s]
       PROVE  /\ pending'[s][k] <= arrived
              /\ \A i \in 1..(k - 1) : pending'[s][i] < pending'[s][k]
              /\ \A i \in DOMAIN wire[s] :
                   wire[s][i].msg.kind = "direct" => wire[s][i].msg.n < pending'[s][k]
              /\ w = "direct" => Head(pending[s]) < pending'[s][k]
  <2>1. CASE w = "direct"
    <3>. DEFINE p == pending[s]
    <3>1. /\ p \in Seq(1..MaxMessages) /\ p # <<>> /\ pending'[s] = Tail(p)
      BY <1>5, <1>6, <2>1 DEF SendInv, SendTypes
    <3>2. /\ Len(p) \in Nat \ {0} /\ DOMAIN p = 1..Len(p) /\ Head(p) = p[1]
          /\ DOMAIN Tail(p) = 1..(Len(p) - 1) /\ \A i \in DOMAIN Tail(p) : Tail(p)[i] = p[i + 1]
      BY <3>1
    <3>3. /\ k + 1 \in DOMAIN p /\ pending'[s][k] = p[k + 1] /\ 1 \in 1..(k + 1 - 1)
          /\ k \in Int
      BY <3>1, <3>2
    <3>4. \A i \in 1..(k - 1) : pending'[s][i] = p[i + 1] /\ i + 1 \in 1..(k + 1 - 1)
      BY <3>1, <3>2
    <3>. DEFINE After(m) == /\ p[m] <= arrived
                            /\ \A i \in 1..(m - 1) : p[i] < p[m]
                            /\ \A i \in DOMAIN wire[s] :
                                 wire[s][i].msg.kind = "direct" => wire[s][i].msg.n < p[m]
    <3>5. After(k + 1)
      <4>1. \A m \in DOMAIN p : After(m)
        BY DEF SendInv, DirectPart
      <4>. HIDE DEF After, p
      <4>. QED  BY <3>3, <4>1
    <3>. HIDE DEF p
    <3>6. ASSUME NEW i \in 1..(k - 1) PROVE pending'[s][i] < pending'[s][k]
      <4>1. pending'[s][i] = p[i + 1] /\ i + 1 \in 1..(k + 1 - 1)
        BY <3>4
      <4>2. p[i + 1] < p[k + 1]
        BY <3>3, <3>5, <4>1
      <4>. QED  BY <3>3, <4>1, <4>2
    <3>7. Head(p) < p[k + 1]
      <4>1. p[1] < p[k + 1]
        BY <3>3, <3>5
      <4>. QED  BY <3>2, <4>1
    <3>. QED  BY <3>3, <3>5, <3>6, <3>7 DEF p
  <2>2. CASE w # "direct"
    BY <1>6, <2>2 DEF SendInv, DirectPart
  <2>. QED  BY <2>1, <2>2
<1>12. DirectPart'
  <2>1. arrived' = arrived /\ groups' = groups
    BY DEF SentStep
  <2>2. CASE Transmitted(s, w)
    <3>1. ASSUME NEW k \in DOMAIN pending'[s], NEW i \in DOMAIN wire'[s],
                 wire'[s][i].msg.kind = "direct"
          PROVE  wire'[s][i].msg.n < pending'[s][k]
      <4>1. CASE i = L + 1
        <5>1. w = "direct" /\ wire'[s][i].msg.n = Head(pending[s])
          BY <1>3, <2>2, <3>1, <4>1
        <5>. QED  BY <1>11, <5>1
      <4>2. CASE i # L + 1
        <5>1. i \in DOMAIN wire[s] /\ wire'[s][i] = wire[s][i]
          BY <1>2, <1>3, <2>2, <4>2
        <5>. QED  BY <1>11, <3>1, <5>1
      <4>. QED  BY <4>1, <4>2
    <3>2. ASSUME NEW j \in DOMAIN wire'[s], wire'[s][j].msg.kind = "direct"
          PROVE  /\ wire'[s][j].msg.n <= arrived
                 /\ \A i \in 1..(j - 1) : wire'[s][i].msg.kind = "direct"
                                            => wire'[s][i].msg.n < wire'[s][j].msg.n
      <4>1. CASE j = L + 1
        <5>1. w = "direct" /\ wire'[s][j].msg.n = Head(pending[s]) /\ pending[s] # <<>>
          BY <1>3, <2>2, <3>2, <4>1
        <5>2. 1 \in DOMAIN pending[s] /\ Head(pending[s]) = pending[s][1]
          BY <5>1 DEF SendInv, SendTypes
        <5>3. \A i \in 1..(j - 1) : i \in DOMAIN wire[s] /\ wire'[s][i] = wire[s][i]
          BY <1>2, <1>3, <2>2, <4>1
        <5>. QED  BY <5>1, <5>2, <5>3 DEF SendInv, DirectPart
      <4>2. CASE j # L + 1
        <5>1. j \in DOMAIN wire[s] /\ wire'[s][j] = wire[s][j]
              /\ \A i \in 1..(j - 1) : wire'[s][i] = wire[s][i]
          BY <1>2, <1>3, <2>2, <4>2
        <5>. QED  BY <3>2, <5>1 DEF SendInv, DirectPart
      <4>. QED  BY <4>1, <4>2
    <3>3. ASSUME NEW r \in Offers, r # s PROVE wire'[r] = wire[r] /\ pending'[r] = pending[r]
      BY <1>4, <1>6, <3>3
    <3>4. ASSUME NEW r \in Offers, r # s
          PROVE  /\ \A k \in DOMAIN pending'[r] :
                      /\ pending'[r][k] <= arrived'
                      /\ \A i \in 1..(k - 1) : pending'[r][i] < pending'[r][k]
                      /\ \A i \in DOMAIN wire'[r] :
                           wire'[r][i].msg.kind = "direct"
                             => wire'[r][i].msg.n < pending'[r][k]
                 /\ \A j \in DOMAIN wire'[r] : wire'[r][j].msg.kind = "direct" =>
                      /\ wire'[r][j].msg.n <= arrived'
                      /\ \A i \in 1..(j - 1) : wire'[r][i].msg.kind = "direct"
                                                 => wire'[r][i].msg.n < wire'[r][j].msg.n
      BY <2>1, <3>3, <3>4 DEF SendInv, DirectPart
    <3>5. arrived' + groups' <= MaxMessages
      BY <2>1 DEF SendInv, DirectPart
    <3>. QED  BY <1>11, <2>1, <3>1, <3>2, <3>4, <3>5 DEF DirectPart
  <2>3. CASE wire' = wire
    BY <1>6, <1>11, <2>1, <2>3 DEF SendInv, DirectPart
  <2>. QED  BY <2>2, <2>3 DEF SentStep
<1>13. ASSUME StampPart PROVE StampPart'
  <2>1. /\ now' = now /\ Head(sendQ[s]) = w
        /\ \A r \in Offers : r # s => (HeldCancel(r)' <=> HeldCancel(r))
    BY <1>1, <1>6 DEF SentStep, Sends, HeldCancel
  <2>2. CASE Transmitted(s, w)
    <3>1. stamp[s] # None
      BY <2>2 DEF Transmitted
    <3>2. ASSUME NEW i \in 1..L PROVE IsCancel(e) \/ wire[s][i].ts <= e.ts
      <4>1. CASE HeldCancel(s)
        BY <1>3, <2>1, <2>2, <4>1 DEF HeldCancel, IsCancel
      <4>2. CASE ~HeldCancel(s)
        BY <1>2, <1>3, <1>13, <2>2, <3>1, <4>2 DEF StampPart
      <4>. QED  BY <4>1, <4>2
    <3>3. ASSUME NEW i \in DOMAIN wire'[s] PROVE wire'[s][i].ts <= now
      <4>1. CASE i = L + 1
        BY <1>3, <1>13, <2>2, <3>1, <4>1 DEF StampPart
      <4>2. CASE i # L + 1
        <5>1. i \in DOMAIN wire[s] /\ wire'[s][i] = wire[s][i]
          BY <1>2, <1>3, <2>2, <4>2
        <5>. QED  BY <1>13, <5>1 DEF StampPart
      <4>. QED  BY <4>1, <4>2
    <3>4. ASSUME NEW j \in DOMAIN wire'[s], NEW i \in 1..(j - 1)
          PROVE  IsCancel(wire'[s][j]) \/ wire'[s][i].ts <= wire'[s][j].ts
      <4>1. CASE j = L + 1
        BY <1>2, <1>3, <2>2, <3>2, <4>1
      <4>2. CASE j # L + 1
        <5>1. j \in 1..L /\ i \in 1..L
          <6>1. DOMAIN wire'[s] = 1..(L + 1) /\ L \in Nat
            BY <1>2, <1>3, <2>2
          <6>. HIDE DEF L
          <6>. QED  BY <4>2, <6>1
        <5>2. j \in DOMAIN wire[s] /\ wire'[s][j] = wire[s][j] /\ wire'[s][i] = wire[s][i]
          BY <1>2, <1>3, <2>2, <5>1
        <5>. QED  BY <1>13, <5>2 DEF StampPart
      <4>. QED  BY <4>1, <4>2
    <3>. QED  BY <1>1, <1>4, <1>13, <2>1, <3>3, <3>4 DEF StampPart, IsCancel
  <2>3. CASE wire' = wire
    BY <1>1, <1>13, <2>1, <2>3 DEF StampPart, IsCancel
  <2>. QED  BY <2>2, <2>3 DEF SentStep
<1>. QED  BY <1>8, <1>9, <1>10, <1>12, <1>13 DEF SendInv

\* What a task does when it gets in line for the send lock.
AskStep(s, w) ==
    /\ ~InQueue(w, sendQ[s]) /\ Queued(s, w)
    /\ UNCHANGED <<now, offer, arrived, pending, stamp, wire, ready>>
    /\ groups' \in 0..MaxMessages /\ arrived + groups' <= MaxMessages
    /\ direct' \in [Offers -> {"idle", "sending"}]
    /\ \A r \in Offers \ {s} : link'[r] = link[r] /\ assembler'[r] = assembler[r]
                               /\ direct'[r] = direct[r]
    /\ link'[s] = "starting" <=> (link[s] = "starting" \/ w = "start")
    /\ link'[s] \in {"none", "connecting"} => link[s] \in {"none", "connecting"}
    /\ direct'[s] = "sending" <=> (direct[s] = "sending" \/ w = "direct")
    /\ assembler'[s] = "sending" <=> (assembler[s] = "sending" \/ w = "group")
    /\ assembler'[s] = "packing" => assembler[s] = "packing"
    /\ w = "direct" => pending[s] # <<>>
    /\ w = "start" <=> wire[s] = <<>>

\* The three writers get in line this way.
LEMMA AskSteps ==
    ASSUME Shape, SendInv, NEW s \in Offers,
           (Connect(s) /\ ~closed[s]) \/ DirectReady(s) \/ Assemble(s)
    PROVE  \E w \in Senders : AskStep(s, w)
<1>1. /\ now \in 0..MaxTime /\ arrived \in 0..MaxMessages /\ groups \in 0..MaxMessages
      /\ direct \in [Offers -> {"idle", "sending"}] /\ arrived + groups <= MaxMessages
  BY DEF SendInv, SendTypes, DirectPart
<1>2. /\ link[s] = "connecting" => wire[s] = <<>> /\ ~InQueue("start", sendQ[s])
      /\ ready[s] \/ assembler[s] = "packing" => wire[s] # <<>>
      /\ direct[s] = "idle" => ~InQueue("direct", sendQ[s])
      /\ assembler[s] = "packing" => ~InQueue("group", sendQ[s])
  BY DEF SendInv, QueuePart, StartPart
<1>3. CASE Connect(s) /\ ~closed[s]
  <2>1. AskStep(s, "start")
    BY <1>1, <1>2, <1>3 DEF Connect, AskStep, Shape, directVars, groupVars, offerVars
  <2>. QED  BY <2>1 DEF Senders
<1>4. CASE DirectReady(s)
  <2>1. AskStep(s, "direct")
    BY <1>1, <1>2, <1>4 DEF DirectReady, AskStep, linkVars, groupVars, offerVars
  <2>. QED  BY <2>1 DEF Senders
<1>5. CASE Assemble(s)
  <2>1. groups' \in 0..MaxMessages /\ arrived + groups' <= MaxMessages
    BY <1>1, <1>5, BoundAssumption DEF Assemble
  <2>2. AskStep(s, "group")
    BY <1>1, <1>2, <1>5, <2>1 DEF Assemble, AskStep, Shape, linkVars, directVars, offerVars
  <2>. QED  BY <2>2 DEF Senders
<1>. QED  BY <1>3, <1>4, <1>5

\* Who gets in line disturbs nobody.
LEMMA AskKeeps ==
    ASSUME SendInv, NEW s \in Offers, NEW w \in Senders, AskStep(s, w)
    PROVE  SendInv' /\ (StampPart => StampPart')
<1>1. /\ sendQ' \in [Offers -> Seq(Senders)] /\ \A r \in Offers : IsInjective(sendQ'[r])
      /\ \A x : InQueue(x, sendQ'[s]) <=> InQueue(x, sendQ[s]) \/ x = w
      /\ \A r \in Offers \ {s} : sendQ'[r] = sendQ[r]
      /\ \A r \in Offers : sendQ[r] # <<>>
           => sendQ'[r] # <<>> /\ Head(sendQ'[r]) = Head(sendQ[r])
  BY AskSends DEF AskStep
<1>2. SendTypes'
  BY <1>1 DEF SendInv, SendTypes, AskStep
<1>3. QueuePart'
  <2>1. ASSUME NEW r \in Offers, r # s
        PROVE  /\ InQueue("start", sendQ'[r]) <=> link'[r] = "starting"
               /\ InQueue("direct", sendQ'[r]) <=> direct'[r] = "sending"
               /\ InQueue("group", sendQ'[r]) <=> assembler'[r] = "sending"
               /\ direct'[r] = "sending" => pending'[r] # <<>>
               /\ stamp'[r] # None => sendQ'[r] # <<>>
    BY <1>1, <2>1 DEF SendInv, QueuePart, AskStep
  <2>2. /\ InQueue("start", sendQ'[s]) <=> link'[s] = "starting"
        /\ InQueue("direct", sendQ'[s]) <=> direct'[s] = "sending"
        /\ InQueue("group", sendQ'[s]) <=> assembler'[s] = "sending"
    BY <1>1 DEF SendInv, QueuePart, AskStep
  <2>3. /\ direct'[s] = "sending" => pending'[s] # <<>>
        /\ stamp'[s] # None => sendQ'[s] # <<>>
    BY <1>1 DEF SendInv, QueuePart, AskStep
  <2>. QED  BY <2>1, <2>2, <2>3 DEF QueuePart
<1>4. StartPart'
  <2>1. ASSUME NEW r \in Offers
        PROVE  /\ wire'[r] = wire[r] /\ ready'[r] = ready[r] /\ offer'[r] = offer[r]
               /\ link'[r] \in {"none", "connecting", "starting"} => wire[r] = <<>>
               /\ wire[r] = <<>> => /\ ~ready[r] /\ direct'[r] = "idle"
                                    /\ assembler'[r] \notin {"packing", "sending"}
    <3>1. CASE r = s
      BY <3>1 DEF SendInv, StartPart, AskStep
    <3>2. CASE r # s
      BY <3>2 DEF SendInv, StartPart, AskStep
    <3>. QED  BY <3>1, <3>2
  <2>. QED  BY <2>1 DEF SendInv, StartPart
<1>5. DirectPart'
  BY DEF SendInv, DirectPart, AskStep
<1>6. ASSUME StampPart PROVE StampPart'
  <2>1. ASSUME NEW r \in Offers, stamp'[r] # None
        PROVE  stamp'[r] = stamp[r] /\ (HeldCancel(r)' <=> HeldCancel(r))
    BY <1>1, <2>1 DEF SendInv, QueuePart, AskStep, HeldCancel
  <2>. QED  BY <1>6, <2>1 DEF StampPart, AskStep, IsCancel
<1>. QED  BY <1>2, <1>3, <1>4, <1>5, <1>6 DEF SendInv

\* A stamp is taken from the clock, and a cancel's is trimmed.
LEMMA StampKeeps ==
    ASSUME SendInv, NEW s \in Offers, Stamp(s)
    PROVE  SendInv' /\ (StampPart /\ CancelOffset <= 0 => StampPart')
<1>1. /\ UNCHANGED <<now, arrived, groups, pending, direct, sendQ, wire, link, ready,
                     assembler, offer>>
      /\ sendQ[s] # <<>> /\ stamp' = [stamp EXCEPT ![s] = Trimmed(s, Head(sendQ[s]))]
  BY DEF Stamp, directVars, groupVars, linkVars, offerVars
<1>2. /\ now \in Int /\ CancelOffset \in Int /\ stamp \in [Offers -> Int \cup {None}]
      /\ Trimmed(s, Head(sendQ[s])) \in Int
      /\ ~HeldCancel(s) => Trimmed(s, Head(sendQ[s])) = now
      /\ CancelOffset <= 0 => Trimmed(s, Head(sendQ[s])) <= now
  <2>1. now \in Int /\ CancelOffset \in Int /\ stamp \in [Offers -> Int \cup {None}]
    BY CancelAssumption DEF SendInv, SendTypes
  <2>2. CASE HeldCancel(s)
    BY <2>1, <2>2 DEF HeldCancel, Trimmed
  <2>3. CASE ~HeldCancel(s)
    BY <2>1, <2>3 DEF HeldCancel, Trimmed
  <2>. QED  BY <2>1, <2>2, <2>3
<1>3. stamp' \in [Offers -> Int \cup {None}] /\ stamp'[s] = Trimmed(s, Head(sendQ[s]))
      /\ \A r \in Offers \ {s} : stamp'[r] = stamp[r]
  BY <1>1, <1>2
<1>4. SendTypes'
  BY <1>1, <1>3 DEF SendInv, SendTypes
<1>5. QueuePart'
  BY <1>1, <1>3 DEF SendInv, QueuePart
<1>6. StartPart'
  BY <1>1 DEF SendInv, StartPart
<1>7. DirectPart'
  BY <1>1 DEF SendInv, DirectPart
<1>8. ASSUME StampPart, CancelOffset <= 0 PROVE StampPart'
  <2>1. \A r \in Offers : HeldCancel(r)' <=> HeldCancel(r)
    BY <1>1 DEF HeldCancel
  <2>2. stamp'[s] <= now /\ (HeldCancel(s) \/ \A i \in DOMAIN wire[s] : wire[s][i].ts <= stamp'[s])
    BY <1>2, <1>3, <1>8 DEF StampPart
  <2>. QED  BY <1>1, <1>3, <1>8, <2>1, <2>2 DEF StampPart, IsCancel
<1>. QED  BY <1>4, <1>5, <1>6, <1>7, <1>8 DEF SendInv

\* A direct message arrives: it goes behind those that wait.
LEMMA DirectKeeps ==
    ASSUME SendInv, NEW s \in Offers, Direct(s)
    PROVE  SendInv' /\ (StampPart => StampPart')
<1>. DEFINE p == pending[s]
            n == arrived + 1
<1>1. /\ UNCHANGED <<now, groups, direct, sendQ, stamp, wire, link, ready, assembler, offer>>
      /\ arrived + groups < MaxMessages /\ arrived' = n
      /\ pending' = [pending EXCEPT ![s] = Append(p, n)]
  BY DEF Direct, groupVars, linkVars, offerVars, sendVars
<1>2. /\ arrived \in Int /\ n \in 1..MaxMessages /\ n + groups <= MaxMessages
      /\ pending \in [Offers -> Seq(1..MaxMessages)] /\ p \in Seq(1..MaxMessages)
  BY <1>1, BoundAssumption DEF SendInv, SendTypes
<1>3. /\ Append(p, n) \in Seq(1..MaxMessages) /\ Append(p, n) # <<>>
      /\ DOMAIN Append(p, n) = 1..(Len(p) + 1) /\ DOMAIN p = 1..Len(p) /\ Len(p) \in Nat
      /\ Append(p, n)[Len(p) + 1] = n /\ \A i \in 1..Len(p) : Append(p, n)[i] = p[i]
      /\ p # <<>> => Head(Append(p, n)) = Head(p)
      /\ \A r \in Offers : \A k \in DOMAIN pending[r] : pending[r][k] \in Int
  <2>. HIDE DEF n, p
  <2>1. /\ Append(p, n) \in Seq(1..MaxMessages) /\ Len(Append(p, n)) = Len(p) + 1
        /\ Append(p, n)[Len(p) + 1] = n /\ \A i \in 1..Len(p) : Append(p, n)[i] = p[i]
    BY <1>2, AppendProperties
  <2>2. DOMAIN Append(p, n) = 1..(Len(p) + 1) /\ DOMAIN p = 1..Len(p) /\ Len(p) \in Nat
    BY <1>2, <2>1
  <2>3. Append(p, n) # <<>> /\ (p # <<>> => Head(Append(p, n)) = Head(p))
    <3>1. Append(p, n) # <<>>
      BY <2>1, <2>2
    <3>2. ASSUME p # <<>> PROVE Head(Append(p, n)) = Head(p)
      <4>1. 1 \in 1..Len(p) /\ Head(p) = p[1]
        BY <1>2, <2>2, <3>2
      <4>2. Head(Append(p, n)) = Append(p, n)[1]
        BY <2>1, <3>1, HeadTailProperties
      <4>. QED  BY <2>1, <4>1, <4>2
    <3>. QED  BY <3>1, <3>2
  <2>4. ASSUME NEW r \in Offers, NEW k \in DOMAIN pending[r] PROVE pending[r][k] \in Int
    <3>. DEFINE q == pending[r]
    <3>1. q \in Seq(1..MaxMessages) /\ k \in DOMAIN q
      BY <1>2
    <3>. HIDE DEF q
    <3>2. k \in 1..Len(q)
      BY <3>1
    <3>3. q[k] \in 1..MaxMessages
      BY <3>1, <3>2, ElementOfSeq
    <3>. QED  BY <3>3 DEF q
  <2>. QED  BY <2>1, <2>2, <2>3, <2>4
<1>4. /\ pending' \in [Offers -> Seq(1..MaxMessages)] /\ pending'[s] = Append(p, n)
      /\ \A r \in Offers \ {s} : pending'[r] = pending[r]
  BY <1>1, <1>2, <1>3
<1>5. SendTypes'
  BY <1>1, <1>2, <1>4 DEF SendInv, SendTypes
<1>6. QueuePart'
  BY <1>1, <1>3, <1>4 DEF SendInv, QueuePart
<1>7. StartPart'
  BY <1>1 DEF SendInv, StartPart
<1>8. DirectPart'
  <2>1. ASSUME NEW r \in Offers, NEW j \in DOMAIN wire'[r], wire'[r][j].msg.kind = "direct"
        PROVE  /\ wire'[r][j].msg.n < n
               /\ \A i \in 1..(j - 1) :
                    wire'[r][i].msg.kind = "direct" => wire'[r][i].msg.n < wire'[r][j].msg.n
    <3>1. wire[r][j] \in Entry
      BY <1>1, <2>1 DEF SendInv, SendTypes
    <3>2. wire[r][j].msg.n \in Int
      BY <3>1, BoundAssumption DEF Entry
    <3>. QED  BY <1>1, <1>2, <2>1, <3>2 DEF SendInv, DirectPart
  <2>2. ASSUME NEW r \in Offers, NEW k \in DOMAIN pending[r]
        PROVE  /\ pending[r][k] < n
               /\ \A i \in 1..(k - 1) : pending[r][i] < pending[r][k]
               /\ \A i \in DOMAIN wire'[r] :
                    wire'[r][i].msg.kind = "direct" => wire'[r][i].msg.n < pending[r][k]
    <3>1. pending[r][k] \in Int
      BY <1>3
    <3>. QED  BY <1>1, <1>2, <2>2, <3>1 DEF SendInv, DirectPart
  <2>3. ASSUME NEW k \in DOMAIN pending'[s]
        PROVE  /\ pending'[s][k] <= n
               /\ \A i \in 1..(k - 1) : pending'[s][i] < pending'[s][k]
               /\ \A i \in DOMAIN wire'[s] :
                    wire'[s][i].msg.kind = "direct" => wire'[s][i].msg.n < pending'[s][k]
    <3>1. CASE k = Len(p) + 1
      <4>1. pending'[s][k] = n /\ \A i \in 1..(k - 1) : i \in DOMAIN p /\ pending'[s][i] = p[i]
        BY <1>3, <1>4, <3>1
      <4>. QED  BY <1>2, <2>1, <2>2, <4>1
    <3>2. CASE k # Len(p) + 1
      <4>1. k \in DOMAIN p /\ pending'[s][k] = p[k] /\ p[k] \in Int
            /\ \A i \in 1..(k - 1) : pending'[s][i] = p[i]
        <5>1. DOMAIN pending'[s] = 1..(Len(p) + 1)
          BY <1>3, <1>4
        <5>2. k \in 1..Len(p)
          BY <1>3, <3>2, <5>1
        <5>3. pending'[s][k] = p[k] /\ p[k] \in Int
          BY <1>3, <1>4, <5>2
        <5>4. \A i \in 1..(k - 1) : i \in 1..Len(p)
          BY <1>3, <5>2
        <5>. QED  BY <1>3, <1>4, <5>2, <5>3, <5>4
      <4>2. /\ p[k] < n /\ \A i \in 1..(k - 1) : p[i] < p[k]
            /\ \A i \in DOMAIN wire'[s] :
                 wire'[s][i].msg.kind = "direct" => wire'[s][i].msg.n < p[k]
        BY <2>2, <4>1
      <4>3. p[k] <= n
        BY <1>2, <4>1, <4>2
      <4>. HIDE DEF n, p
      <4>. QED  BY <4>1, <4>2, <4>3
    <3>. QED  BY <3>1, <3>2
  <2>4. ASSUME NEW r \in Offers, r # s, NEW k \in DOMAIN pending'[r]
        PROVE  pending'[r] = pending[r] /\ pending[r][k] <= n
    <3>1. pending'[r] = pending[r] /\ pending[r][k] \in Int
      BY <1>3, <1>4, <2>4
    <3>. QED  BY <1>2, <2>2, <2>4, <3>1
  <2>5. ASSUME NEW r \in Offers, NEW j \in DOMAIN wire'[r], wire'[r][j].msg.kind = "direct"
        PROVE  wire'[r][j].msg.n <= n
    <3>1. wire[r][j] \in Entry
      BY <1>1, <2>5 DEF SendInv, SendTypes
    <3>2. wire[r][j].msg.n \in Int
      BY <3>1, BoundAssumption DEF Entry
    <3>. QED  BY <1>1, <1>2, <2>1, <2>5, <3>2
  <2>6. arrived' = n /\ arrived' + groups' <= MaxMessages
    BY <1>1, <1>2
  <2>. HIDE DEF n, p
  <2>. QED  BY <2>1, <2>2, <2>3, <2>4, <2>5, <2>6 DEF DirectPart
<1>9. ASSUME StampPart PROVE StampPart'
  <2>1. ASSUME NEW r \in Offers, stamp[r] # None PROVE HeldCancel(r)' <=> HeldCancel(r)
    <3>1. sendQ[r] # <<>> /\ sendQ[r] \in Seq(Senders) /\ IsInjective(sendQ[r])
      BY <2>1 DEF SendInv, SendTypes, QueuePart
    <3>2. Head(sendQ[r]) = "direct" => pending[r] # <<>>
      BY <3>1, QueueServed DEF SendInv, QueuePart
    <3>. QED  BY <1>1, <1>3, <1>4, <3>2 DEF HeldCancel
  <2>. QED  BY <1>1, <1>9, <2>1 DEF StampPart, IsCancel
<1>. QED  BY <1>5, <1>6, <1>7, <1>8, <1>9 DEF SendInv

\* A message whose session closed is dropped from its place in front.
LEMMA DroppedKeeps ==
    ASSUME SendInv, NEW s \in Offers, DirectDropped(s)
    PROVE  SendInv' /\ (StampPart => StampPart')
<1>. DEFINE p == pending[s]
<1>1. /\ UNCHANGED <<now, arrived, groups, sendQ, stamp, wire, link, ready, assembler, offer>>
      /\ p # <<>> /\ direct[s] = "idle"
      /\ pending' = [pending EXCEPT ![s] = Tail(p)]
      /\ direct' = [direct EXCEPT ![s] = "idle"]
  BY DEF DirectDropped, DirectOver, groupVars, linkVars, offerVars, sendVars
<1>2. /\ pending \in [Offers -> Seq(1..MaxMessages)] /\ p \in Seq(1..MaxMessages)
      /\ direct \in [Offers -> {"idle", "sending"}]
  BY DEF SendInv, SendTypes
<1>3. /\ Tail(p) \in Seq(1..MaxMessages) /\ Len(p) \in Nat \ {0} /\ DOMAIN p = 1..Len(p)
      /\ DOMAIN Tail(p) = 1..(Len(p) - 1) /\ \A i \in DOMAIN Tail(p) : Tail(p)[i] = p[i + 1]
  BY <1>1, <1>2
<1>4. /\ pending' \in [Offers -> Seq(1..MaxMessages)] /\ pending'[s] = Tail(p)
      /\ direct' = direct /\ \A r \in Offers \ {s} : pending'[r] = pending[r]
  BY <1>1, <1>2, <1>3
<1>5. SendTypes'
  BY <1>1, <1>2, <1>4 DEF SendInv, SendTypes
<1>6. QueuePart'
  BY <1>1, <1>4 DEF SendInv, QueuePart
<1>7. StartPart'
  BY <1>1, <1>4 DEF SendInv, StartPart
<1>8. DirectPart'
  <2>. DEFINE After(q, m) == /\ q[m] <= arrived
                             /\ \A i \in 1..(m - 1) : q[i] < q[m]
                             /\ \A i \in DOMAIN wire[s] :
                                  wire[s][i].msg.kind = "direct" => wire[s][i].msg.n < q[m]
  <2>1. \A m \in DOMAIN p : After(p, m)
    BY DEF SendInv, DirectPart
  <2>2. ASSUME NEW k \in DOMAIN Tail(p) PROVE After(Tail(p), k)
    <3>1. k \in Int /\ k + 1 \in DOMAIN p /\ Tail(p)[k] = p[k + 1]
      BY <1>3, <2>2
    <3>2. ASSUME NEW i \in 1..(k - 1)
          PROVE  Tail(p)[i] = p[i + 1] /\ i + 1 \in 1..((k + 1) - 1)
      BY <1>3, <2>2, <3>1, <3>2
    <3>3. After(p, k + 1)
      BY <2>1, <3>1, Zenon
    <3>. HIDE DEF p
    <3>. QED  BY <3>1, <3>2, <3>3
  <2>3. ASSUME NEW r \in Offers, r # s PROVE pending'[r] = pending[r]
    BY <1>4, <2>3
  <2>. QED  BY <1>1, <1>4, <2>2, <2>3 DEF SendInv, DirectPart
<1>9. ASSUME StampPart PROVE StampPart'
  <2>1. ASSUME NEW r \in Offers, stamp[r] # None PROVE HeldCancel(r)' <=> HeldCancel(r)
    <3>1. sendQ[r] # <<>> /\ sendQ[r] \in Seq(Senders) /\ IsInjective(sendQ[r])
      BY <2>1 DEF SendInv, SendTypes, QueuePart
    <3>2. Head(sendQ[r]) = "direct" => direct[r] = "sending"
      BY <3>1, QueueServed DEF SendInv, QueuePart
    <3>. QED  BY <1>1, <1>4, <3>2 DEF HeldCancel
  <2>. QED  BY <1>1, <1>9, <2>1 DEF StampPart, IsCancel
<1>. QED  BY <1>5, <1>6, <1>7, <1>8, <1>9 DEF SendInv

\* Nothing is written at the start.
LEMMA SendInit == Init => SendInv /\ StampPart
<1>. SUFFICES ASSUME Init PROVE SendInv /\ StampPart
  OBVIOUS
<1>. USE DEF Init
<1>1. SendTypes
  BY BoundAssumption DEF SendTypes, IsInjective
<1>2. QueuePart
  BY DEF QueuePart, InQueue
<1>3. StartPart
  BY DEF StartPart
<1>4. DirectPart
  BY BoundAssumption DEF DirectPart
<1>5. StampPart
  BY DEF StampPart
<1>. QED  BY <1>1, <1>2, <1>3, <1>4, <1>5 DEF SendInv

\* Every step keeps the order; a cancel's stamp keeps behind the clock when the trim
\* is not into the future.
LEMMA SendStep ==
    RelayInv /\ SendInv /\ [Next]_vars
      => SendInv' /\ (StampPart /\ CancelOffset <= 0 => StampPart')
<1>. SUFFICES ASSUME RelayInv, SendInv, [Next]_vars
              PROVE  SendInv' /\ (StampPart /\ CancelOffset <= 0 => StampPart')
  OBVIOUS
<1>1. CASE UNCHANGED vars
  <2>1. Calm
    BY <1>1 DEF Calm, vars, offerVars, linkVars, directVars, groupVars, sendVars, SendInv,
                SendTypes, QueuePart
  <2>. QED  BY <2>1, CalmKeeps
<1>2. CASE Tick
  <2>1. Calm
    BY <1>2, BoundAssumption
       DEF Tick, Calm, offerVars, linkVars, directVars, groupVars, sendVars, SendInv,
           SendTypes, QueuePart
  <2>. QED  BY <2>1, CalmKeeps
<1>3. ASSUME NEW s \in Offers,
             \/ Request(s) \/ Enter(s) \/ Reject(s) \/ Create(s) \/ Answer(s) \/ Accept(s)
             \/ CloseSocket(s) \/ ClosePeer(s) \/ Lose(s) \/ LeaveDone(s) \/ AssemblerStart(s)
             \/ ((Leave(s) \/ Connect(s)) /\ closed[s])
      PROVE  SendInv' /\ (StampPart => StampPart')
  BY <1>3, CalmSteps, CalmKeeps
<1>4. ASSUME NEW s \in Offers, Fail(s) \/ Abort(s) \/ (Leave(s) /\ ~closed[s])
      PROVE  SendInv' /\ (StampPart => StampPart')
  BY <1>4, CleanupSteps, CalmKeeps
<1>5. ASSUME NEW s \in Offers, Started(s) \/ NotStarted(s) \/ DirectSent(s) \/ GroupSent(s)
      PROVE  SendInv' /\ (StampPart => StampPart')
  BY <1>5, SentSteps, SentKeeps DEF RelayInv
<1>6. ASSUME NEW s \in Offers, (Connect(s) /\ ~closed[s]) \/ DirectReady(s) \/ Assemble(s)
      PROVE  SendInv' /\ (StampPart => StampPart')
  BY <1>6, AskSteps, AskKeeps DEF RelayInv
<1>7. CASE Next
  <2>1. CASE Tick
    BY <1>2, <2>1
  <2>2. ASSUME NEW s \in Offers,
               \/ Request(s) \/ Enter(s) \/ Reject(s) \/ Create(s) \/ Answer(s)
               \/ Accept(s) \/ Fail(s)
               \/ CloseSocket(s) \/ ClosePeer(s) \/ Abort(s)
               \/ Connect(s) \/ Started(s) \/ NotStarted(s) \/ Lose(s) \/ Leave(s)
               \/ LeaveDone(s)
               \/ Direct(s) \/ DirectReady(s) \/ DirectDropped(s) \/ DirectSent(s)
               \/ Stamp(s) \/ AssemblerStart(s) \/ Assemble(s) \/ GroupSent(s)
        PROVE  SendInv' /\ (StampPart /\ CancelOffset <= 0 => StampPart')
    <3>1. CASE \/ Request(s) \/ Enter(s) \/ Reject(s) \/ Create(s) \/ Answer(s) \/ Accept(s)
               \/ CloseSocket(s) \/ ClosePeer(s) \/ Lose(s) \/ LeaveDone(s)
               \/ AssemblerStart(s)
      BY <1>3, <3>1
    <3>2. CASE Leave(s) \/ Connect(s)
      BY <1>3, <1>4, <1>6, <3>2
    <3>3. CASE Fail(s) \/ Abort(s)
      <4>1. SendInv' /\ (StampPart => StampPart')
        BY <1>4, <3>3, Zenon
      <4>. QED  BY <4>1
    <3>4. CASE Started(s) \/ NotStarted(s) \/ DirectSent(s) \/ GroupSent(s)
      BY <1>5, <3>4
    <3>5. CASE DirectReady(s) \/ Assemble(s)
      BY <1>6, <3>5
    <3>6. CASE Direct(s) \/ DirectDropped(s) \/ Stamp(s)
      BY <3>6, DirectKeeps, DroppedKeeps, StampKeeps
    <3>. QED  BY <2>2, <3>1, <3>2, <3>3, <3>4, <3>5, <3>6
  <2>. QED  BY <1>7, <2>1, <2>2, NextSteps, Zenon
<1>. QED  BY <1>1, <1>7

\* The parts together are the order of the WebSocket.
LEMMA SendImplies == SendInv /\ StampPart => WireInOrder
<1>. SUFFICES ASSUME SendInv, StampPart, NEW s \in Offers
              PROVE  /\ wire[s] # <<>> => wire[s][1].msg.kind = "start"
                     /\ offer[s] = "accepted" => wire[s] # <<>>
                     /\ \A j \in DOMAIN wire[s] : \A i \in 1..(j - 1) :
                          /\ wire[s][j].msg.kind # "start"
                          /\ IsCancel(wire[s][j]) \/ wire[s][i].ts <= wire[s][j].ts
                          /\ (wire[s][i].msg.kind = "direct" /\ wire[s][j].msg.kind = "direct")
                               => wire[s][i].msg.n < wire[s][j].msg.n
  BY DEF WireInOrder
<1>1. /\ wire[s] # <<>> => wire[s][1].msg.kind = "start"
      /\ offer[s] = "accepted" => wire[s] # <<>>
  BY DEF SendInv, StartPart
<1>2. ASSUME NEW j \in DOMAIN wire[s], NEW i \in 1..(j - 1)
      PROVE  /\ wire[s][j].msg.kind # "start"
             /\ IsCancel(wire[s][j]) \/ wire[s][i].ts <= wire[s][j].ts
             /\ (wire[s][i].msg.kind = "direct" /\ wire[s][j].msg.kind = "direct")
                  => wire[s][i].msg.n < wire[s][j].msg.n
  <2>1. j > 1
    <3>1. wire[s] \in Seq(Entry)
      BY DEF SendInv, SendTypes
    <3>. QED  BY <1>2, <3>1
  <2>. QED  BY <2>1 DEF SendInv, StartPart, StampPart, DirectPart
<1>. QED  BY <1>1, <1>2

\* The variables of a gateway session keep their types, and no sender waits for the
\* send lock twice.
THEOREM GatewayTypes == Spec => []TypeOK
<1>1. RelayInv /\ SendInv => TypeOK
  BY DEF RelayInv, Shape, States, SendInv, SendTypes, TypeOK, Entry
<1>. QED  BY <1>1, RelayInit, RelayStep, SendInit, SendStep, PTL DEF Spec

\* What goes out on a session's WebSocket is in order, whatever tasks of the session
\* wait for the send lock and whoever closes it meanwhile: connection_start first,
\* direct messages as they arrived, and no message but a cancel stamped before one
\* that was sent earlier.  The trim of a cancel's stamp must not be into the future.
THEOREM WireIsInOrder ==
    ASSUME CancelOffset <= 0
    PROVE  Spec => []WireInOrder
<1>1. RelayInv /\ SendInv /\ StampPart /\ [Next]_vars => (RelayInv /\ SendInv /\ StampPart)'
  BY RelayStep, SendStep
<1>2. Init => RelayInv /\ SendInv /\ StampPart
  BY RelayInit, SendInit
<1>. QED  BY <1>1, <1>2, SendImplies, PTL DEF Spec

-------------------------------------------------------------------------------
(* Products and remainders.                                                  *)

\* A product grows with its factor, and a positive factor cancels.
LEMMA ProductGrows ==
    ASSUME NEW a \in Int, NEW b \in Int, NEW c \in Nat, a <= b
    PROVE  a * c <= b * c
  <1>1. (b - a) * c >= 0 BY SMT
  <1>2. (b - a) * c = b * c - a * c BY SMT
  <1> QED BY <1>1, <1>2, SMT

LEMMA ProductCancels ==
    ASSUME NEW a \in Int, NEW b \in Int, NEW c \in Nat \ {0}, a * c <= b * c
    PROVE  a <= b
  <1> SUFFICES ASSUME b + 1 <= a PROVE FALSE OBVIOUS
  <1>1. (b + 1) * c <= a * c BY ProductGrows
  <1>2. (b + 1) * c = b * c + c BY SMT
  <1> QED BY <1>1, <1>2, SMT

\* What division with a remainder gives, and that it is unique.
LEMMA Division ==
    ASSUME NEW b \in Nat, NEW s \in Nat \ {0}
    PROVE  /\ b \div s \in Nat /\ b % s \in 0..(s - 1)
           /\ b = (b \div s) * s + (b % s)
  BY SMT

LEMMA RemainderIs ==
    ASSUME NEW s \in Nat \ {0}, NEW q \in Nat, NEW r \in 0..(s - 1)
    PROVE  (q * s + r) % s = r
  <1> DEFINE b == q * s + r
             p == b \div s
  <1>1. q * s \in Nat BY SMT
  <1>2. b \in Nat BY <1>1, SMT
  <1>3. p \in Nat /\ b % s \in 0..(s - 1) /\ b = p * s + (b % s)
    BY <1>2, Division
  <1>4. p * s \in Nat BY <1>3, SMT
  <1>5. p <= q
    <2> SUFFICES ASSUME q + 1 <= p PROVE FALSE BY <1>3, SMT
    <2>1. (q + 1) * s <= p * s BY <1>3, ProductGrows
    <2>2. (q + 1) * s = q * s + s BY SMT
    <2> QED BY <2>1, <2>2, <1>1, <1>3, <1>4, SMT
  <1>6. q <= p
    <2> SUFFICES ASSUME p + 1 <= q PROVE FALSE BY <1>3, SMT
    <2>1. (p + 1) * s <= q * s BY <1>3, ProductGrows
    <2>2. (p + 1) * s = p * s + s BY <1>3, SMT
    <2> QED BY <2>1, <2>2, <1>1, <1>3, <1>4, SMT
  <1>7. p = q BY <1>3, <1>5, <1>6, SMT
  <1> QED BY <1>1, <1>3, <1>7, SMT

\* The remainder of the next number.
LEMMA NextRemainder ==
    ASSUME NEW b \in Nat, NEW s \in Nat \ {0}
    PROVE  (b + 1) % s = IF (b % s) = s - 1 THEN 0 ELSE (b % s) + 1
  <1> DEFINE q == b \div s
             r == b % s
  <1>1. q \in Nat /\ r \in 0..(s - 1) /\ b = q * s + r BY Division
  <1>2. q * s \in Nat BY <1>1, SMT
  <1>3. CASE r = s - 1
    <2>1. b + 1 = (q + 1) * s + 0
      <3>1. (q + 1) * s = q * s + s BY <1>1, SMT
      <3> QED BY <1>1, <1>2, <1>3, <3>1, SMT
    <2>2. q + 1 \in Nat /\ 0 \in 0..(s - 1) BY <1>1, SMT
    <2>3. ((q + 1) * s + 0) % s = 0 BY <2>2, RemainderIs
    <2> QED BY <2>1, <2>3, <1>3
  <1>4. CASE r # s - 1
    <2>1. b + 1 = q * s + (r + 1) BY <1>1, <1>2, SMT
    <2>2. r + 1 \in 0..(s - 1) BY <1>1, <1>4, SMT
    <2>3. (q * s + (r + 1)) % s = r + 1 BY <1>1, <2>2, RemainderIs
    <2> QED BY <2>1, <2>3, <1>4
  <1> QED BY <1>3, <1>4

-------------------------------------------------------------------------------
(* The lanes of the dispatcher.  Lead(l) is how many beats are left until the *)
(* lane is at its last frame: it is the same for all lanes but for one step   *)
(* of each, and while it is positive it ends on a beat of the consumer.       *)

\* Beats between two frames of a lane.
Step(l) == Beats \div PerGroup[l]

\* Beats until a lane's task comes next.
Ahead(l) == IF l \in due THEN 0 ELSE Step(l) - (beat % Step(l))

\* Beats until the lane has been taken to its last frame.
Lead(l) == Ahead(l) + (frames[l] - 1) * Step(l)

\* The consumer comes r beats from now, or keeps the lanes waiting.
Covered(r) ==
    \/ r = 0
    \/ /\ phase # Unstarted /\ Consumer \notin due
       /\ beat + r \in {phase, phase + Beats}

\* No lane runs dry before, and none is a whole frame short of, beat r from now.
InStep(r) == \A l \in Lanes : r - Step(l) <= Lead(l) /\ Lead(l) <= r

\* A task that is due is due on this beat.
DueInv ==
    /\ Consumer \in due => beat = phase
    /\ \A l \in Lanes : l \in due => beat % Step(l) = 0

\* What is kept: all lanes reach to the same beat, up to one frame of each.
LanesInv == LaneTypes /\ DueInv /\ \E r \in 0..Beats : Covered(r) /\ InStep(r)

\* A lane's frames divide the period.
LEMMA StepDivides ==
    ASSUME NEW l \in Lanes
    PROVE  /\ PerGroup[l] \in Nat \ {0} /\ Step(l) \in Nat \ {0}
           /\ PerGroup[l] * Step(l) = Beats
  <1> DEFINE m == PerGroup[l]
  <1>1. m \in Nat \ {0} /\ Beats \in Nat \ {0} /\ Beats % m = 0 BY RateAssumption, SMT
  <1>2. Step(l) = Beats \div m BY DEF Step
  <1> HIDE DEF m
  <1>3. Step(l) \in Nat /\ Beats = Step(l) * m + (Beats % m)
    <2>1. /\ Beats \div m \in Nat
          /\ Beats = (Beats \div m) * m + (Beats % m)
      BY <1>1, Division
    <2> QED BY <1>2, <2>1
  <1>4. Beats = Step(l) * m BY <1>1, <1>3, SMT
  <1>5. Step(l) # 0 BY <1>1, <1>3, <1>4, SMT
  <1>6. m * Step(l) = Step(l) * m BY <1>1, <1>3, SMT
  <1> QED BY <1>1, <1>3, <1>4, <1>5, <1>6 DEF m

\* The next frame of a lane is at most one step away.
LEMMA AheadWithinStep ==
    ASSUME LaneTypes, NEW l \in Lanes
    PROVE  /\ Ahead(l) \in 0..Step(l) /\ (l \notin due => Ahead(l) >= 1)
           /\ Lead(l) \in Int /\ frames[l] \in Nat
           /\ (frames[l] - 1) * Step(l) = frames[l] * Step(l) - Step(l)
           /\ frames[l] * Step(l) \in Nat
  <1>1. Step(l) \in Nat \ {0} BY StepDivides
  <1>2. beat \in Nat /\ frames[l] \in Nat BY RateAssumption, SMT DEF LaneTypes
  <1>3. beat % Step(l) \in 0..(Step(l) - 1) BY <1>1, <1>2, Division
  <1>4. Ahead(l) \in 0..Step(l) /\ (l \notin due => Ahead(l) >= 1)
    BY <1>1, <1>3, SMT DEF Ahead
  <1>5. /\ (frames[l] - 1) * Step(l) = frames[l] * Step(l) - Step(l)
        /\ frames[l] * Step(l) \in Nat
    <2> DEFINE f == frames[l]   s == Step(l)
    <2>1. f \in Nat /\ s \in Nat BY <1>1, <1>2
    <2> HIDE DEF f, s
    <2>2. (f - 1) * s = f * s - s /\ f * s \in Nat BY <2>1, SMT
    <2> QED BY <2>2 DEF f, s
  <1>6. Lead(l) \in Int BY <1>1, <1>2, <1>4, <1>5, SMT DEF Lead
  <1> QED BY <1>2, <1>4, <1>5, <1>6

\* Lanes that reach to the same beat hold frames in the proportion of their rates.
LEMMA InvStaysTogether == LanesInv => LanesStayTogether
  <1> SUFFICES ASSUME LanesInv PROVE LanesStayTogether OBVIOUS
  <1>1. PICK r \in 0..Beats : InStep(r) BY DEF LanesInv
  <1>2. LaneTypes BY DEF LanesInv
  <1>3. ASSUME NEW l \in Lanes
        PROVE  /\ r - Step(l) <= frames[l] * Step(l)
               /\ frames[l] * Step(l) <= r + Step(l)
    <2>1. r - Step(l) <= Lead(l) /\ Lead(l) <= r BY <1>1 DEF InStep
    <2>2. /\ Ahead(l) \in 0..Step(l)
          /\ (frames[l] - 1) * Step(l) = frames[l] * Step(l) - Step(l)
          /\ frames[l] * Step(l) \in Nat
      BY <1>2, AheadWithinStep
    <2>3. Lead(l) = Ahead(l) + (frames[l] * Step(l) - Step(l)) BY <2>2 DEF Lead
    <2>4. Step(l) \in Nat \ {0} BY StepDivides
    <2>5. Beats \in Nat BY RateAssumption
    <2> QED BY <2>1, <2>2, <2>3, <2>4, <2>5, SMT
  <1>4. ASSUME NEW l \in Lanes, NEW k \in Lanes
        PROVE  frames[l] * PerGroup[k] - frames[k] * PerGroup[l]
                 <= PerGroup[l] + PerGroup[k]
    <2> DEFINE f == frames[l]   g == frames[k]
               m == PerGroup[l] n == PerGroup[k]
               s == Step(l)     u == Step(k)
    <2>1. f \in Nat /\ g \in Nat BY <1>2, AheadWithinStep
    <2>2. /\ m \in Nat \ {0} /\ s \in Nat \ {0} /\ m * s = Beats
          /\ n \in Nat \ {0} /\ u \in Nat \ {0} /\ n * u = Beats
      BY StepDivides
    <2>3. f * s <= r + s /\ r - u <= g * u BY <1>3
    <2>4. r \in Nat /\ Beats \in Nat \ {0} BY RateAssumption, SMT
    <2> HIDE DEF f, g, m, n, s, u
    <2>5. f * s - g * u <= s + u BY <2>1, <2>2, <2>3, <2>4, SMT
    <2>6. (f * s - g * u) * (m * n) <= (s + u) * (m * n)
      <3>1. m * n \in Nat /\ f * s - g * u \in Int /\ s + u \in Int
        BY <2>1, <2>2, SMT
      <3> QED BY <2>5, <3>1, ProductGrows
    <2>7. (f * s - g * u) * (m * n) = (f * n - g * m) * Beats
      <3>1. (f * s - g * u) * (m * n) = (f * n) * (m * s) - (g * m) * (n * u)
        BY <2>1, <2>2, SMT
      <3>2. (f * n) * Beats - (g * m) * Beats = (f * n - g * m) * Beats
        BY <2>1, <2>2, <2>4, SMT
      <3> QED BY <2>2, <3>1, <3>2
    <2>8. (s + u) * (m * n) = (m + n) * Beats
      <3>1. (s + u) * (m * n) = n * (m * s) + m * (n * u) BY <2>2, SMT
      <3>2. n * Beats + m * Beats = (m + n) * Beats BY <2>2, <2>4, SMT
      <3> QED BY <2>2, <3>1, <3>2
    <2>9. f * n - g * m \in Int /\ m + n \in Int BY <2>1, <2>2, SMT
    <2>10. f * n - g * m <= m + n BY <2>4, <2>6, <2>7, <2>8, <2>9, ProductCancels
    <2> QED BY <2>10 DEF f, g, m, n
  <1>5. ASSUME NEW l \in Lanes PROVE frames[l] <= PerGroup[l] + 1
    <2>1. frames[l] \in Nat BY <1>2, AheadWithinStep
    <2>2. /\ PerGroup[l] \in Nat \ {0} /\ Step(l) \in Nat \ {0}
          /\ PerGroup[l] * Step(l) = Beats
      BY StepDivides
    <2>3. frames[l] * Step(l) <= r + Step(l) BY <1>3
    <2>4. (PerGroup[l] + 1) * Step(l) = PerGroup[l] * Step(l) + Step(l) BY <2>2, SMT
    <2>5. r \in Nat /\ r <= Beats BY RateAssumption, SMT
    <2>6. frames[l] * Step(l) \in Nat BY <1>2, AheadWithinStep
    <2>7. frames[l] * Step(l) <= (PerGroup[l] + 1) * Step(l)
      BY <2>2, <2>3, <2>4, <2>5, <2>6, SMT
    <2>8. frames[l] \in Int /\ PerGroup[l] + 1 \in Int BY <2>1, <2>2, SMT
    <2> QED BY <2>2, <2>7, <2>8, ProductCancels
  <1> QED BY <1>4, <1>5 DEF LanesStayTogether

\* Steps keep the types, and what is due on a beat.
LEMMA LanesTypesStep ==
    ASSUME LaneTypes, [LanesNext]_laneVars
    PROVE  LaneTypes'
  <1> USE RateAssumption, WaitingAssumption DEF LaneTypes, Unstarted
  <1>1. CASE Receive BY <1>1, SMT DEF Receive
  <1>2. CASE Beat
    <2>1. (beat + 1) % Beats \in 0..(Beats - 1)
      <3>1. beat + 1 \in Nat /\ Beats \in Nat \ {0} BY SMT
      <3> QED BY <3>1, Division
    <2>2. DueOn(beat') \subseteq Lanes \cup {Consumer} BY DEF DueOn
    <2> QED BY <1>2, <2>1, <2>2 DEF Beat
  <1>3. CASE FillGroup
    <2>1. \A l \in Lanes : frames[l] + PerGroup[l] \in Nat BY SMT
    <2>2. waiting - 1 \in 0..MaxWaiting BY <1>3, SMT DEF FillGroup
    <2> QED BY <1>3, <2>1, <2>2 DEF FillGroup
  <1>4. CASE FillNothing BY <1>4 DEF FillNothing
  <1>5. ASSUME NEW p \in 0..(Beats - 1), StartConsumer(p) PROVE LaneTypes'
    BY <1>5, SMT DEF StartConsumer
  <1>6. ASSUME NEW l \in Lanes, Take(l) PROVE LaneTypes'
    <2>1. (IF frames[l] > 0 THEN frames[l] - 1 ELSE 0) \in Nat BY SMT
    <2> QED BY <1>6, <2>1 DEF Take
  <1>7. CASE UNCHANGED laneVars BY <1>7 DEF laneVars
  <1> QED BY <1>1, <1>2, <1>3, <1>4, <1>5, <1>6, <1>7 DEF LanesNext

LEMMA DueStep ==
    ASSUME LaneTypes, DueInv, [LanesNext]_laneVars
    PROVE  DueInv'
  <1> USE DEF DueInv, Step
  <1>1. CASE Receive BY <1>1 DEF Receive
  <1>2. CASE Beat
    BY <1>2, RateAssumption DEF Beat, DueOn
  <1>3. CASE FillGroup BY <1>3 DEF FillGroup
  <1>4. CASE FillNothing BY <1>4 DEF FillNothing
  <1>5. ASSUME NEW p \in 0..(Beats - 1), StartConsumer(p) PROVE DueInv'
    <2>1. Consumer \notin due
      BY <1>5, RateAssumption, SMT DEF StartConsumer, Unstarted, LaneTypes
    <2> QED BY <1>5, <2>1 DEF StartConsumer
  <1>6. ASSUME NEW l \in Lanes, Take(l) PROVE DueInv'
    BY <1>6 DEF Take
  <1>7. CASE UNCHANGED laneVars BY <1>7 DEF laneVars
  <1> QED BY <1>1, <1>2, <1>3, <1>4, <1>5, <1>6, <1>7 DEF LanesNext

\* What leaves a lane's frames and its place on the clock alone.
LEMMA LeadStays ==
    ASSUME NEW l \in Lanes, UNCHANGED beat, l \in due' <=> l \in due,
           frames'[l] = frames[l]
    PROVE  Lead(l)' = Lead(l)
  BY DEF Lead, Ahead, Step

\* A beat brings every lane one beat nearer to its end.
LEMMA BeatsBetween ==
    ASSUME LaneTypes, Beat, NEW l \in Lanes
    PROVE  Lead(l)' = Lead(l) - 1
  <1> DEFINE s == Step(l)
             m == PerGroup[l]
  <1>1. /\ m \in Nat \ {0} /\ s \in Nat \ {0} /\ m * s = Beats BY StepDivides
  <1>2. beat \in 0..(Beats - 1) /\ Beats \in Nat \ {0}
    BY RateAssumption DEF LaneTypes
  <1>3. beat' = (beat + 1) % Beats /\ due' = DueOn(beat') /\ due = {} /\ frames' = frames
    BY DEF Beat
  <1>4. s' = s BY DEF Step
  <1>5. l \in due' <=> beat' % s = 0
    BY <1>3, RateAssumption DEF DueOn, Step
  <1>6. beat % s \in 0..(s - 1)
    <2>1. beat \in Nat BY <1>2, SMT
    <2> QED BY <1>1, <2>1, Division
  <1>7. beat' % s = IF (beat % s) = s - 1 THEN 0 ELSE (beat % s) + 1
    <2>1. beat \in Nat BY <1>2, SMT
    <2>2. (beat + 1) % s = IF (beat % s) = s - 1 THEN 0 ELSE (beat % s) + 1
      BY <1>1, <2>1, NextRemainder
    <2>3. CASE beat + 1 < Beats
      <3>1. (beat + 1) % Beats = beat + 1
        <4>1. beat + 1 \in 0..(Beats - 1) /\ 0 \in Nat BY <1>2, <2>3, SMT
        <4>2. (0 * Beats + (beat + 1)) % Beats = beat + 1
          BY <1>2, <4>1, RemainderIs
        <4>3. 0 * Beats + (beat + 1) = beat + 1 BY <1>2, SMT
        <4> QED BY <4>2, <4>3
      <3> QED BY <1>3, <2>2, <3>1
    <2>4. CASE beat + 1 = Beats
      <3>1. Beats % Beats = 0 /\ Beats % s = 0 /\ 0 % s = 0
        <4>1. (1 * Beats + 0) % Beats = 0
          <5>1. 1 \in Nat /\ 0 \in 0..(Beats - 1) BY <1>2, SMT
          <5> QED BY <1>2, <5>1, RemainderIs
        <4>2. (m * s + 0) % s = 0 /\ (0 * s + 0) % s = 0
          <5>1. m \in Nat /\ 0 \in Nat /\ 0 \in 0..(s - 1) BY <1>1, SMT
          <5> QED BY <1>1, <5>1, RemainderIs
        <4>3. 1 * Beats + 0 = Beats /\ 0 * s + 0 = 0 /\ m * s + 0 = Beats
          BY <1>1, <1>2, SMT
        <4> QED BY <4>1, <4>2, <4>3
      <3>2. beat' % s = 0 /\ (beat + 1) % s = 0 BY <1>3, <2>4, <3>1
      <3> QED BY <1>1, <1>6, <2>2, <3>2, SMT
    <2> QED BY <1>2, <2>3, <2>4, SMT
  <1>8. Ahead(l) = s - (beat % s) BY <1>3 DEF Ahead
  <1>9. Ahead(l)' = IF beat' % s = 0 THEN 0 ELSE s - (beat' % s)
    BY <1>4, <1>5 DEF Ahead
  <1>10. Ahead(l)' = Ahead(l) - 1
    BY <1>1, <1>6, <1>7, <1>8, <1>9, SMT
  <1>11. Ahead(l) \in Int /\ (frames[l] - 1) * s \in Int
    BY AheadWithinStep, <1>1, SMT
  <1>12. Lead(l) = Ahead(l) + (frames[l] - 1) * s BY DEF Lead
  <1>13. Lead(l)' = Ahead(l)' + (frames[l] - 1) * s BY <1>3, <1>4 DEF Lead
  <1> QED BY <1>10, <1>11, <1>12, <1>13, SMT

\* A beat brings the consumer nearer too, or finds it late already.
LEMMA BeatKeepsPace ==
    ASSUME LaneTypes, Beat, NEW r \in 0..Beats, Covered(r), InStep(r)
    PROVE  \E q \in 0..Beats : Covered(q)' /\ InStep(q)'
  <1>1. beat \in 0..(Beats - 1) /\ Beats \in Nat \ {0} /\ phase \in 0..Beats
    BY RateAssumption DEF LaneTypes, Unstarted
  <1>2. /\ due = {} /\ due' = DueOn(beat') /\ phase' = phase
        /\ beat' = (beat + 1) % Beats
    BY DEF Beat
  <1>3. ASSUME NEW l \in Lanes
        PROVE  /\ Step(l)' = Step(l) /\ Step(l) \in Nat \ {0}
               /\ Lead(l)' = Lead(l) - 1 /\ Lead(l) \in Int
               /\ r - Step(l) <= Lead(l) /\ Lead(l) <= r
               /\ Lead(l) >= 1 - Step(l)
    <2>1. /\ Ahead(l) \in 0..Step(l) /\ Ahead(l) >= 1 /\ Lead(l) \in Int
          /\ (frames[l] - 1) * Step(l) = frames[l] * Step(l) - Step(l)
          /\ frames[l] * Step(l) \in Nat
      BY <1>2, AheadWithinStep
    <2>2. Step(l) \in Nat \ {0} BY StepDivides
    <2>3. Lead(l) = Ahead(l) + (frames[l] * Step(l) - Step(l)) BY <2>1 DEF Lead
    <2>4. Lead(l) >= 1 - Step(l) BY <2>1, <2>2, <2>3, SMT
    <2>5. Lead(l)' = Lead(l) - 1 BY BeatsBetween
    <2>6. r - Step(l) <= Lead(l) /\ Lead(l) <= r BY DEF InStep
    <2>7. Step(l)' = Step(l) BY DEF Step
    <2> QED BY <2>1, <2>2, <2>4, <2>5, <2>6, <2>7
  <1>4. CASE r = 0
    <2>1. Covered(0)' BY DEF Covered
    <2>2. InStep(0)'
      <3> SUFFICES ASSUME NEW l \in Lanes
                   PROVE  0 - Step(l)' <= Lead(l)' /\ Lead(l)' <= 0
        BY DEF InStep
      <3> QED BY <1>3, <1>4, SMT
    <2>3. 0 \in 0..Beats BY <1>1, SMT
    <2> QED BY <2>1, <2>2, <2>3
  <1>5. CASE r # 0
    <2>1. r \in 1..Beats /\ r - 1 \in 0..Beats BY <1>1, <1>5, SMT
    <2>2. phase # Beats /\ beat + r \in {phase, phase + Beats}
      BY <1>5 DEF Covered, Unstarted
    <2>3. phase \in 0..(Beats - 1) BY <1>1, <2>2, SMT
    <2>4. beat' = IF beat + 1 = Beats THEN 0 ELSE beat + 1
      <3>1. CASE beat + 1 = Beats
        <4>1. 1 \in Nat /\ 0 \in 0..(Beats - 1) BY <1>1, SMT
        <4>2. (1 * Beats + 0) % Beats = 0 BY <1>1, <4>1, RemainderIs
        <4>3. 1 * Beats + 0 = Beats BY <1>1, SMT
        <4> QED BY <1>2, <3>1, <4>2, <4>3
      <3>2. CASE beat + 1 # Beats
        <4>1. 0 \in Nat /\ beat + 1 \in 0..(Beats - 1) BY <1>1, <3>2, SMT
        <4>2. (0 * Beats + (beat + 1)) % Beats = beat + 1
          BY <1>1, <4>1, RemainderIs
        <4>3. 0 * Beats + (beat + 1) = beat + 1 BY <1>1, SMT
        <4> QED BY <1>2, <3>2, <4>2, <4>3
      <3> QED BY <3>1, <3>2
    <2>5. beat' + (r - 1) \in {phase, phase + Beats}
      BY <1>1, <2>1, <2>2, <2>3, <2>4, SMT
    <2>6. r - 1 = 0 \/ beat' # phase
      BY <1>1, <2>1, <2>3, <2>4, <2>5, SMT
    <2>7. Covered(r - 1)'
      <3>1. CASE r - 1 = 0 BY <3>1 DEF Covered
      <3>2. CASE beat' # phase
        <4>1. Consumer \notin due' BY <1>2, <3>2, RateAssumption DEF DueOn
        <4> QED BY <1>2, <2>2, <2>5, <4>1 DEF Covered, Unstarted
      <3> QED BY <2>6, <3>1, <3>2
    <2>8. InStep(r - 1)'
      <3> SUFFICES ASSUME NEW l \in Lanes
                   PROVE  (r - 1) - Step(l)' <= Lead(l)' /\ Lead(l)' <= r - 1
        BY DEF InStep
      <3> QED BY <1>3, <2>1, SMT
    <2> QED BY <2>1, <2>7, <2>8
  <1> QED BY <1>4, <1>5

\* A frame that is taken moves the lane to its next step; a stand-in is taken only
\* when the consumer is late.
LEMMA TakeKeepsPace ==
    ASSUME LaneTypes, DueInv, NEW k \in Lanes, Take(k),
           NEW r \in 0..Beats, Covered(r), InStep(r)
    PROVE  \E q \in 0..Beats : Covered(q)' /\ InStep(q)'
  <1>1. /\ k \in due /\ due' = due \ {k} /\ beat' = beat /\ phase' = phase
        /\ frames' = [frames EXCEPT ![k] = IF @ > 0 THEN @ - 1 ELSE 0]
    BY DEF Take
  <1>2. frames \in [Lanes -> Nat] /\ Beats \in Nat \ {0}
    BY RateAssumption DEF LaneTypes
  <1>3. Covered(r)' BY <1>1 DEF Covered
  <1>4. ASSUME NEW l \in Lanes PROVE Step(l)' = Step(l) /\ Step(l) \in Nat \ {0}
    BY StepDivides DEF Step
  <1>5. ASSUME NEW l \in Lanes, l # k PROVE Lead(l)' = Lead(l)
    <2>1. UNCHANGED beat /\ (l \in due' <=> l \in due) /\ frames'[l] = frames[l]
      BY <1>1, <1>2, <1>5
    <2> QED BY <2>1, LeadStays
  <1>6. Ahead(k) = 0 /\ Ahead(k)' = Step(k)
    <2>1. beat % Step(k) = 0 BY <1>1 DEF DueInv
    <2>2. k \notin due' BY <1>1
    <2>3. Ahead(k)' = Step(k) - (beat % Step(k)) BY <1>1, <1>4, <2>2 DEF Ahead
    <2>4. Step(k) - 0 = Step(k) BY <1>4, SMT
    <2> QED BY <1>1, <2>1, <2>3, <2>4 DEF Ahead
  <1> DEFINE f == frames[k]
             s == Step(k)
  <1>7. f \in Nat /\ s \in Nat \ {0} /\ frames'[k] = IF f > 0 THEN f - 1 ELSE 0
    BY <1>1, <1>2, <1>4
  <1>8. /\ Lead(k) = 0 + (f - 1) * s
        /\ Lead(k)' = s + (frames'[k] - 1) * s
    BY <1>4, <1>6 DEF Lead
  <1>9. r - s <= Lead(k) /\ Lead(k) <= r BY DEF InStep
  <1> HIDE DEF f, s
  <1>10. CASE f > 0
    <2>1. frames'[k] = f - 1 BY <1>7, <1>10
    <2>2. s + ((f - 1) - 1) * s = 0 + (f - 1) * s BY <1>7, SMT
    <2>3. Lead(k)' = Lead(k) BY <1>8, <2>1, <2>2
    <2>4. InStep(r)'
      <3> SUFFICES ASSUME NEW l \in Lanes
                   PROVE  r - Step(l)' <= Lead(l)' /\ Lead(l)' <= r
        BY DEF InStep
      <3>1. Lead(l)' = Lead(l) BY <1>5, <2>3
      <3> QED BY <1>4, <3>1 DEF InStep
    <2> QED BY <1>3, <2>4
  <1>11. CASE ~(f > 0)
    <2>1. f = 0 /\ frames'[k] = 0 BY <1>7, <1>11, SMT
    <2>2. 0 + (0 - 1) * s = 0 - s /\ s + (0 - 1) * s = 0 BY <1>7, SMT
    <2>3. Lead(k) = 0 - s /\ Lead(k)' = 0 BY <1>8, <2>1, <2>2
    <2>4. r = 0 BY <1>2, <1>7, <1>9, <2>3, SMT
    <2>5. InStep(r)'
      <3> SUFFICES ASSUME NEW l \in Lanes
                   PROVE  r - Step(l)' <= Lead(l)' /\ Lead(l)' <= r
        BY DEF InStep
      <3>1. CASE l = k BY <1>4, <2>3, <2>4, <3>1, SMT
      <3>2. CASE l # k BY <1>4, <1>5, <3>2 DEF InStep
      <3> QED BY <3>1, <3>2
    <2> QED BY <1>3, <2>5
  <1> QED BY <1>10, <1>11

\* A group takes every lane a whole period further.
LEMMA GroupKeepsPace ==
    ASSUME LaneTypes, DueInv, FillGroup, NEW r \in 0..Beats, Covered(r), InStep(r)
    PROVE  \E q \in 0..Beats : Covered(q)' /\ InStep(q)'
  <1>1. /\ Consumer \in due /\ due' = due \ {Consumer} /\ beat' = beat /\ phase' = phase
        /\ frames' = [l \in Lanes |-> frames[l] + PerGroup[l]]
    BY DEF FillGroup
  <1>2. r = 0 BY <1>1 DEF Covered
  <1>3. beat \in 0..(Beats - 1) /\ Beats \in Nat \ {0} /\ beat = phase
    BY <1>1, RateAssumption DEF LaneTypes, DueInv
  <1>4. Beats \in 0..Beats BY <1>3, SMT
  <1>5. Covered(Beats)' BY <1>1, <1>3, SMT DEF Covered, Unstarted
  <1>6. InStep(Beats)'
    <2> SUFFICES ASSUME NEW l \in Lanes
                 PROVE  Beats - Step(l)' <= Lead(l)' /\ Lead(l)' <= Beats
      BY DEF InStep
    <2> DEFINE f == frames[l]   m == PerGroup[l]   s == Step(l)
    <2>1. s' = s BY DEF Step
    <2>2. m \in Nat \ {0} /\ s \in Nat \ {0} /\ m * s = Beats BY StepDivides
    <2>3. Ahead(l)' = Ahead(l) BY <1>1, <2>1, RateAssumption DEF Ahead
    <2>4. f \in Nat /\ Ahead(l) \in Int BY AheadWithinStep, <2>2, SMT
    <2>5. 0 - s <= Lead(l) /\ Lead(l) <= 0 BY <1>2 DEF InStep
    <2>6. /\ Lead(l) = Ahead(l) + (f - 1) * s
          /\ Lead(l)' = Ahead(l) + ((f + m) - 1) * s
      BY <1>1, <2>1, <2>3 DEF Lead
    <2> HIDE DEF f, m, s
    <2>7. ((f + m) - 1) * s = (f - 1) * s + m * s BY <2>2, <2>4, SMT
    <2>8. (f - 1) * s \in Int BY <2>2, <2>4, SMT
    <2>9. Lead(l)' = Lead(l) + Beats /\ Lead(l) \in Int
      BY <1>3, <2>2, <2>4, <2>6, <2>7, <2>8, SMT
    <2>10. Beats - s <= Lead(l)' /\ Lead(l)' <= Beats
      BY <1>3, <2>2, <2>5, <2>9, SMT
    <2> QED BY <2>1, <2>10 DEF s
  <1> QED BY <1>4, <1>5, <1>6

\* Every step keeps the lanes together.
LEMMA LanesInvStep ==
    ASSUME LanesInv, [LanesNext]_laneVars
    PROVE  LanesInv'
  <1>1. LaneTypes /\ DueInv BY DEF LanesInv
  <1>2. LaneTypes' /\ DueInv' BY <1>1, LanesTypesStep, DueStep
  <1>3. PICK r \in 0..Beats : Covered(r) /\ InStep(r) BY DEF LanesInv
  <1>4. \E q \in 0..Beats : Covered(q)' /\ InStep(q)'
    <2>1. CASE UNCHANGED <<frames, beat, phase, due>>
      <3>1. Covered(r)' BY <1>3, <2>1 DEF Covered
      <3>2. InStep(r)' BY <1>3, <2>1 DEF InStep, Lead, Ahead, Step
      <3> QED BY <3>1, <3>2
    <2>2. CASE Beat BY <1>1, <1>3, <2>2, BeatKeepsPace
    <2>3. CASE FillGroup BY <1>1, <1>3, <2>3, GroupKeepsPace
    <2>4. CASE FillNothing
      <3>1. /\ Consumer \in due /\ due' = due \ {Consumer}
            /\ UNCHANGED <<frames, beat, phase>>
        BY <2>4 DEF FillNothing
      <3>2. r = 0 BY <1>3, <3>1 DEF Covered
      <3>3. Covered(r)' BY <3>2 DEF Covered
      <3>4. ASSUME NEW l \in Lanes PROVE Lead(l)' = Lead(l)
        <4>1. UNCHANGED beat /\ (l \in due' <=> l \in due) /\ frames'[l] = frames[l]
          BY <3>1, RateAssumption
        <4> QED BY <4>1, LeadStays
      <3>5. InStep(r)' BY <1>3, <3>4 DEF InStep, Step
      <3> QED BY <3>3, <3>5
    <2>5. ASSUME NEW p \in 0..(Beats - 1), StartConsumer(p)
          PROVE  \E q \in 0..Beats : Covered(q)' /\ InStep(q)'
      <3>1. phase = Unstarted /\ UNCHANGED <<frames, beat, due>>
        BY <2>5 DEF StartConsumer
      <3>2. r = 0 BY <1>3, <3>1 DEF Covered
      <3>3. Covered(r)' BY <3>2 DEF Covered
      <3>4. InStep(r)' BY <1>3, <3>1 DEF InStep, Lead, Ahead, Step
      <3> QED BY <3>3, <3>4
    <2>6. ASSUME NEW l \in Lanes, Take(l)
          PROVE  \E q \in 0..Beats : Covered(q)' /\ InStep(q)'
      BY <1>1, <1>3, <2>6, TakeKeepsPace
    <2>7. CASE Receive BY <2>1, <2>7 DEF Receive
    <2>8. CASE UNCHANGED laneVars BY <2>1, <2>8 DEF laneVars
    <2> QED BY <2>2, <2>3, <2>4, <2>5, <2>6, <2>7, <2>8 DEF LanesNext
  <1>5. \E q \in 0..Beats : (Covered(q) /\ InStep(q))' BY <1>4
  <1> QED BY <1>2, <1>5 DEF LanesInv

\* At the start every lane is at its first frame and has none.
LEMMA LanesInvInit == LanesInit => LanesInv
  <1> SUFFICES ASSUME LanesInit PROVE LanesInv OBVIOUS
  <1>1. /\ waiting = 0 /\ frames = [l \in Lanes |-> 0]
        /\ beat = 0 /\ phase = Beats /\ due = Lanes
    BY DEF LanesInit, Unstarted
  <1>2. LaneTypes
    BY <1>1, RateAssumption, WaitingAssumption, SMT DEF LaneTypes, Unstarted
  <1>3. ASSUME NEW l \in Lanes
        PROVE  Step(l) \in Nat \ {0} /\ beat % Step(l) = 0
    <2>1. Step(l) \in Nat \ {0} BY StepDivides
    <2>2. 0 \in Nat /\ 0 \in 0..(Step(l) - 1) BY <2>1, SMT
    <2>3. (0 * Step(l) + 0) % Step(l) = 0 BY <2>1, <2>2, RemainderIs
    <2>4. 0 * Step(l) + 0 = 0 BY <2>1, SMT
    <2> QED BY <1>1, <2>1, <2>3, <2>4
  <1>4. DueInv BY <1>1, <1>3, RateAssumption DEF DueInv
  <1>5. InStep(0)
    <2> SUFFICES ASSUME NEW l \in Lanes
                 PROVE  0 - Step(l) <= Lead(l) /\ Lead(l) <= 0
      BY DEF InStep
    <2>1. Lead(l) = 0 + (0 - 1) * Step(l) BY <1>1 DEF Lead, Ahead
    <2>2. 0 + (0 - 1) * Step(l) = 0 - Step(l) BY <1>3, SMT
    <2> QED BY <1>3, <2>1, <2>2, SMT
  <1>6. 0 \in 0..Beats /\ Covered(0) BY RateAssumption, SMT DEF Covered
  <1> QED BY <1>2, <1>4, <1>5, <1>6 DEF LanesInv

\* For any lanes and any rates that divide the period: however often the group queue
\* runs dry, wherever in the period the consumer ticks and in whatever order the tasks
\* of a beat run, no two lanes of the gateway's dispatcher are further apart than a
\* frame of each, and none keeps more than a frame beyond a group.
THEOREM Together == LanesSpec => []LanesStayTogether
  <1>1. LanesInit => LanesInv BY LanesInvInit
  <1>2. LanesInv /\ [LanesNext]_laneVars => LanesInv' BY LanesInvStep
  <1>3. LanesInv => LanesStayTogether BY InvStaysTogether
  <1> QED BY <1>1, <1>2, <1>3, PTL DEF LanesSpec

===============================================================================
