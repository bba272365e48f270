--------------------------- MODULE LifecycleProofs ----------------------------
(***************************************************************************)
(* Proofs about the life of client ids for every set of ids and requests.  *)
(***************************************************************************)
EXTENDS ClientLifecycle, Naturals, TLAPS

-------------------------------------------------------------------------------
(* The inductive invariant.                                                *)

\* Where each kind of request can be.
Places(r) ==
    {"new", "entry", "done"}
      \cup (IF r \in Registers THEN {} ELSE {"closing", "joining", "reaping"})
      \cup (IF r \in Inits THEN {"gate", "aborting"} ELSE {})
      \cup (IF r \in Sockets THEN {"accepting", "serving", "leaving"} ELSE {})

AtPart == \A r \in Requests : at[r] \in Places(r)

Disposing(r) == at[r] \in {"closing", "joining", "reaping"}

\* Between two awaits of its work under the lifecycle lock.
Working(r) == Disposing(r) \/ at[r] \in {"aborting", "accepting"}

InLine(r, q) == \E i \in DOMAIN q : q[i] = r

Has(r, q) == q # <<>> /\ Head(q) = r

\* r has the locks its work needs.
Holder(r) == Has(r, lock[IdOf[r]]) /\ (r \in Inits => Has(r, initLock))

\* Who works under a lock has it, who waits for it is in line.
LockPart ==
    \A r \in Requests :
        /\ at[r] \in {"entry", "leaving"} => InLine(r, lock[IdOf[r]])
        /\ at[r] = "gate" => InLine(r, initLock)
        /\ Working(r) => Has(r, lock[IdOf[r]])
        /\ (r \in Inits /\ (at[r] = "entry" \/ Working(r))) => Has(r, initLock)

\* The table leads to connections of the right id, and so do the requests.
TablePart ==
    /\ \A id \in Ids : /\ id \in registered <=> clients[id] # None
                       /\ clients[id] # None => IdOf[clients[id]] = id
    /\ \A r \in Requests :
         /\ client[r] # None => IdOf[client[r]] = IdOf[r]
         /\ Working(r) \/ at[r] \in {"serving", "leaving"} => client[r] # None

\* What a request that works under the lifecycle lock finds.
WorkPart ==
    \A r \in Requests :
        /\ Working(r) => client[r] = clients[IdOf[r]]
        /\ Disposing(r) => initialized[client[r]] /\ ~connected[client[r]]
        /\ at[r] = "reaping" => /\ socket[client[r]] = None
                                /\ threads[runtime[client[r]]] \in {"killed", "gone"}
        /\ at[r] = "aborting" => /\ ~initialized[client[r]] /\ runtime[client[r]] = r
                                 /\ threads[r] \in {"killed", "gone"}
        /\ at[r] = "accepting" => initialized[client[r]] /\ ~used[client[r]]

\* An initialised connection is the current one of its id and its runtime runs,
\* unless a request is reaping it; a connection that is not initialised has a
\* runtime only while a failed build is being undone.
RuntimePart ==
    \A o \in Registers :
        /\ initialized[o] =>
             /\ clients[IdOf[o]] = o
             /\ runtime[o] # None /\ IdOf[runtime[o]] = IdOf[o]
             /\ \/ threads[runtime[o]] = "running"
                \/ \E r \in Requests : at[r] = "reaping" /\ client[r] = o
             /\ ~used[o] => served[runtime[o]] = {}
        /\ ~initialized[o] =>
             runtime[o] = None \/ \E r \in Requests : at[r] = "aborting" /\ client[r] = o

\* A socket is the one of the connection it was attached to.
SocketPart ==
    \A o \in Registers :
        /\ socket[o] # None =>
             /\ initialized[o] /\ used[o] /\ socket[o] \in served[runtime[o]]
             /\ client[socket[o]] = o
             /\ at[socket[o]] \in {"serving", "leaving", "closing", "joining"}
        /\ connected[o] => socket[o] # None

\* The two tasks of a connection go before its socket does.
TaskPart ==
    \A w \in receiving \cup sending : client[w] # None /\ socket[client[w]] = w

\* A runtime is built once, by its own request; the table leads to whatever
\* threads there are.
ThreadPart ==
    \A g \in Inits :
        /\ at[g] \in {"new", "gate", "entry"} \/ Disposing(g)
             => threads[g] = "none" /\ served[g] = {}
        /\ Alive(g) => clients[IdOf[g]] # None /\ runtime[clients[IdOf[g]]] = g

LeaseInv ==
    /\ TypeOK /\ AtPart /\ LockPart /\ TablePart /\ WorkPart /\ RuntimePart
    /\ SocketPart /\ TaskPart /\ ThreadPart

-------------------------------------------------------------------------------
(* The locks.                                                              *)

\* The requests of the four endpoints are different, and None is none of them.
LEMMA Kinds ==
    /\ IdOf \in [Requests -> Ids] /\ None \notin Requests
    /\ Registers \subseteq Requests /\ Unregisters \subseteq Requests
    /\ Inits \subseteq Requests /\ Sockets \subseteq Requests
    /\ None \notin Registers /\ None \notin Inits /\ None \notin Sockets
    /\ Registers \cap Unregisters = {} /\ Registers \cap Inits = {}
    /\ Registers \cap Sockets = {} /\ Unregisters \cap Inits = {}
    /\ Unregisters \cap Sockets = {} /\ Inits \cap Sockets = {}
  BY RequestAssumption DEF Requests

\* Who joins the line of a lock goes to its end.
LEMMA JoinLine ==
    ASSUME NEW S, NEW q \in Seq(S), NEW r \in S
    PROVE  /\ Append(q, r) \in Seq(S)
           /\ InLine(r, Append(q, r))
           /\ \A x : InLine(x, q) => InLine(x, Append(q, r))
           /\ \A x : Has(x, q) => Has(x, Append(q, r))
<1>1. Append(q, r) \in Seq(S) /\ Len(Append(q, r)) = Len(q) + 1 /\ Len(q) \in Nat
  OBVIOUS
<1>2. Len(q) + 1 \in DOMAIN Append(q, r) /\ Append(q, r)[Len(q) + 1] = r
  OBVIOUS
<1>3. \A i \in DOMAIN q : i \in DOMAIN Append(q, r) /\ Append(q, r)[i] = q[i]
  OBVIOUS
<1>4. q # <<>> => Append(q, r) # <<>> /\ Head(Append(q, r)) = Head(q)
  BY <1>1
<1>. QED  BY <1>1, <1>2, <1>3, <1>4 DEF InLine, Has

\* When the holder leaves, the others stay in line.
LEMMA LeaveLine ==
    ASSUME NEW S, NEW q \in Seq(S), NEW r, Has(r, q)
    PROVE  /\ Tail(q) \in Seq(S)
           /\ \A x : x # r /\ InLine(x, q) => InLine(x, Tail(q))
<1>1. q # <<>> /\ Head(q) = r
  BY DEF Has
<1>2. Tail(q) \in Seq(S)
  BY <1>1
<1>3. ASSUME NEW i \in DOMAIN q, q[i] # r
      PROVE  i - 1 \in DOMAIN Tail(q) /\ Tail(q)[i - 1] = q[i]
  BY <1>1, <1>3
<1>. QED  BY <1>2, <1>3 DEF InLine

\* A request in line has come to the head when it goes on.
LEMMA Heads ==
    ASSUME AtPart, LockPart, NEW r \in Requests,
           Holds(r, "entry") \/ Holds(r, "leaving") \/ Working(r)
    PROVE  Holder(r)
<1>1. Has(r, lock[IdOf[r]])
  BY DEF LockPart, Holds, Has, InLine
<1>2. r \in Inits => at[r] # "leaving"
  BY Kinds DEF AtPart, Places
<1>. QED  BY <1>1, <1>2 DEF LockPart, Holds, Holder

\* Mutual exclusion.
LEMMA Alone ==
    ASSUME LockPart, NEW r \in Requests, Holder(r),
           NEW x \in Requests, Working(x), IdOf[x] = IdOf[r]
    PROVE  x = r
  BY DEF LockPart, Holder, Has

\* The request joins the line of a lifecycle lock.
LEMMA LockJoined ==
    ASSUME TypeOK, LockPart, NEW r \in Requests, NEW p \in {"entry", "leaving"},
           r \in Inits => Has(r, initLock), Queue(r, p), UNCHANGED initLock
    PROVE  lock' \in [Ids -> Seq(Requests)] /\ LockPart'
<1>. DEFINE id == IdOf[r]
<1>1. id \in Ids /\ lock \in [Ids -> Seq(Requests)] /\ lock[id] \in Seq(Requests)
      /\ lock' = [lock EXCEPT ![id] = Append(@, r)]
  BY Kinds DEF TypeOK, Queue, Goto
<1>2. lock' \in [Ids -> Seq(Requests)]
  BY <1>1, JoinLine
<1>3. \A x, y \in Requests : /\ InLine(x, lock[IdOf[y]]) => InLine(x, lock'[IdOf[y]])
                             /\ Has(x, lock[IdOf[y]]) => Has(x, lock'[IdOf[y]])
  BY <1>1, JoinLine, Kinds
<1>4. InLine(r, lock'[id])
  BY <1>1, JoinLine
<1>5. at'[r] = p /\ \A x \in Requests : x # r => at'[x] = at[x]
  BY DEF TypeOK, Queue, Goto
<1>. QED  BY <1>2, <1>3, <1>4, <1>5 DEF LockPart, Working, Disposing

\* The request joins the line of the init lock.
LEMMA InitLockJoined ==
    ASSUME TypeOK, LockPart, NEW r \in Inits, at' = [at EXCEPT ![r] = "gate"],
           initLock' = Append(initLock, r), UNCHANGED lock
    PROVE  initLock' \in Seq(Inits) /\ LockPart'
<1>1. initLock \in Seq(Inits) /\ r \in Requests
  BY Kinds DEF TypeOK
<1>2. initLock' \in Seq(Inits) /\ InLine(r, initLock')
  BY <1>1, JoinLine
<1>3. \A x : /\ InLine(x, initLock) => InLine(x, initLock')
             /\ Has(x, initLock) => Has(x, initLock')
  BY <1>1, JoinLine
<1>4. at'[r] = "gate" /\ \A x \in Requests : x # r => at'[x] = at[x]
  BY <1>1 DEF TypeOK
<1>. QED  BY <1>2, <1>3, <1>4 DEF LockPart, Working, Disposing

\* The holder goes on with its work.
LEMMA LockHeld ==
    ASSUME TypeOK, LockPart, NEW r \in Requests, Holder(r),
           NEW p \in {"closing", "joining", "reaping", "aborting", "accepting"},
           Goto(r, p), UNCHANGED <<lock, initLock>>
    PROVE  LockPart'
<1>1. at'[r] = p /\ \A x \in Requests : x # r => at'[x] = at[x]
  BY DEF TypeOK, Goto
<1>. QED  BY <1>1 DEF LockPart, Working, Disposing, Holder

\* The holder lets the locks go.
LEMMA LockLeft ==
    ASSUME TypeOK, LockPart, NEW r \in Requests, Holder(r),
           NEW p \in {"serving", "done"}, Goto(r, p),
           lock' = [lock EXCEPT ![IdOf[r]] = Tail(@)],
           initLock' = IF r \in Inits THEN Tail(initLock) ELSE initLock
    PROVE  lock' \in [Ids -> Seq(Requests)] /\ initLock' \in Seq(Inits) /\ LockPart'
<1>. DEFINE id == IdOf[r]
<1>1. id \in Ids /\ lock \in [Ids -> Seq(Requests)] /\ lock[id] \in Seq(Requests)
      /\ initLock \in Seq(Inits) /\ Has(r, lock[id])
  BY Kinds DEF TypeOK, Holder
<1>2. lock' \in [Ids -> Seq(Requests)]
  BY <1>1, LeaveLine
<1>3. initLock' \in Seq(Inits)
        /\ \A x : x # r /\ InLine(x, initLock) => InLine(x, initLock')
  BY <1>1, LeaveLine DEF Holder
<1>4. \A x, y \in Requests :
        x # r /\ InLine(x, lock[IdOf[y]]) => InLine(x, lock'[IdOf[y]])
  BY <1>1, LeaveLine, Kinds
<1>5. at'[r] = p /\ \A x \in Requests : x # r => at'[x] = at[x]
  BY DEF TypeOK, Goto
<1>6. ASSUME NEW x \in Requests, x # r, Has(x, lock[IdOf[x]])
      PROVE  Has(x, lock'[IdOf[x]])
  <2>1. IdOf[x] # id
    BY <1>1, <1>6 DEF Has
  <2>. QED  BY <1>1, <1>6, <2>1, Kinds
<1>7. ASSUME NEW x \in Inits, x # r, Has(x, initLock)
      PROVE  Has(x, initLock')
  BY <1>7 DEF Holder, Has
<1>. QED
  BY <1>2, <1>3, <1>4, <1>5, <1>6, <1>7, Kinds DEF LockPart, Working, Disposing

-------------------------------------------------------------------------------
(* The steps.                                                              *)

\* What is left alone by a request that waits, or has nothing to do.
Rest == <<client, connVars, threads, taskVars, served>>

\* Requests that join a line.
LEMMA WaitSteps ==
    ASSUME LeaseInv, NEW r \in Requests, Arrive(r) \/ Gate(r) \/ Leave(r)
    PROVE  LeaseInv'
<1>. USE DEF LeaseInv
<1>1. PICK p \in {"gate", "entry", "leaving"} :
        /\ at' = [at EXCEPT ![r] = p]
        /\ \/ at[r] = "new" /\ p \in {"gate", "entry"} /\ (p = "gate" <=> r \in Inits)
           \/ at[r] = "gate" /\ p = "entry"
           \/ at[r] = "serving" /\ p = "leaving"
  BY DEF Arrive, Gate, Leave, Queue, Goto
<1>2. UNCHANGED <<registered, clients, Rest>>
  BY DEF Arrive, Gate, Leave, Rest
<1>3. /\ lock' \in [Ids -> Seq(Requests)] /\ initLock' \in Seq(Inits)
      /\ LockPart'
  <2>1. CASE Arrive(r) /\ r \in Inits
    BY <2>1, InitLockJoined DEF Arrive, Goto, TypeOK
  <2>2. CASE Arrive(r) /\ r \notin Inits
    BY <2>2, LockJoined DEF Arrive, TypeOK
  <2>3. CASE Gate(r)
    <3>1. Has(r, initLock)
      BY <2>3 DEF Gate, LockPart, Has, InLine
    <3>. QED  BY <2>3, <3>1, LockJoined DEF Gate, TypeOK
  <2>4. CASE Leave(r)
    <3>1. r \notin Inits
      BY <2>4, Kinds DEF Leave, AtPart, Places
    <3>. QED  BY <2>4, <3>1, LockJoined DEF Leave, TypeOK
  <2>. QED  BY <2>1, <2>2, <2>3, <2>4
<1>4. /\ at'[r] = p /\ at'[r] \in Places(r) /\ ~Working(r) /\ ~Working(r)'
      /\ \A x \in Requests : x # r => at'[x] = at[x]
  BY <1>1 DEF TypeOK, AtPart, Places, Working, Disposing
<1>5. TypeOK' /\ AtPart'
  BY <1>1, <1>2, <1>3, <1>4 DEF TypeOK, AtPart, Places, Rest, connVars, taskVars
<1>6. TablePart'
  BY <1>1, <1>2, <1>4 DEF TablePart, Working, Disposing, Rest
<1>7. WorkPart' /\ RuntimePart'
  BY <1>1, <1>2, <1>4 DEF WorkPart, RuntimePart, Working, Disposing, Rest, connVars
<1>8. SocketPart' /\ TaskPart'
  BY <1>1, <1>2, <1>4 DEF TypeOK, SocketPart, TaskPart, Rest, connVars, taskVars
<1>9. ThreadPart'
  BY <1>1, <1>2, <1>4 DEF ThreadPart, Alive, Disposing, Rest, connVars
<1>. QED  BY <1>3, <1>5, <1>6, <1>7, <1>8, <1>9

\* A request that has had its answer without a change but to the table.
LEMMA AnswerSteps ==
    ASSUME LeaseInv, NEW r \in Requests, Holder(r), UNCHANGED Rest, Return(r),
           at[r] \in {"entry", "leaving", "accepting"},
           \A o \in Registers : socket[o] # r,
           registered' \in SUBSET Ids, clients' \in [Ids -> Registers \cup {None}],
           \A id \in Ids \ {IdOf[r]} :
              clients'[id] = clients[id] /\ (id \in registered' <=> id \in registered),
           IdOf[r] \in registered' <=> clients'[IdOf[r]] # None,
           clients'[IdOf[r]] # None => IdOf[clients'[IdOf[r]]] = IdOf[r],
           \/ clients'[IdOf[r]] = clients[IdOf[r]]
           \/ \A o \in Registers : IdOf[o] = IdOf[r] => ~initialized[o] /\ runtime[o] = None
    PROVE  LeaseInv'
<1>. USE DEF LeaseInv
<1>1. /\ at'[r] = "done" /\ \A x \in Requests : x # r => at'[x] = at[x]
      /\ at' \in [Requests -> {"new", "gate", "entry", "closing", "joining", "reaping",
                               "aborting", "accepting", "serving", "leaving", "done"}]
  BY DEF Return, Goto, TypeOK
<1>2. lock' \in [Ids -> Seq(Requests)] /\ initLock' \in Seq(Inits) /\ LockPart'
  BY LockLeft DEF Return
<1>3. TypeOK' /\ AtPart'
  BY <1>1, <1>2 DEF TypeOK, AtPart, Places, Rest, connVars, taskVars
<1>4. \A x \in Requests : x # r /\ Working(x) => IdOf[x] # IdOf[r]
  BY Alone
<1>5. TablePart'
  <2>1. ASSUME NEW id \in Ids
        PROVE  /\ id \in registered' <=> clients'[id] # None
               /\ clients'[id] # None => IdOf[clients'[id]] = id
    <3>1. CASE id = IdOf[r]
      BY <3>1
    <3>2. CASE id # IdOf[r]
      BY <3>2 DEF TablePart
    <3>. QED  BY <3>1, <3>2
  <2>2. \A x \in Requests :
          /\ client'[x] # None => IdOf[client'[x]] = IdOf[x]
          /\ Working(x)' \/ at'[x] \in {"serving", "leaving"} => client'[x] # None
    BY <1>1 DEF TablePart, Working, Disposing, Rest
  <2>. QED  BY <2>1, <2>2 DEF TablePart
<1>6. WorkPart'
  BY <1>1, <1>4, Kinds DEF WorkPart, Working, Disposing, Rest, connVars
<1>7. RuntimePart'
  BY <1>1, Kinds DEF TypeOK, RuntimePart, Rest, connVars
<1>8. SocketPart' /\ TaskPart'
  BY <1>1, Kinds DEF TypeOK, SocketPart, TaskPart, Rest, connVars, taskVars
<1>9. ThreadPart'
  <2>1. \A g \in Inits : threads'[g] = threads[g] /\ served'[g] = served[g]
    BY DEF Rest
  <2>2. \A g \in Inits : Alive(g) /\ IdOf[g] = IdOf[r] => clients'[IdOf[r]] = clients[IdOf[r]]
    BY Kinds DEF TypeOK, ThreadPart, TablePart
  <2>. QED  BY <1>1, <2>1, <2>2, Kinds DEF TypeOK, ThreadPart, Alive, Disposing, Rest, connVars
<1>. QED  BY <1>2, <1>3, <1>5, <1>6, <1>7, <1>8, <1>9

\* dispose() begins.
LEMMA DisposeSteps ==
    ASSUME LeaseInv, NEW r \in Requests, NEW o \in Registers, Holder(r), ~Working(r),
           at[r] \in {"entry", "leaving"}, r \notin Registers,
           o = clients[IdOf[r]], initialized[o],
           at[r] = "leaving" => client[r] = o,
           BeginDispose(r, o)
    PROVE  LeaseInv'
<1>. USE DEF LeaseInv
<1>1. /\ at'[r] \in {"closing", "joining"} /\ \A x \in Requests : x # r => at'[x] = at[x]
      /\ at' \in [Requests -> {"new", "gate", "entry", "closing", "joining", "reaping",
                               "aborting", "accepting", "serving", "leaving", "done"}]
      /\ client'[r] = o /\ \A x \in Requests : x # r => client'[x] = client[x]
      /\ client' \in [Requests -> Registers \cup {None}]
      /\ connected' \in [Registers -> BOOLEAN] /\ ~connected'[o]
      /\ \A x \in Registers : connected'[x] => connected[x]
  BY DEF BeginDispose, Goto, TypeOK
<1>2. UNCHANGED <<registered, clients, initLock, lock, initialized, used, socket,
                  runtime, threads, taskVars, served>>
  BY DEF BeginDispose
<1>3. LockPart'
  BY LockHeld DEF BeginDispose
<1>4. TypeOK'
  BY <1>1, <1>2 DEF TypeOK, taskVars
<1>5. AtPart'
  BY <1>1 DEF AtPart, Places
<1>6. \A x \in Requests : x # r /\ Working(x) => IdOf[x] # IdOf[r]
  BY Alone
<1>7. IdOf[o] = IdOf[r] /\ o # None
  BY Kinds DEF TablePart
<1>8. TablePart'
  BY <1>1, <1>2, <1>7, Kinds DEF TablePart, Working, Disposing
<1>9. WorkPart'
  <2>1. ASSUME NEW x \in Requests, x # r, Working(x)
        PROVE  client[x] # o /\ client'[x] = client[x] /\ client[x] \in Registers
    BY <1>1, <1>6, <1>7, <2>1 DEF TypeOK, TablePart
  <2>. QED  BY <1>1, <1>2, <2>1 DEF WorkPart, Working, Disposing
<1>10. RuntimePart'
  <2>1. \A x \in Requests : at[x] \in {"reaping", "aborting"}
                               => at'[x] = at[x] /\ client'[x] = client[x]
    BY <1>1
  <2>. QED  BY <1>2, <2>1 DEF RuntimePart
<1>11. SocketPart'
  <2>1. ASSUME NEW x \in Registers, socket[x] # None
        PROVE  /\ client'[socket[x]] = x
               /\ at'[socket[x]] \in {"serving", "leaving", "closing", "joining"}
    <3>1. socket[x] \in Requests /\ client[socket[x]] = x
          /\ at[socket[x]] \in {"serving", "leaving", "closing", "joining"}
      BY <2>1, Kinds DEF TypeOK, SocketPart
    <3>. QED  BY <1>1, <3>1
  <2>. QED  BY <1>1, <1>2, <2>1 DEF SocketPart
<1>12. TaskPart'
  <2>1. ASSUME NEW w \in receiving \cup sending
        PROVE  client'[w] = client[w]
    <3>1. w \in Requests /\ client[w] \in Registers /\ socket[client[w]] = w /\ w # None
      BY Kinds DEF TypeOK, TaskPart
    <3>2. at[w] # "entry"
      BY <3>1 DEF SocketPart
    <3>. QED  BY <1>1, <3>1, <3>2
  <2>. QED  BY <1>2, <2>1 DEF TaskPart, taskVars
<1>13. ThreadPart'
  BY <1>1, <1>2, Kinds DEF TypeOK, ThreadPart, Alive, Disposing, AtPart, Places
<1>. QED  BY <1>3, <1>4, <1>5, <1>8, <1>9, <1>10, <1>11, <1>12, <1>13

\* What a request works on is the current connection of its id, and nobody else
\* works on it.
LEMMA WorksAlone ==
    ASSUME LeaseInv, NEW r \in Requests, Working(r)
    PROVE  /\ client[r] \in Registers /\ client[r] = clients[IdOf[r]]
           /\ IdOf[client[r]] = IdOf[r] /\ IdOf[r] \in Ids /\ Holder(r)
           /\ \A x \in Requests : x # r /\ Working(x)
                => client[x] \in Registers /\ client[x] # client[r] /\ IdOf[x] # IdOf[r]
<1>1. client[r] \in Registers /\ client[r] = clients[IdOf[r]] /\ IdOf[client[r]] = IdOf[r]
  BY DEF LeaseInv, TypeOK, TablePart, WorkPart
<1>2. Holder(r)
  BY Heads DEF LeaseInv
<1>3. \A x \in Requests : x # r /\ Working(x) => IdOf[x] # IdOf[r]
  BY <1>2, Alone DEF LeaseInv
<1>4. \A x \in Requests : Working(x) => client[x] \in Registers /\ IdOf[client[x]] = IdOf[x]
  BY DEF LeaseInv, TypeOK, TablePart
<1>. QED  BY <1>1, <1>2, <1>3, <1>4, Kinds

\* Different connections have different runtimes.
LEMMA OwnRuntime ==
    ASSUME LeaseInv, NEW o \in Registers, initialized[o]
    PROVE  /\ runtime[o] \in Inits
           /\ \A x \in Registers : initialized[x] /\ runtime[x] = runtime[o] => x = o
<1>1. \A x \in Registers : initialized[x] =>
         /\ runtime[x] # None /\ IdOf[runtime[x]] = IdOf[x] /\ clients[IdOf[x]] = x
  BY DEF LeaseInv, RuntimePart
<1>2. runtime[o] \in Inits
  BY <1>1 DEF LeaseInv, TypeOK
<1>. QED  BY <1>1, <1>2

\* The runtime of a connection runs while nobody reaps it.
LEMMA StillRuns ==
    ASSUME LeaseInv, NEW r \in Requests, Working(r), at[r] # "reaping",
           initialized[client[r]]
    PROVE  threads[runtime[client[r]]] = "running"
<1>1. client[r] \in Registers
  BY WorksAlone
<1>2. \A x \in Requests : at[x] = "reaping" => client[x] # client[r]
  BY WorksAlone DEF Working, Disposing
<1>. QED  BY <1>1, <1>2 DEF LeaseInv, RuntimePart

\* A socket that is the one of a connection works for it, or waits to.
LEMMA SocketOwner ==
    ASSUME LeaseInv, NEW o \in Registers, socket[o] # None
    PROVE  /\ socket[o] \in Sockets /\ socket[o] \in Requests
           /\ initialized[o] /\ used[o] /\ socket[o] \in served[runtime[o]]
           /\ client[socket[o]] = o
           /\ at[socket[o]] \in {"serving", "leaving", "closing", "joining"}
  BY Kinds DEF LeaseInv, TypeOK, SocketPart

\* A socket with a task has its connection.
LEMMA TaskOwner ==
    ASSUME LeaseInv, NEW w \in receiving \cup sending
    PROVE  /\ w \in Sockets /\ w \in Requests /\ client[w] \in Registers
           /\ socket[client[w]] = w /\ w # None
           /\ at[w] \in {"serving", "leaving", "closing", "joining"}
<1>1. w \in Sockets /\ w \in Requests /\ w # None /\ client[w] \in Registers
      /\ socket[client[w]] = w
  BY Kinds DEF LeaseInv, TypeOK, TaskPart
<1>. QED  BY <1>1, SocketOwner

\* The socket is closed.
LEMMA CloseStep ==
    ASSUME LeaseInv, NEW r \in Requests, CloseSocket(r)
    PROVE  LeaseInv'
<1>. USE DEF LeaseInv
<1>1. /\ at[r] = "closing" /\ at'[r] = "joining"
      /\ \A x \in Requests : x # r => at'[x] = at[x]
      /\ link' \in [Sockets -> {"open", "closed"}]
      /\ at' \in [Requests -> {"new", "gate", "entry", "closing", "joining", "reaping",
                               "aborting", "accepting", "serving", "leaving", "done"}]
  BY DEF CloseSocket, Goto, TypeOK
<1>2. UNCHANGED <<registered, clients, initLock, lock, client, connVars, threads,
                  receiving, sending, served>>
  BY DEF CloseSocket
<1>3. LockPart'
  BY WorksAlone, LockHeld DEF CloseSocket, Working, Disposing
<1>4. TypeOK' /\ AtPart'
  BY <1>1, <1>2 DEF TypeOK, AtPart, Places, connVars
<1>5. \A x \in Requests : /\ Working(x)' <=> Working(x)
                          /\ Disposing(x)' <=> Disposing(x)
                          /\ at'[x] = at[x] \/ x = r
  BY <1>1 DEF Working, Disposing
<1>6. TablePart' /\ WorkPart'
  BY <1>1, <1>2, <1>5 DEF TablePart, WorkPart, connVars
<1>7. RuntimePart'
  BY <1>1, <1>2 DEF RuntimePart, connVars
<1>8. SocketPart' /\ TaskPart'
  <2>1. \A o \in Registers : socket[o] # None
          => at'[socket[o]] \in {"serving", "leaving", "closing", "joining"}
    BY <1>1, SocketOwner
  <2>. QED  BY <1>2, <2>1 DEF SocketPart, TaskPart, connVars
<1>9. ThreadPart'
  BY <1>1, <1>2, Kinds DEF ThreadPart, Alive, Disposing, connVars
<1>. QED  BY <1>3, <1>4, <1>6, <1>7, <1>8, <1>9

\* The tasks are over and the runtime is told to exit.
LEMMA JoinStep ==
    ASSUME LeaseInv, NEW r \in Requests, Join(r)
    PROVE  LeaseInv'
<1>. DEFINE o == client[r]
            g == runtime[o]
<1>. USE DEF LeaseInv
<1>1. /\ at[r] = "joining" /\ at'[r] = "reaping" /\ Working(r) /\ Disposing(r)
      /\ \A x \in Requests : x # r => at'[x] = at[x]
      /\ at' \in [Requests -> {"new", "gate", "entry", "closing", "joining", "reaping",
                               "aborting", "accepting", "serving", "leaving", "done"}]
      /\ UNCHANGED <<registered, clients, initLock, lock, client, initialized, used,
                     runtime, taskVars, served>>
  BY DEF Join, Goto, TypeOK, Working, Disposing
<1>2. /\ o \in Registers /\ o = clients[IdOf[r]] /\ IdOf[o] = IdOf[r] /\ initialized[o]
      /\ g \in Inits /\ threads[g] = "running"
      /\ \A x \in Requests : x # r /\ Working(x) => client[x] \in Registers /\ client[x] # o
  BY <1>1, WorksAlone, StillRuns, OwnRuntime DEF WorkPart
<1>3. /\ socket[o] \notin receiving \cup sending
      /\ socket' = [socket EXCEPT ![o] = None]
      /\ connected' = [connected EXCEPT ![o] = FALSE]
      /\ threads' = [threads EXCEPT ![g] = "killed"]
  BY DEF Join
<1>4. /\ socket'[o] = None /\ \A x \in Registers : x # o => socket'[x] = socket[x]
      /\ socket' \in [Registers -> Sockets \cup {None}]
      /\ ~connected'[o] /\ \A x \in Registers : connected'[x] => connected[x]
      /\ connected' \in [Registers -> BOOLEAN]
      /\ threads'[g] = "killed" /\ \A x \in Inits : x # g => threads'[x] = threads[x]
      /\ threads' \in [Inits -> {"none", "running", "killed", "gone"}]
  BY <1>2, <1>3 DEF TypeOK
<1>5. LockPart'
  BY <1>1, WorksAlone, LockHeld DEF Join
<1>6. TypeOK'
  BY <1>1, <1>4 DEF TypeOK, taskVars
<1>7. AtPart'
  BY <1>1 DEF AtPart, Places
<1>8. TablePart'
  BY <1>1 DEF TablePart, Working, Disposing
<1>9. WorkPart'
  <2>1. \A x \in Requests : x # r =>
          /\ Working(x)' <=> Working(x)
          /\ Disposing(x)' <=> Disposing(x)
          /\ at'[x] = at[x]
    BY <1>1 DEF Working, Disposing
  <2>2. ASSUME NEW x \in Requests, x # r, at[x] = "reaping"
        PROVE  threads'[runtime[client[x]]] \in {"killed", "gone"}
    <3>1. Working(x) /\ client[x] \in Registers /\ initialized[client[x]]
      BY <1>2, <2>2 DEF WorkPart, Working, Disposing
    <3>2. runtime[client[x]] \in Inits /\ threads[runtime[client[x]]] \in {"killed", "gone"}
      BY <2>2, <3>1, OwnRuntime DEF WorkPart
    <3>. QED  BY <1>4, <3>2
  <2>3. \A x \in Requests : at[x] = "aborting" => x \in Inits /\ x # g
    BY <1>2 DEF AtPart, Places, WorkPart
  <2>. QED
    BY <1>1, <1>2, <1>4, <2>1, <2>2, <2>3 DEF WorkPart, Working, Disposing
<1>10. RuntimePart'
  <2>1. \A x \in Registers : initialized[x] /\ x # o =>
          runtime[x] \in Inits /\ runtime[x] # g
    BY <1>2, OwnRuntime
  <2>. QED  BY <1>1, <1>2, <1>4, <2>1 DEF RuntimePart
<1>11. SocketPart'
  <2>1. \A x \in Registers : x # o /\ socket[x] # None
          => at'[socket[x]] \in {"serving", "leaving", "closing", "joining"}
    BY <1>1, SocketOwner
  <2>. QED  BY <1>1, <1>4, <2>1 DEF SocketPart
<1>12. TaskPart'
  <2>1. \A w \in receiving \cup sending : client[w] \in Registers /\ client[w] # o
                                          /\ socket[client[w]] = w
    BY <1>3, TaskOwner
  <2>. QED  BY <1>1, <1>4, <2>1, Kinds DEF TaskPart, taskVars
<1>13. ThreadPart'
  BY <1>1, <1>2, <1>4, Kinds DEF ThreadPart, Alive, Disposing
<1>. QED  BY <1>5, <1>6, <1>7, <1>8, <1>9, <1>10, <1>11, <1>12, <1>13

\* A runtime has gone and the connection is cleared, or forgotten.
LEMMA EndSteps ==
    ASSUME LeaseInv, NEW r \in Requests, at[r] \in {"reaping", "aborting"},
           threads[runtime[client[r]]] = "gone",
           Cleared(client[r]), Return(r),
           UNCHANGED <<client, used, connected, socket, threads, taskVars, served>>,
           UNCHANGED <<registered, clients>> \/ Forget(IdOf[r])
    PROVE  LeaseInv'
<1>. DEFINE o == client[r]
<1>. USE DEF LeaseInv
<1>1. /\ at'[r] = "done" /\ \A x \in Requests : x # r => at'[x] = at[x]
      /\ at' \in [Requests -> {"new", "gate", "entry", "closing", "joining", "reaping",
                               "aborting", "accepting", "serving", "leaving", "done"}]
  BY DEF Return, Goto, TypeOK
<1>2. /\ o \in Registers /\ o = clients[IdOf[r]] /\ IdOf[o] = IdOf[r] /\ IdOf[r] \in Ids
      /\ Working(r) /\ Holder(r)
      /\ \A x \in Requests : x # r /\ Working(x)
           => client[x] \in Registers /\ client[x] # o /\ IdOf[x] # IdOf[r]
  BY WorksAlone DEF Working, Disposing
<1>3. socket[o] = None /\ ~connected[o]
  BY <1>2 DEF WorkPart, SocketPart
<1>4. /\ initialized' \in [Registers -> BOOLEAN]
      /\ ~initialized'[o] /\ \A x \in Registers : x # o => initialized'[x] = initialized[x]
      /\ runtime' \in [Registers -> Inits \cup {None}]
      /\ runtime'[o] = None /\ \A x \in Registers : x # o => runtime'[x] = runtime[x]
  BY <1>2 DEF Cleared, TypeOK
<1>5. /\ registered' \in SUBSET Ids /\ clients' \in [Ids -> Registers \cup {None}]
      /\ clients'[IdOf[r]] \in {o, None} /\ (IdOf[r] \in registered' <=> clients'[IdOf[r]] # None)
      /\ \A id \in Ids \ {IdOf[r]} :
            clients'[id] = clients[id] /\ (id \in registered' <=> id \in registered)
  <2>1. CASE UNCHANGED <<registered, clients>>
    BY <1>2, <2>1 DEF TypeOK, TablePart
  <2>2. CASE Forget(IdOf[r])
    BY <1>2, <2>2 DEF TypeOK, TablePart, Forget
  <2>. QED  BY <2>1, <2>2
<1>6. lock' \in [Ids -> Seq(Requests)] /\ initLock' \in Seq(Inits) /\ LockPart'
  BY <1>2, LockLeft DEF Return
<1>7. TypeOK'
  BY <1>1, <1>4, <1>5, <1>6 DEF TypeOK, taskVars
<1>8. AtPart'
  BY <1>1 DEF AtPart, Places
<1>9. TablePart'
  <2>1. ASSUME NEW id \in Ids
        PROVE  /\ id \in registered' <=> clients'[id] # None
               /\ clients'[id] # None => IdOf[clients'[id]] = id
    BY <1>2, <1>5 DEF TablePart
  <2>2. \A x \in Requests :
          /\ client'[x] # None => IdOf[client'[x]] = IdOf[x]
          /\ Working(x)' \/ at'[x] \in {"serving", "leaving"} => client'[x] # None
    BY <1>1 DEF TablePart, Working, Disposing
  <2>. QED  BY <2>1, <2>2 DEF TablePart
<1>10. WorkPart'
  <2>1. \A x \in Requests : Working(x)' =>
           /\ x # r /\ Working(x) /\ client[x] \in Registers /\ client[x] # o
           /\ IdOf[x] \in Ids \ {IdOf[r]}
    BY <1>1, <1>2, Kinds DEF Working, Disposing
  <2>2. \A x \in Requests : Disposing(x)' => Working(x)'
    BY DEF Working, Disposing
  <2>3. \A x \in Requests : at'[x] \in {"reaping", "aborting", "accepting"} => Working(x)'
    BY DEF Working, Disposing
  <2>4. ASSUME NEW x \in Requests, Working(x)'
        PROVE  /\ client'[x] = clients'[IdOf[x]]
               /\ Disposing(x)' => initialized'[client'[x]] /\ ~connected'[client'[x]]
               /\ at'[x] = "reaping" =>
                     /\ socket'[client'[x]] = None
                     /\ threads'[runtime'[client'[x]]] \in {"killed", "gone"}
               /\ at'[x] = "aborting" =>
                     /\ ~initialized'[client'[x]] /\ runtime'[client'[x]] = x
                     /\ threads'[x] \in {"killed", "gone"}
               /\ at'[x] = "accepting" => initialized'[client'[x]] /\ ~used'[client'[x]]
    <3>1. /\ x # r /\ Working(x) /\ client[x] \in Registers /\ client[x] # o
          /\ clients'[IdOf[x]] = clients[IdOf[x]] /\ at'[x] = at[x]
          /\ Disposing(x)' <=> Disposing(x)
      BY <1>1, <1>5, <2>1, <2>4 DEF Disposing
    <3>. QED  BY <1>4, <3>1 DEF WorkPart
  <2>. QED  BY <2>2, <2>3, <2>4 DEF WorkPart
<1>11. RuntimePart'
  <2>1. ASSUME NEW x \in Registers, x # o
        PROVE  /\ initialized[x] => clients'[IdOf[x]] = clients[IdOf[x]]
               /\ \A y \in Requests : client[y] = x => at'[y] = at[y]
    <3>1. initialized[x] => IdOf[x] # IdOf[r] /\ IdOf[x] \in Ids
      BY <1>2, <2>1, Kinds DEF RuntimePart
    <3>. QED  BY <1>1, <1>5, <2>1, <3>1
  <2>. QED  BY <1>4, <2>1 DEF RuntimePart
<1>12. SocketPart' /\ TaskPart'
  <2>1. ASSUME NEW x \in Registers, socket[x] # None
        PROVE  /\ x # o
               /\ at'[socket[x]] \in {"serving", "leaving", "closing", "joining"}
    BY <1>1, <1>3, <2>1, SocketOwner
  <2>. QED  BY <1>3, <1>4, <2>1 DEF SocketPart, TaskPart, taskVars
<1>13. ThreadPart'
  <2>1. ASSUME NEW g \in Inits, Alive(g)
        PROVE  clients'[IdOf[g]] # None /\ runtime'[clients'[IdOf[g]]] = g
    <3>1. clients[IdOf[g]] # None /\ runtime[clients[IdOf[g]]] = g
      BY <2>1 DEF ThreadPart
    <3>2. clients[IdOf[g]] # o
      BY <2>1, <3>1 DEF Alive
    <3>3. IdOf[g] \in Ids \ {IdOf[r]} /\ clients[IdOf[g]] \in Registers
      BY <1>2, <3>1, <3>2, Kinds DEF TypeOK
    <3>. QED  BY <1>4, <1>5, <3>1, <3>2, <3>3
  <2>2. \A g \in Inits : at'[g] \in {"new", "gate", "entry"} \/ Disposing(g)'
                           => at[g] \in {"new", "gate", "entry"} \/ Disposing(g)
    BY <1>1, Kinds DEF Disposing
  <2>. QED  BY <2>1, <2>2 DEF ThreadPart, Alive
<1>. QED  BY <1>6, <1>7, <1>8, <1>9, <1>10, <1>11, <1>12, <1>13

\* When a request builds a runtime, nothing of its id has threads.
LEMMA NoThreads ==
    ASSUME LeaseInv, NEW r \in Inits, NEW o \in Registers, Holder(r),
           o = clients[IdOf[r]],
           \/ at[r] = "entry" /\ ~initialized[o]
           \/ at[r] = "reaping" /\ client[r] = o /\ threads[runtime[o]] = "gone"
    PROVE  /\ threads[r] = "none" /\ served[r] = {}
           /\ \A g \in Inits : Alive(g) => IdOf[g] # IdOf[r] /\ g # r
<1>1. /\ r \in Requests /\ IdOf[r] \in Ids /\ o # None
      /\ threads[r] = "none" /\ served[r] = {}
  BY Kinds DEF LeaseInv, ThreadPart, Disposing
<1>2. \A x \in Requests : at[x] = "aborting" => client[x] # o
  <2>1. SUFFICES ASSUME NEW x \in Requests, at[x] = "aborting", client[x] = o
                 PROVE  FALSE
    OBVIOUS
  <2>2. IdOf[o] = IdOf[r] /\ IdOf[o] = IdOf[x] /\ Working(x)
    BY <1>1, <2>1 DEF LeaseInv, TablePart, Working
  <2>. QED  BY <1>1, <2>1, <2>2, Alone DEF LeaseInv
<1>3. ASSUME NEW g \in Inits, Alive(g)
      PROVE  IdOf[g] # IdOf[r] /\ g # r
  <2>1. SUFFICES ASSUME IdOf[g] = IdOf[r] PROVE FALSE
    OBVIOUS
  <2>2. runtime[o] = g /\ g # None
    BY <1>3, <2>1, Kinds DEF LeaseInv, ThreadPart
  <2>3. CASE at[r] = "entry" /\ ~initialized[o]
    BY <1>2, <2>2, <2>3 DEF LeaseInv, RuntimePart
  <2>4. CASE threads[runtime[o]] = "gone"
    BY <1>3, <2>2, <2>4 DEF Alive
  <2>. QED  BY <2>3, <2>4
<1>. QED  BY <1>1, <1>3

\* A runtime is built, or the build is given up.
LEMMA BuildSteps ==
    ASSUME LeaseInv, NEW r \in Inits, NEW o \in Registers, Holder(r),
           o = clients[IdOf[r]],
           \/ at[r] = "entry" /\ ~initialized[o]
           \/ at[r] = "reaping" /\ client[r] = o /\ threads[runtime[o]] = "gone",
           Build(r, o),
           UNCHANGED <<registered, clients, connected, socket, taskVars, served>>
    PROVE  LeaseInv'
<1>. USE DEF LeaseInv
<1>1. /\ r \in Requests /\ r \notin Sockets /\ IdOf[r] \in Ids /\ IdOf[o] = IdOf[r] /\ o # None
      /\ threads[r] = "none" /\ served[r] = {}
      /\ \A x \in Requests : x # r /\ Working(x)
           => client[x] \in Registers /\ client[x] # o /\ IdOf[x] # IdOf[r]
  <2>1. r \in Requests /\ r \notin Sockets /\ IdOf[r] \in Ids /\ o # None
    BY Kinds
  <2>2. IdOf[o] = IdOf[r]
    BY <2>1 DEF TablePart
  <2>3. threads[r] = "none" /\ served[r] = {}
    BY DEF ThreadPart, Disposing
  <2>4. ASSUME NEW x \in Requests, x # r, Working(x)
        PROVE  client[x] \in Registers /\ client[x] # o /\ IdOf[x] # IdOf[r]
    BY <2>1, <2>2, <2>4, Alone, WorksAlone
  <2>. QED  BY <2>1, <2>2, <2>3, <2>4
<1>2. socket[o] = None /\ ~connected[o]
  BY <1>1 DEF WorkPart, SocketPart
<1>3. \A x \in Requests : at[x] \in {"reaping", "aborting"} /\ client[x] = o => x = r
  BY <1>1 DEF Working, Disposing
<1>4. \A g \in Inits : Alive(g) => IdOf[g] # IdOf[r] /\ g # r
  BY NoThreads
<1>5. ASSUME NEW x \in Registers, x # o, initialized[x]
      PROVE  runtime[x] \in Inits /\ runtime[x] # r
  <2>1. runtime[x] \in Inits
    BY <1>5, OwnRuntime
  <2>2. threads[runtime[x]] = "running"
          \/ threads[runtime[x]] \in {"killed", "gone"}
    BY <1>5 DEF RuntimePart, WorkPart
  <2>. QED  BY <1>1, <2>1, <2>2
<1>6. /\ \/ /\ at'[r] = "done" /\ initialized'[o] /\ ~used'[o] /\ client' = client
            /\ threads'[r] = "running" /\ Return(r)
         \/ /\ at'[r] = "aborting" /\ ~initialized'[o] /\ client'[r] = o
            /\ threads'[r] \in {"killed", "gone"}
            /\ Goto(r, "aborting") /\ UNCHANGED <<initLock, lock>>
      /\ runtime'[o] = r
  BY <1>1 DEF Build, Built, BuildFailed, Return, Goto, TypeOK
<1>7. /\ \A x \in Requests : x # r => at'[x] = at[x] /\ client'[x] = client[x]
      /\ \A x \in Registers : x # o => /\ initialized'[x] = initialized[x]
                                       /\ used'[x] = used[x] /\ runtime'[x] = runtime[x]
      /\ \A g \in Inits : g # r => threads'[g] = threads[g]
  BY <1>1 DEF Build, Built, BuildFailed, Return, Goto, TypeOK
<1>8. lock' \in [Ids -> Seq(Requests)] /\ initLock' \in Seq(Inits) /\ LockPart'
  BY <1>1, <1>6, LockLeft, LockHeld DEF Return, TypeOK
<1>9. TypeOK'
  <2>1. at' \in [Requests -> {"new", "gate", "entry", "closing", "joining", "reaping",
                              "aborting", "accepting", "serving", "leaving", "done"}]
    <3>1. at' = [at EXCEPT ![r] = "done"] \/ at' = [at EXCEPT ![r] = "aborting"]
      BY <1>6 DEF Return, Goto
    <3>. QED  BY <1>1, <3>1 DEF TypeOK
  <2>2. client' \in [Requests -> Registers \cup {None}]
    BY DEF Build, Built, BuildFailed, TypeOK
  <2>3. /\ initialized' \in [Registers -> BOOLEAN] /\ used' \in [Registers -> BOOLEAN]
        /\ runtime' \in [Registers -> Inits \cup {None}]
    <3>1. initialized' = [initialized EXCEPT ![o] = TRUE]
            \/ initialized' = [initialized EXCEPT ![o] = FALSE]
      BY DEF Build, Built, BuildFailed
    <3>2. used' = [used EXCEPT ![o] = FALSE] \/ used' = used
      BY DEF Build, Built, BuildFailed
    <3>3. runtime' = [runtime EXCEPT ![o] = r]
      BY DEF Build, Built, BuildFailed
    <3>. QED  BY <3>1, <3>2, <3>3 DEF TypeOK
  <2>4. threads' \in [Inits -> {"none", "running", "killed", "gone"}]
    BY DEF Build, Built, BuildFailed, TypeOK
  <2>. QED  BY <1>8, <2>1, <2>2, <2>3, <2>4 DEF TypeOK, taskVars
<1>10. AtPart'
  BY <1>6, <1>7 DEF AtPart, Places
<1>11. TablePart'
  BY <1>1, <1>6, <1>7 DEF TablePart, Working, Disposing
<1>12. WorkPart'
  <2>1. ASSUME NEW x \in Requests, x # r, Working(x)
        PROVE  /\ client'[x] = clients'[IdOf[x]]
               /\ Disposing(x) => initialized'[client'[x]] /\ ~connected'[client'[x]]
               /\ at[x] = "reaping" =>
                     /\ socket'[client'[x]] = None
                     /\ threads'[runtime'[client'[x]]] \in {"killed", "gone"}
               /\ at[x] = "aborting" =>
                     /\ ~initialized'[client'[x]] /\ runtime'[client'[x]] = x
                     /\ threads'[x] \in {"killed", "gone"}
               /\ at[x] = "accepting" => initialized'[client'[x]] /\ ~used'[client'[x]]
    <3>1. client[x] \in Registers /\ client[x] # o /\ client'[x] = client[x]
      BY <1>1, <1>7, <2>1
    <3>2. at[x] = "aborting" => x \in Inits
      BY DEF AtPart, Places
    <3>. QED  BY <1>5, <1>7, <2>1, <3>1, <3>2 DEF WorkPart, Disposing
  <2>2. ASSUME NEW x \in Requests, x # r
        PROVE  /\ at'[x] = at[x] /\ (Working(x)' <=> Working(x))
               /\ (Disposing(x)' <=> Disposing(x)) /\ (Disposing(x) => Working(x))
               /\ at[x] \in {"reaping", "aborting", "accepting"} => Working(x)
    BY <1>7, <2>2 DEF Working, Disposing
  <2>3. /\ Working(r)' => client'[r] = clients'[IdOf[r]] /\ at'[r] = "aborting"
        /\ at'[r] = "aborting" => /\ ~initialized'[client'[r]] /\ runtime'[client'[r]] = r
                                  /\ threads'[r] \in {"killed", "gone"}
        /\ Disposing(r)' => Working(r)'
        /\ at'[r] \in {"reaping", "aborting", "accepting"} => Working(r)'
    BY <1>6 DEF Working, Disposing
  <2>. QED  BY <2>1, <2>2, <2>3 DEF WorkPart, Disposing
<1>13. RuntimePart'
  <2>1. ASSUME NEW x \in Registers, x # o, NEW y \in Requests,
               at[y] \in {"reaping", "aborting"}, client[y] = x
        PROVE  at'[y] = at[y] /\ client'[y] = x
    BY <1>7, <2>1
  <2>2. ASSUME NEW x \in Registers, x # o, initialized[x]
        PROVE  /\ runtime'[x] = runtime[x] /\ initialized'[x] /\ used'[x] = used[x]
               /\ threads'[runtime[x]] = threads[runtime[x]]
    BY <1>5, <1>7, <2>2
  <2>3. /\ initialized'[o] => /\ clients'[IdOf[o]] = o /\ runtime'[o] # None
                              /\ IdOf[runtime'[o]] = IdOf[o]
                              /\ threads'[runtime'[o]] = "running"
                              /\ served'[runtime'[o]] = {}
        /\ ~initialized'[o] => \E y \in Requests : at'[y] = "aborting" /\ client'[y] = o
    BY <1>1, <1>6, Kinds
  <2>4. \A x \in Registers : x # o => initialized'[x] = initialized[x] /\ runtime'[x] = runtime[x]
    BY <1>7
  <2>. QED  BY <2>1, <2>2, <2>3, <2>4 DEF RuntimePart
<1>14. SocketPart' /\ TaskPart'
  <2>1. ASSUME NEW x \in Registers, socket[x] # None
        PROVE  /\ x # o /\ socket[x] \in Requests /\ socket[x] # r
    BY <1>1, <1>2, <2>1, SocketOwner
  <2>2. ASSUME NEW w \in receiving \cup sending
        PROVE  client'[w] = client[w]
    BY <1>1, <1>7, TaskOwner
  <2>. QED  BY <1>2, <1>7, <2>1, <2>2 DEF SocketPart, TaskPart, taskVars
<1>15. ThreadPart'
  <2>1. ASSUME NEW g \in Inits, g # r, Alive(g)
        PROVE  clients'[IdOf[g]] # None /\ runtime'[clients'[IdOf[g]]] = g
    <3>1. clients[IdOf[g]] # None /\ runtime[clients[IdOf[g]]] = g
      BY <2>1 DEF ThreadPart
    <3>2. clients[IdOf[g]] \in Registers /\ IdOf[clients[IdOf[g]]] = IdOf[g]
      BY <3>1, Kinds DEF TypeOK, TablePart
    <3>. QED  BY <1>1, <1>4, <1>7, <2>1, <3>1, <3>2
  <2>2. \A g \in Inits : at'[g] \in {"new", "gate", "entry"} \/ Disposing(g)'
          => g # r /\ (at[g] \in {"new", "gate", "entry"} \/ Disposing(g))
    BY <1>6, <1>7, Kinds DEF Disposing
  <2>. QED  BY <1>1, <1>6, <1>7, <2>1, <2>2 DEF ThreadPart, Alive
<1>. QED  BY <1>8, <1>9, <1>10, <1>11, <1>12, <1>13, <1>14, <1>15

\* The endpoint has found a runtime to attach to.
LEMMA AcceptStep ==
    ASSUME LeaseInv, NEW w \in Requests, SocketAccept(w)
    PROVE  LeaseInv'
<1>. DEFINE o == clients[IdOf[w]]
<1>. USE DEF LeaseInv
<1>1. /\ at[w] = "entry" /\ w \in Sockets /\ at'[w] = "accepting" /\ client'[w] = o
      /\ \A x \in Requests : x # w => at'[x] = at[x] /\ client'[x] = client[x]
      /\ UNCHANGED <<registered, clients, initLock, lock, connVars, threads, taskVars, served>>
  BY DEF SocketAccept, Holds, Goto, TypeOK
<1>2. IdOf[w] \in Ids /\ o \in Registers /\ IdOf[o] = IdOf[w] /\ initialized[o] /\ ~used[o]
  BY <1>1, Kinds DEF SocketAccept, Attachable, TypeOK, TablePart
<1>3. LockPart'
  BY Heads, LockHeld DEF SocketAccept
<1>4. TypeOK'
  <2>1. at' \in [Requests -> {"new", "gate", "entry", "closing", "joining", "reaping",
                              "aborting", "accepting", "serving", "leaving", "done"}]
    BY DEF SocketAccept, Goto, TypeOK
  <2>2. client' \in [Requests -> Registers \cup {None}]
    BY <1>2 DEF SocketAccept, TypeOK
  <2>. QED  BY <1>1, <2>1, <2>2 DEF TypeOK, connVars, taskVars
<1>5. AtPart'
  BY <1>1 DEF AtPart, Places
<1>6. TablePart'
  BY <1>1, <1>2, Kinds DEF TablePart, Working, Disposing
<1>7. WorkPart'
  BY <1>1, <1>2 DEF WorkPart, Working, Disposing, connVars
<1>8. RuntimePart'
  <2>1. \A x \in Requests : at[x] \in {"reaping", "aborting"}
                               => at'[x] = at[x] /\ client'[x] = client[x]
    BY <1>1
  <2>. QED  BY <1>1, <2>1 DEF RuntimePart, connVars
<1>9. SocketPart' /\ TaskPart'
  <2>1. ASSUME NEW x \in Registers, socket[x] # None
        PROVE  client'[socket[x]] = client[socket[x]] /\ at'[socket[x]] = at[socket[x]]
    BY <1>1, <2>1, SocketOwner
  <2>2. \A v \in receiving \cup sending : client'[v] = client[v]
    BY <1>1, TaskOwner
  <2>. QED  BY <1>1, <2>1, <2>2 DEF SocketPart, TaskPart, connVars, taskVars
<1>10. ThreadPart'
  BY <1>1, Kinds DEF ThreadPart, Alive, Disposing, connVars
<1>. QED  BY <1>3, <1>4, <1>5, <1>6, <1>7, <1>8, <1>9, <1>10

\* start_pipeline.
LEMMA StartStep ==
    ASSUME LeaseInv, NEW w \in Requests, Start(w)
    PROVE  LeaseInv'
<1>. DEFINE o == client[w]
            g == runtime[o]
<1>. USE DEF LeaseInv
<1>1. /\ at[w] = "accepting" /\ at'[w] = "serving" /\ w \in Sockets /\ w \notin Inits /\ w # None
      /\ \A x \in Requests : x # w => at'[x] = at[x]
      /\ UNCHANGED <<registered, clients, client, initialized, runtime, threads, link>>
  BY Kinds DEF Start, Goto, TypeOK, AtPart, Places
<1>2. /\ o \in Registers /\ initialized[o] /\ ~used[o] /\ socket[o] = None /\ Holder(w)
      /\ g \in Inits /\ threads[g] = "running"
      /\ \A x \in Requests : x # w /\ Working(x) => client[x] \in Registers /\ client[x] # o
  <2>1. Working(w)
    BY <1>1 DEF Working
  <2>2. o \in Registers /\ initialized[o] /\ ~used[o]
    BY <1>1, <2>1, WorksAlone DEF WorkPart
  <2>. QED  BY <1>1, <2>1, <2>2, WorksAlone, StillRuns, OwnRuntime DEF SocketPart
<1>3. /\ socket' \in [Registers -> Sockets \cup {None}]
      /\ socket'[o] = w /\ \A x \in Registers : x # o => socket'[x] = socket[x]
      /\ connected' \in [Registers -> BOOLEAN]
      /\ connected'[o] /\ \A x \in Registers : x # o => connected'[x] = connected[x]
      /\ used' \in [Registers -> BOOLEAN]
      /\ used'[o] /\ \A x \in Registers : x # o => used'[x] = used[x]
  BY <1>1, <1>2 DEF Start, TypeOK
<1>4. /\ served' \in [Inits -> SUBSET Sockets]
      /\ served'[g] = served[g] \cup {w} /\ \A x \in Inits : x # g => served'[x] = served[x]
      /\ receiving' = receiving \cup {w} /\ sending' = sending \cup {w}
  BY <1>1, <1>2 DEF Start, TypeOK
<1>5. lock' \in [Ids -> Seq(Requests)] /\ initLock' \in Seq(Inits) /\ LockPart'
  BY <1>1, <1>2, LockLeft DEF Start
<1>6. TypeOK'
  <2>1. at' \in [Requests -> {"new", "gate", "entry", "closing", "joining", "reaping",
                              "aborting", "accepting", "serving", "leaving", "done"}]
    BY DEF Start, Goto, TypeOK
  <2>. QED  BY <1>1, <1>3, <1>4, <1>5, <2>1 DEF TypeOK
<1>7. AtPart'
  BY <1>1 DEF AtPart, Places
<1>8. TablePart'
  BY <1>1, <1>2, Kinds DEF TablePart, Working, Disposing
<1>9. WorkPart'
  <2>1. \A x \in Requests : /\ Disposing(x)' <=> Disposing(x)
                            /\ Working(x)' <=> Working(x) /\ x # w
                            /\ Disposing(x) => x # w
    BY <1>1 DEF Working, Disposing
  <2>2. ASSUME NEW x \in Requests, x # w, Working(x)
        PROVE  LET c == client[x]
               IN  socket'[c] = socket[c] /\ connected'[c] = connected[c] /\ used'[c] = used[c]
    BY <1>2, <1>3, <2>2
  <2>3. ASSUME NEW x \in Requests, at'[x] \in {"reaping", "aborting", "accepting"}
        PROVE  x # w /\ at'[x] = at[x] /\ Working(x)
    BY <1>1, <2>3 DEF Working, Disposing
  <2>4. \A x \in Requests : Disposing(x) => Working(x)
    BY DEF Working
  <2>. QED  BY <1>1, <2>1, <2>2, <2>3, <2>4 DEF WorkPart
<1>10. RuntimePart'
  <2>1. \A x \in Registers : initialized[x] /\ x # o => runtime[x] \in Inits /\ runtime[x] # g
    BY <1>2, OwnRuntime
  <2>2. \A x \in Requests : at[x] \in {"reaping", "aborting"} => at'[x] = at[x]
    BY <1>1
  <2>3. \A x \in Registers : x # o /\ initialized[x]
           => used'[x] = used[x] /\ served'[runtime[x]] = served[runtime[x]]
    BY <1>3, <1>4, <2>1
  <2>. QED  BY <1>1, <1>2, <1>3, <2>2, <2>3 DEF RuntimePart
<1>11. SocketPart'
  <2>1. ASSUME NEW x \in Registers, x # o, socket[x] # None
        PROVE  /\ at'[socket[x]] = at[socket[x]]
               /\ runtime[x] \in Inits /\ runtime[x] # g
    BY <1>1, <1>2, <2>1, SocketOwner, OwnRuntime
  <2>2. \A x \in Registers : x # o =>
           (connected'[x] => socket'[x] # None)
    BY <1>3 DEF SocketPart
  <2>. QED  BY <1>1, <1>2, <1>3, <1>4, <2>1, <2>2 DEF SocketPart
<1>12. TaskPart'
  <2>1. ASSUME NEW v \in receiving \cup sending
        PROVE  client[v] \in Registers /\ client[v] # o /\ socket[client[v]] = v
    BY <1>2, TaskOwner
  <2>. QED  BY <1>1, <1>2, <1>3, <1>4, <2>1, Kinds DEF TaskPart
<1>13. ThreadPart'
  <2>1. \A x \in Inits : at'[x] = at[x]
    BY <1>1, Kinds
  <2>2. \A x \in Inits : threads[x] = "none" => served'[x] = served[x]
    BY <1>2, <1>4
  <2>. QED  BY <1>1, <2>1, <2>2 DEF ThreadPart, Alive, Disposing
<1>. QED  BY <1>5, <1>6, <1>7, <1>8, <1>9, <1>10, <1>11, <1>12, <1>13

\* The peer leaves, a task of the connection ends, or the node threads exit.
LEMMA OtherSteps ==
    ASSUME LeaseInv,
           \/ \E w \in Sockets : PeerLeaves(w) \/ ReceiveEnds(w) \/ SendEnds(w)
           \/ \E g \in Inits : ThreadsExit(g)
    PROVE  LeaseInv'
<1>. USE DEF LeaseInv
<1>1. UNCHANGED <<registered, clients, lockVars, client, initialized, used, socket, runtime,
                  served>>
  BY DEF PeerLeaves, ReceiveEnds, SendEnds, ThreadsExit, connVars
<1>2. /\ link' \in [Sockets -> {"open", "closed"}]
      /\ receiving' \subseteq receiving /\ sending' \subseteq sending
  <2>1. CASE \E w \in Sockets : PeerLeaves(w)
    BY <2>1 DEF PeerLeaves, TypeOK
  <2>2. CASE \E w \in Sockets : ReceiveEnds(w)
    BY <2>2 DEF ReceiveEnds, TypeOK
  <2>3. CASE \E w \in Sockets : SendEnds(w)
    BY <2>3 DEF SendEnds, TypeOK
  <2>4. CASE \E g \in Inits : ThreadsExit(g)
    BY <2>4 DEF ThreadsExit, TypeOK, taskVars
  <2>. QED  BY <2>1, <2>2, <2>3, <2>4
<1>3. /\ connected' \in [Registers -> BOOLEAN]
      /\ \A x \in Registers : connected'[x] => connected[x]
  <2>1. CASE \E w \in Sockets : ReceiveEnds(w)
    BY <2>1, TaskOwner DEF ReceiveEnds, TypeOK
  <2>2. CASE UNCHANGED connected
    BY <2>2 DEF TypeOK
  <2>. QED  BY <2>1, <2>2 DEF PeerLeaves, SendEnds, ThreadsExit, connVars
<1>4. /\ threads' \in [Inits -> {"none", "running", "killed", "gone"}]
      /\ \A g \in Inits : \/ threads'[g] = threads[g]
                          \/ threads[g] = "killed" /\ threads'[g] = "gone"
  BY DEF PeerLeaves, ReceiveEnds, SendEnds, ThreadsExit, TypeOK
<1>5. TypeOK' /\ AtPart' /\ LockPart'
  BY <1>1, <1>2, <1>3, <1>4
     DEF TypeOK, AtPart, Places, LockPart, Working, Disposing, lockVars
<1>6. TablePart'
  BY <1>1 DEF TablePart, Working, Disposing, lockVars
<1>7. WorkPart'
  <2>1. ASSUME NEW r \in Requests, at[r] = "reaping"
        PROVE  threads'[runtime[client[r]]] \in {"killed", "gone"}
    <3>1. Working(r) /\ client[r] \in Registers /\ initialized[client[r]]
      BY <2>1, WorksAlone DEF Working, Disposing, WorkPart
    <3>. QED  BY <1>4, <2>1, <3>1, OwnRuntime DEF WorkPart
  <2>2. ASSUME NEW r \in Requests, at[r] = "aborting"
        PROVE  threads'[r] \in {"killed", "gone"}
    BY <1>4, <2>2 DEF WorkPart, AtPart, Places
  <2>3. \A r \in Requests : Working(r) => client[r] \in Registers
    BY WorksAlone
  <2>. QED  BY <1>1, <1>3, <2>1, <2>2, <2>3 DEF WorkPart, Working, Disposing, lockVars
<1>8. RuntimePart'
  <2>1. \A x \in Registers : initialized[x] => runtime[x] \in Inits
    BY OwnRuntime
  <2>. QED  BY <1>1, <1>4, <2>1 DEF RuntimePart, lockVars
<1>9. SocketPart' /\ TaskPart'
  BY <1>1, <1>2, <1>3 DEF SocketPart, TaskPart, lockVars
<1>10. ThreadPart'
  BY <1>1, <1>4 DEF ThreadPart, Alive, Disposing, lockVars
<1>. QED  BY <1>5, <1>6, <1>7, <1>8, <1>9, <1>10

-------------------------------------------------------------------------------
(* Every step preserves the invariant.                                     *)

\* A request that finds nothing to do, or changes only the table.
LEMMA AnswerActions ==
    ASSUME LeaseInv, NEW r \in Requests,
           \/ Register(r) \/ UnregisterNow(r) \/ InitRefused(r) \/ InitKept(r)
           \/ SocketRefused(r) \/ SocketLost(r) \/ LeaveNow(r)
    PROVE  LeaseInv'
<1>. DEFINE id == IdOf[r]
<1>. USE DEF LeaseInv
<1>1. /\ at[r] \in {"entry", "leaving", "accepting"} /\ Return(r) /\ UNCHANGED Rest
      /\ Holds(r, "entry") \/ Holds(r, "leaving") \/ Working(r)
  BY DEF Register, UnregisterNow, InitRefused, InitKept, SocketRefused, SocketLost,
         LeaveNow, Rest, Holds, Working
<1>2. Holder(r) /\ id \in Ids
  BY <1>1, Heads, Kinds
<1>3. \A o \in Registers : socket[o] # r
  <2>1. SUFFICES ASSUME NEW o \in Registers, socket[o] = r PROVE FALSE
    OBVIOUS
  <2>2. client[r] = o /\ at[r] = "leaving" /\ initialized[o] /\ IdOf[o] = id
    BY <1>1, <2>1, SocketOwner, Kinds DEF TablePart
  <2>3. LeaveNow(r)
    BY <2>2 DEF Register, UnregisterNow, InitRefused, InitKept, SocketRefused, SocketLost,
                Holds
  <2>4. clients[id] = o
    BY <2>2 DEF RuntimePart
  <2>. QED  BY <2>1, <2>2, <2>3, <2>4 DEF LeaveNow, StillOwns
<1>4. CASE UNCHANGED <<registered, clients>>
  BY <1>1, <1>2, <1>3, <1>4, AnswerSteps DEF TypeOK, TablePart
<1>5. CASE Register(r) /\ id \notin registered
  <2>1. \A o \in Registers : IdOf[o] = id => ~initialized[o]
    BY <1>2, <1>5, Kinds DEF RuntimePart, TablePart
  <2>2. ASSUME NEW o \in Registers, IdOf[o] = id PROVE runtime[o] = None
    <3>1. SUFFICES ASSUME NEW x \in Requests, at[x] = "aborting", client[x] = o PROVE FALSE
      BY <2>1, <2>2 DEF RuntimePart
    <3>2. Working(x)
      BY <3>1 DEF Working
    <3>3. clients[id] = o
      BY <2>2, <3>1, <3>2, WorksAlone
    <3>. QED  BY <1>2, <1>5, <3>3, Kinds DEF TablePart
  <2>3. /\ registered' = registered \cup {id} /\ clients' = [clients EXCEPT ![id] = r]
        /\ r \in Registers /\ r # None
    BY <1>5, Kinds DEF Register
  <2>4. /\ registered' \in SUBSET Ids /\ clients' \in [Ids -> Registers \cup {None}]
        /\ clients'[id] = r /\ id \in registered'
        /\ \A i \in Ids \ {id} :
              clients'[i] = clients[i] /\ (i \in registered' <=> i \in registered)
    BY <1>2, <2>3 DEF TypeOK
  <2>. QED  BY <1>1, <1>2, <1>3, <2>1, <2>2, <2>3, <2>4, AnswerSteps
<1>6. CASE UnregisterNow(r) /\ id \in registered
  <2>1. clients[id] \in Registers /\ ~initialized[clients[id]]
    BY <1>2, <1>6 DEF UnregisterNow, TypeOK, TablePart
  <2>2. \A o \in Registers : IdOf[o] = id => ~initialized[o]
    BY <2>1 DEF RuntimePart
  <2>3. ASSUME NEW o \in Registers, IdOf[o] = id PROVE runtime[o] = None
    <3>1. SUFFICES ASSUME NEW x \in Requests, at[x] = "aborting", client[x] = o PROVE FALSE
      BY <2>2, <2>3 DEF RuntimePart
    <3>2. Working(x) /\ IdOf[x] = id
      BY <2>3, <3>1, WorksAlone DEF Working
    <3>3. x = r
      BY <1>2, <3>2, Alone
    <3>. QED  BY <1>1, <3>1, <3>3
  <2>4. registered' = registered \ {id} /\ clients' = [clients EXCEPT ![id] = None]
    BY <1>6 DEF UnregisterNow, Forget
  <2>5. /\ registered' \in SUBSET Ids /\ clients' \in [Ids -> Registers \cup {None}]
        /\ clients'[id] = None /\ id \notin registered'
        /\ \A i \in Ids \ {id} :
              clients'[i] = clients[i] /\ (i \in registered' <=> i \in registered)
    BY <1>2, <2>4 DEF TypeOK
  <2>. QED  BY <1>1, <1>2, <1>3, <2>2, <2>3, <2>5, AnswerSteps
<1>. QED
  BY <1>4, <1>5, <1>6 DEF Register, UnregisterNow, InitRefused, InitKept, SocketRefused,
                          SocketLost, LeaveNow

\* A request that begins to dispose its connection.
LEMMA DisposeActions ==
    ASSUME LeaseInv, NEW r \in Requests,
           UnregisterDispose(r) \/ InitDispose(r) \/ LeaveDispose(r)
    PROVE  LeaseInv'
<1>. DEFINE o == clients[IdOf[r]]
<1>1. /\ Holds(r, "entry") \/ Holds(r, "leaving")
      /\ at[r] \in {"entry", "leaving"} /\ ~Working(r)
  BY DEF UnregisterDispose, InitDispose, LeaveDispose, Holds, Working, Disposing
<1>2. Holder(r)
  BY <1>1, Heads DEF LeaseInv
<1>3. r \notin Registers
  BY Kinds DEF LeaseInv, AtPart, Places, UnregisterDispose, InitDispose, LeaveDispose, Holds
<1>4. o \in Registers /\ initialized[o] /\ BeginDispose(r, o)
      /\ (at[r] = "leaving" => client[r] = o)
  <2>1. IdOf[r] \in Ids /\ (o # None => o \in Registers)
    BY Kinds DEF LeaseInv, TypeOK
  <2>2. CASE UnregisterDispose(r)
    BY <2>1, <2>2 DEF UnregisterDispose, LeaseInv, TablePart, Holds
  <2>3. CASE InitDispose(r)
    BY <2>1, <2>3 DEF InitDispose, Holds
  <2>4. CASE LeaveDispose(r)
    BY <2>1, <2>4 DEF LeaveDispose, StillOwns, Holds, LeaseInv, TablePart
  <2>. QED  BY <2>2, <2>3, <2>4
<1>. QED  BY <1>1, <1>2, <1>3, <1>4, DisposeSteps

\* A request whose runtime has gone.
LEMMA EndActions ==
    ASSUME LeaseInv, NEW r \in Requests,
           UnregisterReaped(r) \/ LeaveReaped(r) \/ InitAborted(r)
    PROVE  LeaseInv'
<1>1. InitAborted(r) => runtime[client[r]] = r
  BY DEF InitAborted, LeaseInv, WorkPart
<1>2. /\ at[r] \in {"reaping", "aborting"} /\ threads[runtime[client[r]]] = "gone"
      /\ Cleared(client[r]) /\ Return(r)
      /\ UNCHANGED <<client, used, connected, socket, threads, taskVars, served>>
      /\ UNCHANGED <<registered, clients>> \/ Forget(IdOf[r])
  BY <1>1 DEF UnregisterReaped, LeaveReaped, InitAborted, Reaped
<1>. QED  BY <1>2, EndSteps

\* A request that builds a runtime holds the locks, and the connection has none.
LEMMA Builder ==
    ASSUME LeaseInv, NEW r \in Requests, InitBuild(r) \/ InitReaped(r)
    PROVE  LET o == clients[IdOf[r]]
           IN  /\ r \in Inits /\ o \in Registers /\ Holder(r) /\ Build(r, o)
               /\ \/ at[r] = "entry" /\ ~initialized[o]
                  \/ at[r] = "reaping" /\ client[r] = o /\ threads[runtime[o]] = "gone"
               /\ UNCHANGED <<registered, clients, connected, socket, taskVars, served>>
<1>1. CASE InitBuild(r)
  <2>1. clients[IdOf[r]] \in Registers /\ Holder(r)
    BY <1>1, Kinds, Heads DEF InitBuild, LeaseInv, TypeOK
  <2>. QED  BY <1>1, <2>1 DEF InitBuild, Holds
<1>2. CASE InitReaped(r)
  <2>1. /\ clients[IdOf[r]] \in Registers /\ client[r] = clients[IdOf[r]] /\ Holder(r)
    BY <1>2, WorksAlone DEF InitReaped, Reaped, Working, Disposing
  <2>. QED  BY <1>2, <2>1 DEF InitReaped, Reaped
<1>. QED  BY <1>1, <1>2

\* A step of a request preserves the invariant.
LEMMA RequestSteps ==
    ASSUME LeaseInv, NEW r \in Requests, Arrive(r) \/ Step(r)
    PROVE  LeaseInv'
<1>1. ASSUME InitBuild(r) \/ InitReaped(r) PROVE LeaseInv'
  BY <1>1, Builder, BuildSteps
<1>. QED
  BY <1>1, WaitSteps, CloseStep, JoinStep, AnswerActions, DisposeActions, EndActions,
     AcceptStep, StartStep DEF Step

\* The invariant holds of every reachable state.
THEOREM LeaseInvariant == Spec => []LeaseInv
<1>1. Init => LeaseInv
  <2>. SUFFICES ASSUME Init PROVE LeaseInv
    OBVIOUS
  <2>. USE DEF Init
  <2>1. TypeOK
    BY DEF TypeOK
  <2>2. /\ \A r \in Requests : at[r] = "new" /\ client[r] = None
        /\ \A o \in Registers : ~initialized[o] /\ ~connected[o] /\ socket[o] = None
                                /\ runtime[o] = None
        /\ \A g \in Inits : threads[g] = "none" /\ served[g] = {}
        /\ \A id \in Ids : id \notin registered /\ clients[id] = None
    OBVIOUS
  <2>3. AtPart /\ LockPart /\ TablePart /\ WorkPart
    BY <2>2 DEF AtPart, Places, LockPart, TablePart, WorkPart, Working, Disposing
  <2>4. RuntimePart /\ SocketPart /\ TaskPart /\ ThreadPart
    BY <2>2 DEF RuntimePart, SocketPart, TaskPart, ThreadPart, Alive
  <2>. QED  BY <2>1, <2>3, <2>4 DEF LeaseInv
<1>2. ASSUME LeaseInv, [Next]_vars PROVE LeaseInv'
  <2>1. CASE UNCHANGED vars
    BY <1>2, <2>1
       DEF vars, lockVars, connVars, taskVars, LeaseInv, TypeOK, AtPart, Places, LockPart,
           TablePart, WorkPart, RuntimePart, SocketPart, TaskPart, ThreadPart, Working,
           Disposing, Alive
  <2>. QED  BY <1>2, <2>1, RequestSteps, OtherSteps DEF Next
<1>. QED  BY <1>1, <1>2, PTL DEF Spec

\* Every variable keeps its type, whichever requests overlap.
THEOREM LifecycleTypes == Spec => []TypeOK
<1>1. LeaseInv => TypeOK
  BY DEF LeaseInv
<1>. QED  BY <1>1, LeaseInvariant, PTL

-------------------------------------------------------------------------------
(* What a client is connected to.                                          *)

\* A connection that calls itself connected is the current one of its id, its
\* runtime has not been told to exit, the tasks that run are those of the present
\* socket, and nothing of an unregistered id runs.
THEOREM ConnectionsAreLive == Spec => []OneLiveConnection
<1>1. ASSUME LeaseInv PROVE ConnectedIsLive
  <2>1. ASSUME NEW o \in Registers, connected[o]
        PROVE  /\ clients[IdOf[o]] = o /\ threads[runtime[o]] = "running"
               /\ socket[o] \in served[runtime[o]]
    <3>1. initialized[o] /\ socket[o] \in served[runtime[o]]
      BY <1>1, <2>1 DEF LeaseInv, SocketPart
    <3>2. \A r \in Requests : ~(at[r] = "reaping" /\ client[r] = o)
      BY <1>1, <2>1 DEF LeaseInv, WorkPart, Disposing
    <3>. QED  BY <1>1, <3>1, <3>2 DEF LeaseInv, RuntimePart
  <2>. QED  BY <2>1 DEF ConnectedIsLive
<1>2. ASSUME LeaseInv PROVE TasksOfPresentSocket
  BY <1>2 DEF LeaseInv, TaskPart, TasksOfPresentSocket
<1>3. ASSUME LeaseInv PROVE UnregisteredIsQuiet
  <2>1. ASSUME NEW id \in Ids \ registered PROVE clients[id] = None
    BY <1>3, <2>1 DEF LeaseInv, TablePart
  <2>2. ASSUME NEW g \in Inits, Alive(g) PROVE clients[IdOf[g]] # None
    BY <1>3, <2>2 DEF LeaseInv, ThreadPart
  <2>3. ASSUME NEW w \in receiving \cup sending PROVE clients[IdOf[w]] # None
    <3>1. w \in Requests /\ client[w] \in Registers /\ socket[client[w]] # None
      BY <1>3, <2>3, TaskOwner
    <3>2. initialized[client[w]] /\ IdOf[client[w]] = IdOf[w] /\ client[w] # None
      BY <1>3, <3>1, SocketOwner, Kinds DEF LeaseInv, TablePart
    <3>. QED  BY <1>3, <3>1, <3>2 DEF LeaseInv, RuntimePart
  <2>. QED  BY <2>1, <2>2, <2>3 DEF UnregisteredIsQuiet
<1>4. LeaseInv => OneLiveConnection
  BY <1>1, <1>2, <1>3 DEF OneLiveConnection
<1>. QED  BY <1>4, LeaseInvariant, PTL

\* A request is moved by its own steps only.
LEMMA OwnSteps ==
    ASSUME TypeOK, NEW r \in Requests, Arrive(r) \/ Step(r), NEW x \in Requests, x # r
    PROVE  at'[x] = at[x]
<1>1. ASSUME NEW p, Goto(r, p) PROVE at'[x] = at[x]
  BY <1>1 DEF Goto, TypeOK
<1>2. \E p : Goto(r, p)
  <2>1. ASSUME Arrive(r) \/ Gate(r) \/ Leave(r) PROVE \E p : Goto(r, p)
    BY <2>1 DEF Arrive, Gate, Leave, Queue
  <2>2. ASSUME CloseSocket(r) \/ Join(r) \/ SocketAccept(r) \/ Start(r)
        PROVE  \E p : Goto(r, p)
    BY <2>2 DEF CloseSocket, Join, SocketAccept, Start
  <2>3. ASSUME UnregisterDispose(r) \/ InitDispose(r) \/ LeaveDispose(r)
        PROVE  \E p : Goto(r, p)
    BY <2>3 DEF UnregisterDispose, InitDispose, LeaveDispose, BeginDispose
  <2>4. ASSUME InitBuild(r) \/ InitReaped(r) PROVE \E p : Goto(r, p)
    BY <2>4 DEF InitBuild, InitReaped, Build, Built, BuildFailed, Return
  <2>5. ASSUME \/ Register(r) \/ UnregisterNow(r) \/ UnregisterReaped(r) \/ InitRefused(r)
               \/ InitKept(r) \/ InitAborted(r) \/ SocketRefused(r) \/ SocketLost(r)
               \/ LeaveNow(r) \/ LeaveReaped(r)
        PROVE  \E p : Goto(r, p)
    BY <2>5 DEF Register, UnregisterNow, UnregisterReaped, InitRefused, InitKept,
                InitAborted, SocketRefused, SocketLost, LeaveNow, LeaveReaped, Return
  <2>. QED  BY <2>1, <2>2, <2>3, <2>4, <2>5 DEF Step
<1>. QED  BY <1>1, <1>2

\* A WebSocket endpoint disposes no runtime but the one it was attached to.
THEOREM EndpointsEndTheirOwn == Spec => EndpointEndsItsOwn
<1>. DEFINE Own == \A w \in Sockets :
                     (at[w] = "leaving" /\ at'[w] \in {"closing", "joining"})
                        => w \in served[runtime[client'[w]]]
<1>1. ASSUME LeaseInv, Next PROVE Own
  <2>. SUFFICES ASSUME NEW w \in Sockets, at[w] = "leaving",
                       at'[w] \in {"closing", "joining"}
                PROVE  w \in served[runtime[client'[w]]]
    OBVIOUS
  <2>1. w \in Requests /\ TypeOK /\ w # None
    BY <1>1, Kinds DEF LeaseInv
  <2>2. ASSUME NEW r \in Requests, Arrive(r) \/ Step(r) PROVE r = w
    BY <2>1, <2>2, OwnSteps
  <2>3. CASE Arrive(w) \/ Step(w)
    <3>1. ~Arrive(w) /\ ~Gate(w) /\ ~Leave(w) /\ ~CloseSocket(w) /\ ~Join(w)
      BY DEF Arrive, Gate, Leave, CloseSocket, Join
    <3>2. /\ ~Register(w) /\ ~UnregisterNow(w) /\ ~UnregisterDispose(w)
          /\ ~UnregisterReaped(w) /\ ~InitRefused(w) /\ ~InitKept(w) /\ ~InitDispose(w)
          /\ ~InitBuild(w) /\ ~InitReaped(w) /\ ~InitAborted(w)
      BY DEF Register, UnregisterNow, UnregisterDispose, UnregisterReaped, InitRefused,
             InitKept, InitDispose, InitBuild, InitReaped, InitAborted, Holds, Reaped
    <3>3. /\ ~SocketRefused(w) /\ ~SocketAccept(w) /\ ~SocketLost(w) /\ ~Start(w)
          /\ ~LeaveReaped(w)
      BY DEF SocketRefused, SocketAccept, SocketLost, Start, LeaveReaped, Holds, Reaped
    <3>4. ~LeaveNow(w)
      BY <2>1 DEF LeaveNow, Return, Goto, TypeOK
    <3>5. LeaveDispose(w)
      BY <2>3, <3>1, <3>2, <3>3, <3>4 DEF Step
    <3>6. client'[w] = client[w] /\ socket[client[w]] = w /\ client[w] \in Registers
      BY <1>1, <2>1, <3>5
         DEF LeaveDispose, StillOwns, BeginDispose, LeaseInv, TypeOK, TablePart
    <3>. QED  BY <1>1, <2>1, <3>6 DEF LeaseInv, SocketPart
  <2>4. CASE \/ \E v \in Sockets : PeerLeaves(v) \/ ReceiveEnds(v) \/ SendEnds(v)
             \/ \E g \in Inits : ThreadsExit(g)
    BY <2>4 DEF PeerLeaves, ReceiveEnds, SendEnds, ThreadsExit, lockVars
  <2>. QED  BY <1>1, <2>2, <2>3, <2>4 DEF Next
<1>2. LeaseInv /\ [Next]_vars => [Own]_vars
  BY <1>1
<1>. QED  BY <1>2, LeaseInvariant, PTL DEF Spec, EndpointEndsItsOwn

-------------------------------------------------------------------------------
(* Runtimes are leased.                                                    *)

\* What the table and the threads of all runtimes say of each id.
leases == [id \in Ids |-> {LeaseOf(g) : g \in {h \in Inits : IdOf[h] = id /\ Alive(h)}}]

\* An id has threads of one runtime at most.
LEMMA OneRuntime ==
    ASSUME LeaseInv, NEW g \in Inits, Alive(g), NEW h \in Inits, Alive(h), IdOf[h] = IdOf[g]
    PROVE  h = g
  BY DEF LeaseInv, ThreadPart

\* A step of one runtime, whose id has no other, changes the lease of its id.
LEMMA LeaseChanges ==
    ASSUME NEW g \in Inits,
           \A x \in Inits : x # g => threads'[x] = threads[x] /\ served'[x] = served[x],
           \A x \in Inits : x # g /\ Alive(x) => IdOf[x] # IdOf[g]
    PROVE  /\ leases[IdOf[g]] = (IF Alive(g) THEN {LeaseOf(g)} ELSE {})
           /\ leases' = [leases EXCEPT ![IdOf[g]] =
                            IF Alive(g)' THEN {LeaseOf(g)'} ELSE {}]
<1>. DEFINE id == IdOf[g]
            Of(i) == {h \in Inits : IdOf[h] = i /\ Alive(h)}
<1>1. \A x \in Inits : x # g => (Alive(x)' <=> Alive(x)) /\ LeaseOf(x)' = LeaseOf(x)
  BY DEF Alive, LeaseOf
<1>2. leases = [i \in Ids |-> {LeaseOf(h) : h \in Of(i)}] /\ id \in Ids
  BY Kinds DEF leases
<1>3. leases' = [i \in Ids |-> {LeaseOf(h)' : h \in Of(i)'}]
  BY DEF leases
<1>4. Of(id) = (IF Alive(g) THEN {g} ELSE {}) /\ Of(id)' = (IF Alive(g)' THEN {g} ELSE {})
  BY <1>1
<1>5. /\ {LeaseOf(h) : h \in Of(id)} = (IF Alive(g) THEN {LeaseOf(g)} ELSE {})
      /\ {LeaseOf(h)' : h \in Of(id)'} = (IF Alive(g)' THEN {LeaseOf(g)'} ELSE {})
  BY <1>4
<1>6. ASSUME NEW i \in Ids, i # id
      PROVE  {LeaseOf(h)' : h \in Of(i)'} = {LeaseOf(h) : h \in Of(i)}
  <2>1. Of(i)' = Of(i) /\ \A x \in Of(i) : LeaseOf(x)' = LeaseOf(x)
    BY <1>1, <1>6
  <2>. QED  BY <2>1
<1>. HIDE DEF Of
<1>. QED  BY <1>2, <1>3, <1>5, <1>6

\* No step of a runtime, no change.
LEMMA LeaseStays ==
    ASSUME UNCHANGED <<threads, served>>
    PROVE  leases' = leases
  BY DEF leases, LeaseOf, Alive

\* The four operations of a lease.
LEMMA LeaseBuilt ==
    ASSUME LeaseInv, NEW r \in Requests, InitBuild(r) \/ InitReaped(r)
    PROVE  Lease!Next \/ leases' = leases
<1>. DEFINE o == clients[IdOf[r]]
<1>1. /\ r \in Inits /\ Build(r, o) /\ served' = served /\ IdOf[r] \in Ids
      /\ threads[r] = "none" /\ served[r] = {}
      /\ \A g \in Inits : Alive(g) => IdOf[g] # IdOf[r]
  BY Builder, NoThreads, Kinds
<1>2. /\ threads'[r] \in {"running", "killed", "gone"}
      /\ \A x \in Inits : x # r => threads'[x] = threads[x]
  BY <1>1 DEF Build, Built, BuildFailed, LeaseInv, TypeOK
<1>3. /\ leases[IdOf[r]] = {}
      /\ leases' = [leases EXCEPT ![IdOf[r]] = IF Alive(r)' THEN {LeaseOf(r)'} ELSE {}]
  BY <1>1, <1>2, LeaseChanges DEF Alive
<1>4. CASE threads'[r] = "running"
  <2>1. Lease!Build(IdOf[r], r, "up")
    BY <1>1, <1>3, <1>4 DEF Lease!Build, Lease!Held, LeaseOf, Alive, leases
  <2>. QED  BY <1>1, <2>1 DEF Lease!Next
<1>5. CASE threads'[r] = "killed"
  <2>1. Lease!Build(IdOf[r], r, "ending")
    BY <1>1, <1>3, <1>5 DEF Lease!Build, Lease!Held, LeaseOf, Alive, leases
  <2>. QED  BY <1>1, <2>1 DEF Lease!Next
<1>6. CASE threads'[r] = "gone"
  BY <1>1, <1>3, <1>6 DEF Alive, leases
<1>. QED  BY <1>2, <1>4, <1>5, <1>6

\* A socket is attached, to a runtime that has had none.
LEMMA LeaseAttached ==
    ASSUME LeaseInv, NEW w \in Requests, Start(w)
    PROVE  Lease!Next
<1>. DEFINE o == client[w]
<1>1. w \in Sockets /\ Working(w) /\ at[w] # "reaping"
  BY DEF LeaseInv, AtPart, Places, Start, Working
<1>2. o \in Registers /\ initialized[o] /\ ~used[o]
  BY <1>1, WorksAlone DEF Start, LeaseInv, WorkPart
<1>. PICK g \in Inits : g = runtime[o]
  BY <1>2, OwnRuntime
<1>. DEFINE id == IdOf[g]
<1>3. id \in Ids /\ threads[g] = "running" /\ served[g] = {}
  BY <1>1, <1>2, StillRuns, OwnRuntime, Kinds DEF LeaseInv, RuntimePart
<1>4. /\ threads' = threads /\ served'[g] = {w}
      /\ \A x \in Inits : x # g => served'[x] = served[x]
  BY <1>3 DEF Start, LeaseInv, TypeOK
<1>5. \A x \in Inits : x # g /\ Alive(x) => IdOf[x] # id
  BY <1>3, OneRuntime DEF Alive
<1>6. /\ leases[id] = {LeaseOf(g)}
      /\ leases' = [leases EXCEPT ![id] = {LeaseOf(g)'}]
  BY <1>3, <1>4, <1>5, LeaseChanges DEF Alive
<1>7. LeaseOf(g) = Lease!Held(g, "up", {}) /\ LeaseOf(g)' = Lease!Held(g, "up", {w})
  BY <1>3, <1>4 DEF Lease!Held, LeaseOf
<1>8. Lease!Attach(id, g, w)
  BY <1>6, <1>7 DEF Lease!Attach, leases
<1>. QED  BY <1>1, <1>3, <1>8 DEF Lease!Next

\* A running runtime is told to exit.
LEMMA LeaseEnded ==
    ASSUME LeaseInv, NEW r \in Requests, Join(r)
    PROVE  Lease!Next
<1>. DEFINE o == client[r]
<1>1. Working(r) /\ Disposing(r) /\ at[r] # "reaping"
  BY DEF Join, Working, Disposing
<1>2. o \in Registers /\ initialized[o]
  BY <1>1, WorksAlone DEF LeaseInv, WorkPart
<1>. PICK g \in Inits : g = runtime[o]
  BY <1>2, OwnRuntime
<1>. DEFINE id == IdOf[g]
<1>3. id \in Ids /\ threads[g] = "running" /\ served[g] \in SUBSET Sockets
  BY <1>1, <1>2, StillRuns, OwnRuntime, Kinds DEF LeaseInv, TypeOK
<1>4. /\ served' = served /\ threads'[g] = "killed"
      /\ \A x \in Inits : x # g => threads'[x] = threads[x]
  BY <1>3 DEF Join, LeaseInv, TypeOK
<1>5. \A x \in Inits : x # g /\ Alive(x) => IdOf[x] # id
  BY <1>3, OneRuntime DEF Alive
<1>6. /\ leases[id] = {LeaseOf(g)}
      /\ leases' = [leases EXCEPT ![id] = {LeaseOf(g)'}]
  BY <1>3, <1>4, <1>5, LeaseChanges DEF Alive
<1>7. /\ LeaseOf(g) = Lease!Held(g, "up", served[g])
      /\ LeaseOf(g)' = Lease!Held(g, "ending", served[g])
  BY <1>3, <1>4 DEF Lease!Held, LeaseOf
<1>. PICK S \in SUBSET Sockets : S = served[g]
  BY <1>3
<1>8. Lease!End(id, g, S)
  BY <1>6, <1>7 DEF Lease!End, leases
<1>. QED  BY <1>3, <1>8 DEF Lease!Next

\* The threads of a runtime have exited.
LEMMA LeaseGone ==
    ASSUME LeaseInv, NEW g \in Inits, ThreadsExit(g)
    PROVE  Lease!Next
<1>. DEFINE id == IdOf[g]
<1>1. id \in Ids /\ threads[g] = "killed" /\ served[g] \in SUBSET Sockets
  BY Kinds DEF LeaseInv, TypeOK, ThreadsExit
<1>2. /\ served' = served /\ threads'[g] = "gone"
      /\ \A x \in Inits : x # g => threads'[x] = threads[x]
  BY DEF ThreadsExit, LeaseInv, TypeOK
<1>3. \A x \in Inits : x # g /\ Alive(x) => IdOf[x] # id
  BY <1>1, OneRuntime DEF Alive
<1>4. leases[id] = {LeaseOf(g)} /\ leases' = [leases EXCEPT ![id] = {}]
  BY <1>1, <1>2, <1>3, LeaseChanges DEF Alive
<1>5. LeaseOf(g) = Lease!Held(g, "ending", served[g])
  BY <1>1 DEF Lease!Held, LeaseOf
<1>. PICK S \in SUBSET Sockets : S = served[g]
  BY <1>1
<1>6. Lease!Gone(id, g, S)
  BY <1>4, <1>5 DEF Lease!Gone, leases
<1>. QED  BY <1>1, <1>6 DEF Lease!Next

\* The server implements RuntimeLease, whatever requests and sockets overlap: an id
\* has one runtime at a time, which serves one socket at most and is gone before the
\* next is built.
THEOREM OneLease == Spec => LeasesRuntimes
<1>1. Init => Lease!Init
  BY DEF Init, Lease!Init, Alive
<1>2. ASSUME LeaseInv, [Next]_vars PROVE Lease!Next \/ leases' = leases
  <2>1. ASSUME NEW r \in Requests, Arrive(r) \/ Step(r)
        PROVE  Lease!Next \/ leases' = leases
    <3>1. CASE InitBuild(r) \/ InitReaped(r)
      BY <1>2, <3>1, LeaseBuilt
    <3>2. CASE Start(r) \/ Join(r)
      BY <1>2, <3>2, LeaseAttached, LeaseEnded
    <3>3. ASSUME Arrive(r) \/ Gate(r) \/ Leave(r) \/ CloseSocket(r) \/ SocketAccept(r)
          PROVE  UNCHANGED <<threads, served>>
      BY <3>3 DEF Arrive, Gate, Leave, CloseSocket, SocketAccept
    <3>4. ASSUME UnregisterDispose(r) \/ InitDispose(r) \/ LeaveDispose(r)
          PROVE  UNCHANGED <<threads, served>>
      BY <3>4 DEF UnregisterDispose, InitDispose, LeaveDispose, BeginDispose
    <3>5. ASSUME \/ Register(r) \/ UnregisterNow(r) \/ UnregisterReaped(r)
                 \/ InitRefused(r) \/ InitKept(r) \/ InitAborted(r)
                 \/ SocketRefused(r) \/ SocketLost(r) \/ LeaveNow(r) \/ LeaveReaped(r)
          PROVE  UNCHANGED <<threads, served>>
      BY <3>5 DEF Register, UnregisterNow, UnregisterReaped, InitRefused, InitKept,
                  InitAborted, SocketRefused, SocketLost, LeaveNow, LeaveReaped
    <3>. QED  BY <2>1, <3>1, <3>2, <3>3, <3>4, <3>5, LeaseStays DEF Step
  <2>2. ASSUME \/ \E w \in Sockets : PeerLeaves(w) \/ ReceiveEnds(w) \/ SendEnds(w)
               \/ UNCHANGED vars
        PROVE  UNCHANGED <<threads, served>>
    BY <2>2 DEF PeerLeaves, ReceiveEnds, SendEnds, vars
  <2>. QED  BY <1>2, <2>1, <2>2, LeaseStays, LeaseGone DEF Next
<1>3. LeaseInv /\ [Next]_vars => [Lease!Next]_leases
  BY <1>2
<1>. QED  BY <1>1, <1>3, LeaseInvariant, PTL DEF Spec, LeasesRuntimes, Lease!Spec, leases
===============================================================================
