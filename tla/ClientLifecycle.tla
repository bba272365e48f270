--------------------------- MODULE ClientLifecycle ---------------------------
(***************************************************************************)
(* The life of a client id: the register, unregister and init_pipeline     *)
(* endpoints, the WebSocket endpoint with its receive and send tasks, and  *)
(* dispose(), which three of them call.                                    *)
(*                                                                         *)
(* All of it runs as tasks of one asyncio loop, so a step is everything a  *)
(* task does between two awaits.  A request runs once; the set of requests *)
(* bounds the model.  The lifecycle lock of an id is a FIFO queue whose    *)
(* head holds it; init_pipeline takes the global init lock before it.      *)
(*                                                                         *)
(* A ClientConnection object is named by the register request that made it *)
(* and a runtime (its threads and control plane) by the init request that  *)
(* built it.  What happens inside a runtime is module Pipeline.            *)
(***************************************************************************)
EXTENDS Sequences

CONSTANTS
    Ids,          \* client ids
    Registers,    \* the requests, by endpoint
    Unregisters,
    Inits,
    Sockets,
    IdOf,         \* the client id a request names
    Forced,       \* init requests with force = true
    None

Requests == Registers \cup Unregisters \cup Inits \cup Sockets

ASSUME RequestAssumption ==
    /\ None \notin Requests
    /\ IdOf \in [Requests -> Ids]
    /\ Forced \subseteq Inits
    /\ Registers \cap (Unregisters \cup Inits \cup Sockets) = {}
    /\ Unregisters \cap (Inits \cup Sockets) = {}
    /\ Inits \cap Sockets = {}

VARIABLES
    registered,    \* registered_clients
    clients,       \* the current ClientConnection of each id
    initLock,      \* holder and waiters of pipeline_init_lock
    lock,          \* holder and waiters of each lifecycle lock
    at,            \* where each request is
    client,        \* the ClientConnection a request works on
    initialized,   \* fields of each ClientConnection ...
    used,          \* ... connection_used
    connected,
    socket,        \* ... its websocket
    runtime,       \* ... its threads and event handler
    threads,       \* the node threads of each runtime
    link,          \* the transport under each WebSocket
    receiving,     \* the sockets whose receive_data task runs
    sending,       \* the sockets whose send_data task runs
    served         \* history: the sockets each runtime was attached to

lockVars == <<initLock, lock, at>>
connVars == <<initialized, used, connected, socket, runtime>>
taskVars == <<link, receiving, sending>>
vars == <<registered, clients, lockVars, client, connVars, threads, taskVars, served>>

Init ==
    /\ registered = {}
    /\ clients = [id \in Ids |-> None]
    /\ initLock = <<>> /\ lock = [id \in Ids |-> <<>>]
    /\ at = [r \in Requests |-> "new"]
    /\ client = [r \in Requests |-> None]
    /\ initialized = [o \in Registers |-> FALSE]
    /\ used = [o \in Registers |-> FALSE]
    /\ connected = [o \in Registers |-> FALSE]
    /\ socket = [o \in Registers |-> None]
    /\ runtime = [o \in Registers |-> None]
    /\ threads = [g \in Inits |-> "none"]
    /\ link = [w \in Sockets |-> "open"]
    /\ receiving = {} /\ sending = {}
    /\ served = [g \in Inits |-> {}]

-------------------------------------------------------------------------------
(* Locks.                                                                  *)

Goto(r, p) == at' = [at EXCEPT ![r] = p]

\* Join the waiters of the id's lifecycle lock, to go on at p once it is held.
Queue(r, p) ==
    /\ lock' = [lock EXCEPT ![IdOf[r]] = Append(@, r)]
    /\ Goto(r, p)

Holds(r, p) == at[r] = p /\ Head(lock[IdOf[r]]) = r

\* Leave the `async with` and answer.
Return(r) ==
    /\ lock' = [lock EXCEPT ![IdOf[r]] = Tail(@)]
    /\ initLock' = IF r \in Inits THEN Tail(initLock) ELSE initLock
    /\ Goto(r, "done")

Arrive(r) ==
    /\ at[r] = "new"
    /\ IF r \in Inits
       THEN /\ initLock' = Append(initLock, r) /\ Goto(r, "gate")
            /\ UNCHANGED lock
       ELSE Queue(r, "entry") /\ UNCHANGED initLock
    /\ UNCHANGED <<registered, clients, client, connVars, threads, taskVars, served>>

Gate(r) ==
    /\ at[r] = "gate" /\ Head(initLock) = r
    /\ Queue(r, "entry")
    /\ UNCHANGED <<registered, clients, initLock, client, connVars, threads,
                   taskVars, served>>

-------------------------------------------------------------------------------
(* dispose(), run by request r on the connection o.                        *)
(*   "closing"  in websocket.close()      "joining" awaiting the two tasks *)
(*   "reaping"  in wait_for_threads()                                      *)

\* connected is reset before anything is awaited.
BeginDispose(r, o) ==
    /\ client' = [client EXCEPT ![r] = o]
    /\ connected' = [connected EXCEPT ![o] = FALSE]
    /\ Goto(r, IF connected[o] THEN "closing" ELSE "joining")
    /\ UNCHANGED <<registered, clients, initLock, lock, initialized, used, socket,
                   runtime, threads, taskVars, served>>

CloseSocket(r) ==
    /\ at[r] = "closing"
    /\ link' = [link EXCEPT ![socket[client[r]]] = "closed"]
    /\ Goto(r, "joining")
    /\ UNCHANGED <<registered, clients, initLock, lock, client, connVars, threads,
                   receiving, sending, served>>

\* Both tasks are over: forget the socket, submit cancel(inf) and kill.
Join(r) ==
    /\ at[r] = "joining"
    /\ LET o == client[r] IN
         /\ socket[o] \notin receiving \cup sending
         /\ socket' = [socket EXCEPT ![o] = None]
         /\ connected' = [connected EXCEPT ![o] = FALSE]
         /\ threads' = [threads EXCEPT ![runtime[o]] = "killed"]
    /\ Goto(r, "reaping")
    /\ UNCHANGED <<registered, clients, initLock, lock, client, initialized, used,
                   runtime, taskVars, served>>

Reaped(r) == at[r] = "reaping" /\ threads[runtime[client[r]]] = "gone"

\* dispose() returns: the connection has no runtime any more.
Cleared(o) ==
    /\ initialized' = [initialized EXCEPT ![o] = FALSE]
    /\ runtime' = [runtime EXCEPT ![o] = None]

-------------------------------------------------------------------------------
(* register and unregister.                                                *)

\* The object goes into the set that is searched by id.
MutantRegister(r) ==
    /\ r \in Registers /\ Holds(r, "entry")
    /\ IF IdOf[r] \in registered
       THEN UNCHANGED <<registered, clients>>
       ELSE /\ registered' = registered \cup {r}
            /\ clients' = [clients EXCEPT ![IdOf[r]] = r]
    /\ Return(r)
    /\ UNCHANGED <<client, connVars, threads, taskVars, served>>

Register(r) ==
    /\ r \in Registers /\ Holds(r, "entry")
    /\ IF IdOf[r] \in registered
       THEN UNCHANGED <<registered, clients>>
       ELSE /\ registered' = registered \cup {IdOf[r]}
            /\ clients' = [clients EXCEPT ![IdOf[r]] = r]
    /\ Return(r)
    /\ UNCHANGED <<client, connVars, threads, taskVars, served>>

Forget(id) ==
    /\ registered' = registered \ {id}
    /\ clients' = [clients EXCEPT ![id] = None]

\* Forgets the connection whatever its state.
MutantUnregisterNow(r) ==
    /\ r \in Unregisters /\ Holds(r, "entry")
    /\ IF IdOf[r] \notin registered
       THEN UNCHANGED <<registered, clients>>
       ELSE Forget(IdOf[r])
    /\ Return(r)
    /\ UNCHANGED <<client, connVars, threads, taskVars, served>>

\* An unknown id is answered; a connection without a runtime has nothing to
\* dispose and is forgotten at once.
UnregisterNow(r) ==
    /\ r \in Unregisters /\ Holds(r, "entry")
    /\ IF IdOf[r] \notin registered
       THEN UNCHANGED <<registered, clients>>
       ELSE ~initialized[clients[IdOf[r]]] /\ Forget(IdOf[r])
    /\ Return(r)
    /\ UNCHANGED <<client, connVars, threads, taskVars, served>>

UnregisterDispose(r) ==
    /\ r \in Unregisters /\ Holds(r, "entry") /\ IdOf[r] \in registered
    /\ initialized[clients[IdOf[r]]]
    /\ BeginDispose(r, clients[IdOf[r]])

UnregisterReaped(r) ==
    /\ r \in Unregisters /\ Reaped(r)
    /\ Cleared(client[r]) /\ Forget(IdOf[r]) /\ Return(r)
    /\ UNCHANGED <<client, used, connected, socket, threads, taskVars, served>>

-------------------------------------------------------------------------------
(* init_pipeline.                                                          *)

\* setup_processing_pipeline runs without an await.  It succeeds, or some node
\* fails to initialise and the ones already started are told to exit.
Built(r, o) ==
    /\ runtime' = [runtime EXCEPT ![o] = r]
    /\ threads' = [threads EXCEPT ![r] = "running"]
    /\ initialized' = [initialized EXCEPT ![o] = TRUE]
    /\ used' = [used EXCEPT ![o] = FALSE]
    /\ Return(r)
    /\ UNCHANGED client

BuildFailed(r, o) ==
    /\ runtime' = [runtime EXCEPT ![o] = r]
    /\ \E left \in {"killed", "gone"} : threads' = [threads EXCEPT ![r] = left]
    /\ initialized' = [initialized EXCEPT ![o] = FALSE]
    /\ client' = [client EXCEPT ![r] = o]
    /\ Goto(r, "aborting")
    /\ UNCHANGED <<initLock, lock, used>>

Build(r, o) == Built(r, o) \/ BuildFailed(r, o)

\* Unknown client, unknown configuration, or one the validator rejects.
InitRefused(r) ==
    /\ r \in Inits /\ Holds(r, "entry")
    /\ Return(r)
    /\ UNCHANGED <<registered, clients, client, connVars, threads, taskVars, served>>

\* A runtime that no socket has used is kept, unless force is set.
Keeps(r, o) == initialized[o] /\ ~used[o] /\ r \notin Forced

InitKept(r) ==
    /\ r \in Inits /\ Holds(r, "entry") /\ clients[IdOf[r]] # None
    /\ Keeps(r, clients[IdOf[r]])
    /\ Return(r)
    /\ UNCHANGED <<registered, clients, client, connVars, threads, taskVars, served>>

InitDispose(r) ==
    /\ r \in Inits /\ Holds(r, "entry") /\ clients[IdOf[r]] # None
    /\ initialized[clients[IdOf[r]]] /\ ~Keeps(r, clients[IdOf[r]])
    /\ BeginDispose(r, clients[IdOf[r]])

InitBuild(r) ==
    /\ r \in Inits /\ Holds(r, "entry") /\ clients[IdOf[r]] # None
    /\ ~initialized[clients[IdOf[r]]]
    /\ Build(r, clients[IdOf[r]])
    /\ UNCHANGED <<registered, clients, connected, socket, taskVars, served>>

InitReaped(r) ==
    /\ r \in Inits /\ Reaped(r)
    /\ Build(r, client[r])
    /\ UNCHANGED <<registered, clients, connected, socket, taskVars, served>>

\* The started nodes of a failed build have exited: answer 503.
InitAborted(r) ==
    /\ at[r] = "aborting" /\ threads[r] = "gone"
    /\ Cleared(client[r]) /\ Return(r)
    /\ UNCHANGED <<registered, clients, client, used, connected, socket, threads,
                   taskVars, served>>

-------------------------------------------------------------------------------
(* The WebSocket endpoint.                                                 *)

\* A runtime may be attached again.
MutantAttachable(id) == id \in registered /\ initialized[clients[id]]

Attachable(id) ==
    /\ id \in registered
    /\ initialized[clients[id]] /\ ~used[clients[id]]

SocketRefused(w) ==
    /\ w \in Sockets /\ Holds(w, "entry") /\ ~Attachable(IdOf[w])
    /\ Return(w)
    /\ UNCHANGED <<registered, clients, client, connVars, threads, taskVars, served>>

\* In websocket.accept(), the lock held.
SocketAccept(w) ==
    /\ w \in Sockets /\ Holds(w, "entry") /\ Attachable(IdOf[w])
    /\ client' = [client EXCEPT ![w] = clients[IdOf[w]]]
    /\ Goto(w, "accepting")
    /\ UNCHANGED <<registered, clients, initLock, lock, connVars, threads, taskVars,
                   served>>

SocketLost(w) ==
    /\ at[w] = "accepting" /\ link[w] = "closed"
    /\ Return(w)
    /\ UNCHANGED <<registered, clients, client, connVars, threads, taskVars, served>>

\* start_pipeline.
Start(w) ==
    /\ at[w] = "accepting"
    /\ LET o == client[w] IN
         /\ socket' = [socket EXCEPT ![o] = w]
         /\ connected' = [connected EXCEPT ![o] = TRUE]
         /\ used' = [used EXCEPT ![o] = TRUE]
         /\ served' = [served EXCEPT ![runtime[o]] = @ \cup {w}]
    /\ receiving' = receiving \cup {w} /\ sending' = sending \cup {w}
    /\ lock' = [lock EXCEPT ![IdOf[w]] = Tail(@)]
    /\ Goto(w, "serving")
    /\ UNCHANGED <<registered, clients, initLock, client, initialized, runtime,
                   threads, link>>

\* The endpoint polls outside the lock and queues for it again when its
\* connection is over.
Leave(w) ==
    /\ at[w] = "serving"
    /\ ~(socket[client[w]] = w /\ connected[client[w]])
    /\ Queue(w, "leaving")
    /\ UNCHANGED <<registered, clients, initLock, client, connVars, threads,
                   taskVars, served>>

\* By then the connection may be another's, or the client another object.
MutantStillOwns(w) == clients[IdOf[w]] = client[w]    \* the same client is enough
StillOwns(w) == clients[IdOf[w]] = client[w] /\ socket[client[w]] = w

LeaveDispose(w) ==
    /\ Holds(w, "leaving") /\ StillOwns(w) /\ initialized[client[w]]
    /\ BeginDispose(w, client[w])

LeaveNow(w) ==
    /\ Holds(w, "leaving") /\ ~(StillOwns(w) /\ initialized[client[w]])
    /\ Return(w)
    /\ UNCHANGED <<registered, clients, client, connVars, threads, taskVars, served>>

LeaveReaped(w) ==
    /\ w \in Sockets /\ Reaped(w)
    /\ Cleared(client[w]) /\ Return(w)
    /\ UNCHANGED <<registered, clients, client, used, connected, socket, threads,
                   taskVars, served>>

-------------------------------------------------------------------------------
(* The transport, the two tasks of a connection, and the node threads.     *)

PeerLeaves(w) ==
    /\ at[w] \notin {"new", "done"} /\ link[w] = "open"
    /\ link' = [link EXCEPT ![w] = "closed"]
    /\ UNCHANGED <<registered, clients, lockVars, client, connVars, threads,
                   receiving, sending, served>>

\* The receive task ends without a word.
MutantReceiveEnds(w) ==
    /\ w \in receiving
    /\ link[w] = "closed" \/ ~connected[client[w]]
    /\ receiving' = receiving \ {w}
    /\ UNCHANGED <<registered, clients, lockVars, client, connVars, threads, link,
                   sending, served>>

\* The socket-level receive fails, or a last message arrives after close()
\* has reset connected.
ReceiveEnds(w) ==
    /\ w \in receiving
    /\ link[w] = "closed" \/ ~connected[client[w]]
    /\ receiving' = receiving \ {w}
    /\ connected' = [connected EXCEPT ![client[w]] = FALSE]
    /\ UNCHANGED <<registered, clients, lockVars, client, initialized, used, socket,
                   runtime, threads, link, sending, served>>

SendEnds(w) ==
    /\ w \in sending /\ ~connected[client[w]]
    /\ sending' = sending \ {w}
    /\ UNCHANGED <<registered, clients, lockVars, client, connVars, threads, link,
                   receiving, served>>

\* All node threads of the runtime have obeyed kill: see Pipeline.
ThreadsExit(g) ==
    /\ threads[g] = "killed"
    /\ threads' = [threads EXCEPT ![g] = "gone"]
    /\ UNCHANGED <<registered, clients, lockVars, client, connVars, taskVars, served>>

-------------------------------------------------------------------------------
\* What request r does when the loop resumes it.
Step(r) ==
    \/ Gate(r) \/ CloseSocket(r) \/ Join(r)
    \/ Register(r)
    \/ UnregisterNow(r) \/ UnregisterDispose(r) \/ UnregisterReaped(r)
    \/ InitRefused(r) \/ InitKept(r) \/ InitDispose(r) \/ InitBuild(r)
    \/ InitReaped(r) \/ InitAborted(r)
    \/ SocketRefused(r) \/ SocketAccept(r) \/ SocketLost(r) \/ Start(r)
    \/ Leave(r) \/ LeaveDispose(r) \/ LeaveNow(r) \/ LeaveReaped(r)

Tasks(w) == (link[w] = "closed" /\ ReceiveEnds(w)) \/ SendEnds(w)

Next ==
    \/ \E r \in Requests : Arrive(r) \/ Step(r)
    \/ \E w \in Sockets : PeerLeaves(w) \/ ReceiveEnds(w) \/ SendEnds(w)
    \/ \E g \in Inits : ThreadsExit(g)

Spec == Init /\ [][Next]_vars

\* The loop resumes every task that can go on; a killed runtime's threads exit
\* (Pipeline!TeardownCompletes).  No request need arrive and no peer leave.
Fairness ==
    /\ \A r \in Requests : WF_vars(Step(r))
    /\ \A w \in Sockets : WF_vars(Tasks(w))
    /\ \A g \in Inits : WF_vars(ThreadsExit(g))

FairSpec == Spec /\ Fairness

-------------------------------------------------------------------------------
TypeOK ==
    /\ registered \in SUBSET Ids
    /\ clients \in [Ids -> Registers \cup {None}]
    /\ initLock \in Seq(Inits)
    /\ lock \in [Ids -> Seq(Requests)]
    /\ at \in [Requests -> {"new", "gate", "entry", "closing", "joining", "reaping",
                             "aborting", "accepting", "serving", "leaving", "done"}]
    /\ client \in [Requests -> Registers \cup {None}]
    /\ initialized \in [Registers -> BOOLEAN]
    /\ used \in [Registers -> BOOLEAN]
    /\ connected \in [Registers -> BOOLEAN]
    /\ socket \in [Registers -> Sockets \cup {None}]
    /\ runtime \in [Registers -> Inits \cup {None}]
    /\ threads \in [Inits -> {"none", "running", "killed", "gone"}]
    /\ link \in [Sockets -> {"open", "closed"}]
    /\ receiving \in SUBSET Sockets
    /\ sending \in SUBSET Sockets
    /\ served \in [Inits -> SUBSET Sockets]

\* The runtimes of an id obey RuntimeLease: one at a time across re-registration,
\* forced rebuilds and reconnects, at most one socket each, and no way back.
Alive(g) == threads[g] \in {"running", "killed"}

LeaseOf(g) ==
    [runtime |-> g,
     phase   |-> IF threads[g] = "killed" THEN "ending" ELSE "up",
     sockets |-> served[g]]

Lease == INSTANCE RuntimeLease WITH
    Runtimes <- Inits,
    lease <- [id \in Ids |-> {LeaseOf(g) : g \in {h \in Inits : IdOf[h] = id /\ Alive(h)}}]

LeasesRuntimes == Lease!Spec

\* A connection that calls itself connected is the current one of its id and its
\* runtime has not been told to exit: a client never talks to a dying pipeline.
ConnectedIsLive ==
    \A o \in Registers : connected[o] =>
        /\ clients[IdOf[o]] = o
        /\ threads[runtime[o]] = "running"
        /\ socket[o] \in served[runtime[o]]

\* A receive or send task belongs to the connection's present socket, so it can
\* never reset the connected flag of, or take the output of, a later one.
TasksOfPresentSocket ==
    \A w \in receiving \cup sending : socket[client[w]] = w

\* Once an id is unregistered nothing of it runs: no threads, no tasks.
UnregisteredIsQuiet ==
    \A id \in Ids \ registered :
        /\ \A g \in Inits : IdOf[g] = id => ~Alive(g)
        /\ \A w \in receiving \cup sending : IdOf[w] # id

\* What a client is connected to is its own and alive, whatever requests and
\* sockets of the same id overlap: the three parts above together.
OneLiveConnection == ConnectedIsLive /\ TasksOfPresentSocket /\ UnregisteredIsQuiet

\* A WebSocket endpoint disposes no runtime but the one it was attached to,
\* however late it wakes up.
EndpointEndsItsOwn ==
    [][\A w \in Sockets :
         (at[w] = "leaving" /\ at'[w] \in {"closing", "joining"})
            => w \in served[runtime[client'[w]]]]_vars

\* Every HTTP request is answered and every endpoint whose peer has left ends:
\* the locks, taken in the order init lock then lifecycle lock, never deadlock.
RequestsAreAnswered ==
    <>[](\A r \in Requests : \/ at[r] \in {"new", "done"}
                             \/ r \in Sockets /\ link[r] # "closed")
===============================================================================
