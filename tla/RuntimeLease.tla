----------------------------- MODULE RuntimeLease -----------------------------
(***************************************************************************)
(* What the server promises about the runtimes of one client id: there is  *)
(* at most one at a time, it serves at most one WebSocket in its life, and *)
(* it is gone before the next one is built, whatever requests arrive.      *)
(***************************************************************************)
CONSTANTS
    Ids,         \* client ids
    Runtimes,    \* names of the runtimes that are ever built
    Sockets      \* WebSockets that ever ask to be attached

VARIABLE lease   \* lease[id]: the runtimes of id, none or one, with their state

Held(g, phase, sockets) == [runtime |-> g, phase |-> phase, sockets |-> sockets]

Init == lease = [id \in Ids |-> {}]

\* A build that fails leaves a runtime that is ending from the start.
Build(id, g, phase) ==
    /\ lease[id] = {}
    /\ lease' = [lease EXCEPT ![id] = {Held(g, phase, {})}]

Attach(id, g, w) ==
    /\ lease[id] = {Held(g, "up", {})}
    /\ lease' = [lease EXCEPT ![id] = {Held(g, "up", {w})}]

End(id, g, sockets) ==
    /\ lease[id] = {Held(g, "up", sockets)}
    /\ lease' = [lease EXCEPT ![id] = {Held(g, "ending", sockets)}]

Gone(id, g, sockets) ==
    /\ lease[id] = {Held(g, "ending", sockets)}
    /\ lease' = [lease EXCEPT ![id] = {}]

Next ==
    \E id \in Ids, g \in Runtimes :
        \/ \E phase \in {"up", "ending"} : Build(id, g, phase)
        \/ \E w \in Sockets : Attach(id, g, w)
        \/ \E sockets \in SUBSET Sockets : End(id, g, sockets) \/ Gone(id, g, sockets)

Spec == Init /\ [][Next]_lease
===============================================================================
