------------------------------ MODULE MCPipeline ------------------------------
(* A small chain for TLC.  Node 1 is a model-driven VAD: it catches SoS,     *)
(* relays it as EoS and may address the exit past node 2, whose own contract *)
(* is to relay EoS unprocessed.                                              *)
EXTENDS Pipeline

MCSignals == {"SoS", "EoS"}
MCEvents  == {"playback_complete"}
MCStamps  == {0, 2}
MCCatches == [n \in 1..N |-> IF n = 1 THEN {"SoS"} ELSE {}]
MCPasses  == [n \in 1..N |-> IF n = 1 THEN [s \in {"SoS"} |-> "EoS"]
                                      ELSE [s \in {"EoS"} |-> "EoS"]]
MCEmits   == [n \in 1..N |-> {Data}]
MCAddressees == {1, -1}
MCUnbounded == [q \in 1..(N + 1) |-> 0]
MCTight     == [q \in 1..(N + 1) |-> IF q = 2 THEN 1 ELSE 0]
MCEdges   == [n \in 1..N |-> IF n = N THEN <<-1>> ELSE <<n + 1, -1>>]
\* For the run with two messages: one signal under one name, and the last node
\* sends only what it forwards and relays.
MCOneSignal == {"SoS"}
MCOnePasses == [n \in 1..N |-> [s \in MCOneSignal |-> s]]
MCOneEmits  == [n \in 1..N |-> IF n = 1 THEN {Data} ELSE {}]
===============================================================================
