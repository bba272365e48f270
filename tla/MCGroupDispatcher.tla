-------------------------- MODULE MCGroupDispatcher ---------------------------
(* The default rates: 50, 30 and 20 frames a second in ten groups.           *)
EXTENDS GroupDispatcher

MCPerGroup == [audio |-> 5, video |-> 3, data |-> 2]
===============================================================================
