--------------------------- MODULE MCFrameSplitter ----------------------------
(* Three messages and a cancel: a message with pass_vars data, one whose     *)
(* second group cannot be rendered, one with nothing to ship, one that       *)
(* cannot be split, and the messages that only pass or are dropped.          *)
EXTENDS FrameSplitter

MCShapes ==
    {[kind |-> "content", size |-> 2, good |-> 2, meta |-> TRUE],
     [kind |-> "content", size |-> 3, good |-> 1, meta |-> FALSE],
     [kind |-> "content", size |-> 0, good |-> 0, meta |-> TRUE],
     [kind |-> "content", size |-> 0, good |-> 0, meta |-> FALSE]}
      \cup [kind : {"broken", "signal", "undeclared", "foreign"}, size : {0}, good : {0},
            meta : {FALSE}]
===============================================================================
