------------------------------- MODULE MCBracket -------------------------------
(* The parallel region for TLC.                                               *)
EXTENDS Bracket
===============================================================================
