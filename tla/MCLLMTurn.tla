------------------------------- MODULE MCLLMTurn -------------------------------
(* The language-model node for TLC.                                           *)
EXTENDS LLMTurn
===============================================================================
