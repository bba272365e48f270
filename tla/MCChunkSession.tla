----------------------------- MODULE MCChunkSession -----------------------------
(* The chunk generator for TLC.                                                *)
EXTENDS ChunkSession
===============================================================================
