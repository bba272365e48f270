----------------------------- MODULE MCJointStream -----------------------------
(* Stream 1 is extended, stream 2 is the anchor and continuous.               *)
EXTENDS JointStream

MCChunks == <<<<1, 2>>, <<0, 1>>>>
MCArguments == <<{{1, 2}}, {{}, {1}, {1, 2}}>>
===============================================================================
