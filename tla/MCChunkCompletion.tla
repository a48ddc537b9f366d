-------------------------- MODULE MCChunkCompletion --------------------------
(***************************************************************************)
(* Instances of ChunkCompletion for TLC.                                   *)
(***************************************************************************)
EXTENDS ChunkCompletion, TLC

CONSTANTS a1, a2, u1, s1

OneUpload == [t \in Attempts |-> u1]
=============================================================================
