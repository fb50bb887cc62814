---------------------------- MODULE MCChunkLink -----------------------------
(* A small instance of ChunkLink in ar mode: two requests stream up to     *)
(* three chunks each and one put may fail.                                 *)
EXTENDS ChunkLink

CONSTANTS r1, r2

MCReqs == {r1, r2}
=============================================================================
