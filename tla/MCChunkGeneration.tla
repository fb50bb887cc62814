------------------------- MODULE MCChunkGeneration --------------------------
(* Small instances of ChunkGeneration: two streaming requests that compete *)
(* for MaxNumSeqs places, one of which may be aborted; one request alone   *)
(* for what goes wrong without any competition.                            *)
EXTENDS ChunkGeneration

CONSTANTS r1, r2

MCReqs == {r1, r2}
MCOneReq == {r1}
=============================================================================
