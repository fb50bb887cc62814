---------------------------- MODULE MCKVTransfer -----------------------------
(* Two requests of two prompt tokens and at most two outputs, on two       *)
(* blocks of two tokens: one request at full length takes the whole cache, *)
(* so held blocks, preemptions and aborts decide who runs and every freed  *)
(* block is soon written by the other request.                             *)
EXTENDS KVTransfer

CONSTANTS r1, r2, b1, b2

MCRequests == {r1, r2}
MCBlocks == {b1, b2}
=============================================================================
