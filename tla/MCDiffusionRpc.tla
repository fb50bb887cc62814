---------------------------- MODULE MCDiffusionRpc ---------------------------
(* Two workers and three calls of any kind.                                 *)
EXTENDS DiffusionRpc

MCRanks == {0, 1}
=============================================================================
