--------------------------- MODULE MCShmTransfer ---------------------------
(* Instances of ShmTransfer for TLC.                                       *)
EXTENDS ShmTransfer
=============================================================================
