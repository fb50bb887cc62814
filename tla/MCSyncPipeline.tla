--------------------------- MODULE MCSyncPipeline ---------------------------
(* The synchronous pipeline for TLC: three stages, the first and the last  *)
(* one with output to the caller; one request ends at the first stage.     *)
EXTENDS SyncPipeline

MCFinalStage == [r \in Requests |-> IF r = 1 THEN 0 ELSE NumStages - 1]
=============================================================================
