--------------------------- MODULE MCOmniPipeline ---------------------------
(* The pipeline for TLC: two stages with output to the client, the first   *)
(* one yields up to two outputs per request; the first request ends there, *)
(* the second one visits both.                                             *)
EXTENDS OmniPipeline

MCFinalStage == [r \in Requests |-> IF r = 1 THEN 0 ELSE 1]
MCMaxOutputs == [s \in Stages |-> IF s = 0 THEN 2 ELSE 1]
=============================================================================
