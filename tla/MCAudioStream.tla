--------------------------- MODULE MCAudioStream ---------------------------
(* Instances of AudioStream for TLC: two requests of up to MaxFrames       *)
(* frames.  The chunk sizes stand for 10 and 25.                           *)
EXTENDS AudioStream
============================================================================
