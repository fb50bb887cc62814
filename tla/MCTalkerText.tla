---------------------------- MODULE MCTalkerText ----------------------------
(* Instances of TalkerText for TLC.                                        *)
EXTENDS TalkerText
=============================================================================
