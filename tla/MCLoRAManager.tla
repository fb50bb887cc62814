---------------------------- MODULE MCLoRAManager ----------------------------
(* Three adapters for a cache of two, one with the larger rank and one     *)
(* that does not fit the second layer.                                     *)
EXTENDS LoRAManager, TLC

CONSTANTS a1, a2, a3, l1, l2

MCAdapters == {a1, a2, a3}
MCLayers == {l1, l2}
MCRank == a1 :> 2 @@ a2 :> 1 @@ a3 :> 1
MCTargets == a1 :> {l1} @@ a2 :> {l1, l2} @@ a3 :> {l1, l2}
MCMisfits == a1 :> {} @@ a2 :> {} @@ a3 :> {l2}
=============================================================================
