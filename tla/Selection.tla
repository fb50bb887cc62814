------------------------------ MODULE Selection ------------------------------
(***************************************************************************)
(* What the components do to their queues and tables besides putting in    *)
(* and taking out.                                                         *)
(***************************************************************************)
EXTENDS Sequences, SequencesExt

(* s without the elements of gone, the others in their order.              *)
Without(s, gone) ==
  FlattenSeq([i \in DOMAIN s |-> IF s[i] \in gone THEN <<>> ELSE <<s[i]>>])
=============================================================================
