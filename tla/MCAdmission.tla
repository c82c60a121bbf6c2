----------------------------- MODULE MCAdmission -----------------------------
(* MirrorAdmission on a small instance. *)
EXTENDS MirrorAdmission, TLC

Symmetry == Permutations(RequestIds)
=============================================================================
