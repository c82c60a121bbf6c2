------------------------------ MODULE MCService ------------------------------
(* MirrorService on a small instance. *)
EXTENDS MirrorService, TLC

Symmetry == Permutations(Clients) \cup Permutations(RequestIds)
=============================================================================
