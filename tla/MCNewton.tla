------------------------------ MODULE MCNewton ------------------------------
EXTENDS NewtonRuntime

(* Cadences in which a tick detects not every time, or at changing substeps. *)
MCCadences ==
  {[substeps |-> 1, interval |-> 2],
   [substeps |-> 2, interval |-> 3], [substeps |-> 3, interval |-> 2]}
=============================================================================
