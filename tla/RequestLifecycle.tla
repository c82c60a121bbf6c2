-------------------------- MODULE RequestLifecycle --------------------------
(***************************************************************************)
(* What Mirror promises about one request, whatever the interleaving of    *)
(* its threads: an accepted request waits, is run at most once and alone,  *)
(* in the order of acceptance, or is cleared without ever being run; and   *)
(* whichever of the two it is, it stays so.                                *)
(***************************************************************************)
EXTENDS Integers

CONSTANT Tickets  \* accepted submissions, numbered in order of acceptance

VARIABLE fate

Fates == {"unissued", "queued", "running", "executed", "cleared"}

Queued == {t \in Tickets : fate[t] = "queued"}

Init == fate = [t \in Tickets |-> "unissued"]

Accept(t) ==
  /\ fate[t] = "unissued"
  /\ \A u \in Tickets : u < t => fate[u] # "unissued"
  /\ fate' = [fate EXCEPT ![t] = "queued"]

Start(t) ==
  /\ t \in Queued
  /\ \A u \in Queued : t <= u
  /\ \A u \in Tickets : fate[u] # "running"
  /\ fate' = [fate EXCEPT ![t] = "running"]

Finish(t) ==
  /\ fate[t] = "running"
  /\ fate' = [fate EXCEPT ![t] = "executed"]

(* One step may clear a single request (cancel, deadline) or every request *)
(* that waits (estop, reset, close).                                       *)
Clear(S) ==
  fate' = [t \in Tickets |-> IF t \in S THEN "cleared" ELSE fate[t]]

Next ==
  \/ \E t \in Tickets : Accept(t) \/ Start(t) \/ Finish(t)
  \/ \E S \in SUBSET Queued : Clear(S)

Spec == Init /\ [][Next]_fate

=============================================================================
