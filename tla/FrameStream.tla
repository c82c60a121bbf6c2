---------------------------- MODULE FrameStream ----------------------------
(***************************************************************************)
(* What a camera publisher promises about its frames, under every policy   *)
(* and through every failure: frames are offered in order, at most         *)
(* Capacity of them wait, the sink is given the oldest that waits and one  *)
(* at a time, and what became of a frame is decided once.                  *)
(***************************************************************************)
EXTENDS Integers, FiniteSets

CONSTANTS
  Capacity,   \* frames that may wait for the sink
  MaxFrames   \* frames offered, numbered in order

VARIABLE fate

Frames == 1 .. MaxFrames
Waiting == {f \in Frames : fate[f] = "queued"}
Oldest(f) == f \in Waiting /\ \A g \in Waiting : f <= g

Init == fate = [f \in Frames |-> "none"]

Decide(f, what) == fate' = [fate EXCEPT ![f] = what]

(* The next frame waits, if there is room, or is turned away. *)
Offer(f) ==
  /\ fate[f] = "none"
  /\ \A g \in Frames : g < f => fate[g] # "none"
  /\ \/ Cardinality(Waiting) < Capacity /\ Decide(f, "queued")
     \/ \E what \in {"refused", "dropped"} : Decide(f, what)

(* The oldest frame makes room for a newer one, or is given up with the rest. *)
GiveUp(f) ==
  /\ Oldest(f)
  /\ \E what \in {"dropped", "aborted"} : Decide(f, what)

Take(f) ==
  /\ Oldest(f)
  /\ \A g \in Frames : fate[g] # "taken"
  /\ Decide(f, "taken")

Finish(f) ==
  /\ fate[f] = "taken"
  /\ \E what \in {"written", "failed"} : Decide(f, what)

Next == \E f \in Frames : Offer(f) \/ GiveUp(f) \/ Take(f) \/ Finish(f)

Spec == Init /\ [][Next]_fate

=============================================================================
