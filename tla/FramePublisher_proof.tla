------------------------- MODULE FramePublisher_proof -------------------------
(***************************************************************************)
(* Safety of the camera frame publisher for every queue capacity and every *)
(* number of frames.  Three of the invariants are not inductive: what a    *)
(* closed publisher has written rests on where owner and worker stand      *)
(* whenever nothing failed, and on where each frame is.  Then that the     *)
(* publisher implements FrameStream, what follows from that alone, and the *)
(* measure by which a stopped worker comes to its end.                     *)
(***************************************************************************)
EXTENDS FramePublisher, FiniteSetTheorems, TLAPS

(* A frame counted as queued is in the queue, one counted as taken is the   *)
(* one the worker is writing.                                              *)
QueuedAreIn(ft, q) ==
  \A f \in Frames : ft[f] = "queued" => \E i \in 1 .. Len(q) : q[i] = f

FramesAreSomewhere ==
  /\ QueuedAreIn(fate, queue)
  /\ \A f \in Frames : fate[f] = "taken" => worker = "writing" /\ writing = f

(* A frame is lost only by the policy that says so or by a failure. *)
LossHasCause ==
  /\ \A f \in Frames :
       /\ fate[f] = "aborted" => shutdown = "discard" \/ lastError
       /\ fate[f] = "failed" => lastError
       /\ fate[f] = "dropped" => overflow # "block"
  /\ owner = "dropping" => overflow # "block"
  /\ owner = "discarding" => shutdown = "discard"
  /\ worker = "discarding" => lastError

(* Without a failure only close stops the publisher, and it runs on the     *)
(* thread that publishes; so the worker ends behind the last frame.        *)
StopEndsPublishing ==
  ~lastError =>
    /\ stopped => owner \notin {"checking", "putting", "dropping"}
    /\ worker = "dead" => stopped
    /\ worker = "dead" /\ shutdown = "drain" => queue = <<>>

(* The sink is closed after the worker was joined. *)
CloseFollowsWorker ==
  /\ worker = "writing" => writing # 0
  /\ ~thread => worker = "dead"
  /\ owner = "closing" => ~thread
  /\ sinkClosed /\ ~lastError => worker = "dead"

(* While publish is at work it has a frame. *)
FrameInHand == owner \in {"checking", "putting", "dropping"} => next \in Frames

IInv ==
  /\ TypeOK /\ FramesAreSomewhere /\ LossHasCause
  /\ StopEndsPublishing /\ CloseFollowsWorker /\ FrameInHand

-----------------------------------------------------------------------------
(* Appending a frame keeps every queued frame in the queue. *)
LEMMA AppendingFrame ==
  ASSUME NEW q \in Seq(Frames), NEW ft \in [Frames -> Fates], QueuedAreIn(ft, q),
         NEW x \in Frames
  PROVE  /\ Append(q, x) \in Seq(Frames) /\ Len(Append(q, x)) = Len(q) + 1
         /\ QueuedAreIn([ft EXCEPT ![x] = "queued"], Append(q, x))
<1>1. /\ Append(q, x) \in Seq(Frames) /\ Len(q) \in Nat
      /\ Len(Append(q, x)) = Len(q) + 1
      /\ \A i \in 1 .. Len(q) : Append(q, x)[i] = q[i]
      /\ Append(q, x)[Len(q) + 1] = x
  OBVIOUS
<1>2. ASSUME NEW f \in Frames, [ft EXCEPT ![x] = "queued"][f] = "queued"
      PROVE  \E i \in 1 .. Len(Append(q, x)) : Append(q, x)[i] = f
  <2>1. CASE f = x
    BY <1>1, <2>1
  <2>2. CASE f # x
    <3>1. PICK i \in 1 .. Len(q) : q[i] = f
      BY <1>2, <2>2 DEF QueuedAreIn
    <3>2. i \in 1 .. Len(Append(q, x)) /\ Append(q, x)[i] = f
      BY <1>1, <3>1
    <3>3. QED
      BY <3>2
  <2>3. QED
    BY <2>1, <2>2
<1>3. QED
  BY <1>1, <1>2 DEF QueuedAreIn

(* Taking the head of the queue keeps every other queued frame in it. *)
LEMMA TakingHead ==
  ASSUME NEW q \in Seq(Frames), q # <<>>, NEW ft \in [Frames -> Fates], QueuedAreIn(ft, q),
         NEW what \in Fates \ {"queued"}
  PROVE  /\ Head(q) \in Frames /\ Tail(q) \in Seq(Frames)
         /\ Len(q) \in Nat /\ Len(Tail(q)) = Len(q) - 1
         /\ QueuedAreIn([ft EXCEPT ![Head(q)] = what], Tail(q))
<1>1. /\ Head(q) \in Frames /\ Head(q) = q[1] /\ Tail(q) \in Seq(Frames)
      /\ Len(q) \in Nat \ {0} /\ Len(Tail(q)) = Len(q) - 1
      /\ \A i \in 1 .. Len(Tail(q)) : Tail(q)[i] = q[i + 1]
  OBVIOUS
<1>2. ASSUME NEW f \in Frames, [ft EXCEPT ![Head(q)] = what][f] = "queued"
      PROVE  \E i \in 1 .. Len(Tail(q)) : Tail(q)[i] = f
  <2>1. f # Head(q) /\ ft[f] = "queued"
    BY <1>1, <1>2
  <2>2. PICK i \in 1 .. Len(q) : q[i] = f
    BY <2>1 DEF QueuedAreIn
  <2>3. i - 1 \in 1 .. Len(Tail(q)) /\ Tail(q)[i - 1] = f
    BY <1>1, <2>1, <2>2
  <2>4. QED
    BY <2>3
<1>3. QED
  BY <1>1, <1>2 DEF QueuedAreIn

(* So does the head that owner or worker takes from the publisher's queue, *)
(* which stays within its bound.                                           *)
LEMMA TakingQueued ==
  ASSUME TypeOK, FramesAreSomewhere, queue # <<>>, NEW what \in Fates \ {"queued"}
  PROVE  /\ Head(queue) \in Frames /\ Tail(queue) \in Seq(Frames)
         /\ Len(Tail(queue)) <= Capacity
         /\ QueuedAreIn([fate EXCEPT ![Head(queue)] = what], Tail(queue))
<1>1. /\ queue \in Seq(Frames) /\ fate \in [Frames -> Fates] /\ QueuedAreIn(fate, queue)
      /\ Len(queue) <= Capacity /\ Capacity \in Nat
  BY FrameAssumption DEF TypeOK, FramesAreSomewhere
<1>2. /\ Head(queue) \in Frames /\ Tail(queue) \in Seq(Frames)
      /\ Len(queue) \in Nat /\ Len(Tail(queue)) = Len(queue) - 1
      /\ QueuedAreIn([fate EXCEPT ![Head(queue)] = what], Tail(queue))
  BY <1>1, TakingHead
<1>3. Len(Tail(queue)) <= Capacity
  BY <1>1, <1>2
<1>4. QED
  BY <1>2, <1>3

(* Init has all of it. *)
LEMMA InitHasIInv == Init => IInv
<1>1. SUFFICES ASSUME Init PROVE IInv
  OBVIOUS
<1>2. TypeOK
  <2>1. queue \in Seq(Frames) /\ Len(queue) <= Capacity
    BY <1>1, FrameAssumption DEF Init
  <2>2. next \in 1 .. MaxFrames + 1
    BY <1>1, FrameAssumption DEF Init
  <2>3. fate \in [Frames -> Fates]
    BY <1>1 DEF Init, Fates
  <2>4. QED
    BY <1>1, <2>1, <2>2, <2>3 DEF Init, TypeOK
<1>3. FramesAreSomewhere /\ LossHasCause /\ StopEndsPublishing /\ CloseFollowsWorker /\ FrameInHand
  BY <1>1 DEF Init, FramesAreSomewhere, QueuedAreIn, LossHasCause, StopEndsPublishing,
              CloseFollowsWorker, FrameInHand
<1>4. QED
  BY <1>2, <1>3 DEF IInv

(* Every step keeps it. *)
LEMMA NextKeepsIInv == IInv /\ [Next]_vars => IInv'
<1> SUFFICES ASSUME IInv, [Next]_vars PROVE IInv'
  OBVIOUS
<1> USE FrameAssumption
<1>1. /\ TypeOK /\ FramesAreSomewhere /\ LossHasCause
      /\ StopEndsPublishing /\ CloseFollowsWorker /\ FrameInHand
  BY DEF IInv
<1>2. CASE BeginPublish
  <2>1. TypeOK'
    BY <1>1, <1>2 DEF TypeOK, BeginPublish, policyVars, Become, Return, Frames, Fates
  <2>2. FramesAreSomewhere'
    BY <1>1, <1>2 DEF FramesAreSomewhere, QueuedAreIn, TypeOK, BeginPublish, policyVars, Become, Return, Frames
  <2>3. LossHasCause'
    BY <1>1, <1>2 DEF LossHasCause, TypeOK, BeginPublish, policyVars, Become, Return, Frames
  <2>4. StopEndsPublishing' /\ CloseFollowsWorker' /\ FrameInHand'
    BY <1>1, <1>2 DEF TypeOK, LossHasCause, StopEndsPublishing, CloseFollowsWorker,
      FrameInHand, BeginPublish, policyVars, Become, Return, Frames
  <2>5. QED
    BY <2>1, <2>2, <2>3, <2>4 DEF IInv
<1>3. CASE PutFrame
  <2>0. /\ Append(queue, next) \in Seq(Frames) /\ Len(Append(queue, next)) <= Capacity
        /\ QueuedAreIn([fate EXCEPT ![next] = "queued"], Append(queue, next))
    <3>1. /\ queue \in Seq(Frames) /\ fate \in [Frames -> Fates] /\ QueuedAreIn(fate, queue)
          /\ next \in Frames
      BY <1>1, <1>3 DEF TypeOK, FramesAreSomewhere, FrameInHand, PutFrame
    <3>2. Len(Append(queue, next)) <= Capacity
      <4>1. Len(Append(queue, next)) = Len(queue) + 1
        BY <3>1, AppendingFrame
      <4>2. Len(queue) \in Nat /\ ~(Len(queue) >= Capacity)
        BY <1>3, <3>1 DEF PutFrame, Full
      <4>3. QED
        BY <4>1, <4>2
    <3>3. QED
      BY <3>1, <3>2, AppendingFrame
  <2>1. TypeOK'
    BY <1>1, <1>3, <2>0 DEF TypeOK, FrameInHand, PutFrame, policyVars, Become, Return, Frames, Fates
  <2>2. FramesAreSomewhere'
    BY <1>1, <1>3, <2>0 DEF FramesAreSomewhere, TypeOK, FrameInHand, PutFrame, policyVars, Become, Return, Frames
  <2>3. LossHasCause'
    BY <1>1, <1>3, <2>0 DEF LossHasCause, TypeOK, FrameInHand, PutFrame, policyVars, Become, Return, Frames
  <2>4. StopEndsPublishing' /\ CloseFollowsWorker' /\ FrameInHand'
    BY <1>1, <1>3, <2>0 DEF TypeOK, LossHasCause, StopEndsPublishing, CloseFollowsWorker,
      FrameInHand, PutFrame, policyVars, Become, Return, Full, Frames
  <2>5. QED
    BY <2>1, <2>2, <2>3, <2>4 DEF IInv
<1>4. CASE CheckStop
  <2>1. TypeOK'
    BY <1>1, <1>4 DEF TypeOK, FrameInHand, CheckStop, policyVars, Become, Return, Frames, Fates
  <2>2. FramesAreSomewhere'
    BY <1>1, <1>4 DEF FramesAreSomewhere, QueuedAreIn, TypeOK, FrameInHand, CheckStop, policyVars, Become, Return, Frames
  <2>3. LossHasCause'
    BY <1>1, <1>4 DEF LossHasCause, TypeOK, FrameInHand, CheckStop, policyVars, Become, Return, Frames
  <2>4. StopEndsPublishing' /\ CloseFollowsWorker' /\ FrameInHand'
    BY <1>1, <1>4 DEF TypeOK, LossHasCause, StopEndsPublishing, CloseFollowsWorker,
      FrameInHand, CheckStop, policyVars, Become, Return, Frames
  <2>5. QED
    BY <2>1, <2>2, <2>3, <2>4 DEF IInv
<1>5. CASE PutTimesOut
  <2>1. TypeOK'
    BY <1>1, <1>5 DEF TypeOK, FrameInHand, PutTimesOut, policyVars, Frames, Fates
  <2>2. FramesAreSomewhere'
    BY <1>1, <1>5 DEF FramesAreSomewhere, TypeOK, FrameInHand, PutTimesOut, policyVars, Frames
  <2>3. LossHasCause'
    BY <1>1, <1>5 DEF LossHasCause, TypeOK, FrameInHand, PutTimesOut, policyVars, Frames
  <2>4. StopEndsPublishing' /\ CloseFollowsWorker' /\ FrameInHand'
    BY <1>1, <1>5 DEF TypeOK, LossHasCause, StopEndsPublishing, CloseFollowsWorker,
      FrameInHand, PutTimesOut, policyVars, Frames
  <2>5. QED
    BY <2>1, <2>2, <2>3, <2>4 DEF IInv
<1>6. CASE RejectFrame
  <2>1. TypeOK'
    BY <1>1, <1>6 DEF TypeOK, FrameInHand, RejectFrame, policyVars, Become, Return, Frames, Fates
  <2>2. FramesAreSomewhere'
    BY <1>1, <1>6 DEF FramesAreSomewhere, QueuedAreIn, TypeOK, FrameInHand, RejectFrame, policyVars, Become, Return, Frames
  <2>3. LossHasCause'
    BY <1>1, <1>6 DEF LossHasCause, TypeOK, FrameInHand, RejectFrame, policyVars, Become, Return, Frames
  <2>4. StopEndsPublishing' /\ CloseFollowsWorker' /\ FrameInHand'
    BY <1>1, <1>6 DEF TypeOK, LossHasCause, StopEndsPublishing, CloseFollowsWorker,
      FrameInHand, RejectFrame, policyVars, Become, Return, Frames
  <2>5. QED
    BY <2>1, <2>2, <2>3, <2>4 DEF IInv
<1>7. CASE FindFull
  <2>1. TypeOK'
    BY <1>1, <1>7 DEF TypeOK, FindFull, policyVars, Frames, Fates
  <2>2. FramesAreSomewhere'
    BY <1>1, <1>7 DEF FramesAreSomewhere, TypeOK, FindFull, policyVars, Frames
  <2>3. LossHasCause'
    BY <1>1, <1>7 DEF LossHasCause, TypeOK, FindFull, policyVars, Frames
  <2>4. StopEndsPublishing' /\ CloseFollowsWorker' /\ FrameInHand'
    BY <1>1, <1>7 DEF TypeOK, LossHasCause, StopEndsPublishing, CloseFollowsWorker,
      FrameInHand, FindFull, policyVars, Frames
  <2>5. QED
    BY <2>1, <2>2, <2>3, <2>4 DEF IInv
<1>8. CASE DropOldest
  <2>0. queue # <<>> =>
          /\ Head(queue) \in Frames /\ Tail(queue) \in Seq(Frames) /\ Len(Tail(queue)) <= Capacity
          /\ QueuedAreIn([fate EXCEPT ![Head(queue)] = "dropped"], Tail(queue))
    BY <1>1, TakingQueued DEF Fates
  <2>1. TypeOK'
    BY <1>1, <1>8, <2>0 DEF TypeOK, DropOldest, policyVars, Become, Frames, Fates
  <2>2. FramesAreSomewhere'
    BY <1>1, <1>8, <2>0 DEF FramesAreSomewhere, TypeOK, DropOldest, policyVars, Become, Frames
  <2>3. LossHasCause'
    BY <1>1, <1>8, <2>0 DEF LossHasCause, TypeOK, DropOldest, policyVars, Become, Frames
  <2>4. StopEndsPublishing' /\ CloseFollowsWorker' /\ FrameInHand'
    BY <1>1, <1>8, <2>0 DEF TypeOK, LossHasCause, StopEndsPublishing, CloseFollowsWorker,
      FrameInHand, DropOldest, policyVars, Become, Frames
  <2>5. QED
    BY <2>1, <2>2, <2>3, <2>4 DEF IInv
<1>9. CASE BeginClose
  <2>1. TypeOK'
    BY <1>1, <1>9 DEF TypeOK, BeginClose, policyVars, Frames, Fates
  <2>2. FramesAreSomewhere'
    BY <1>1, <1>9 DEF FramesAreSomewhere, TypeOK, BeginClose, policyVars, Frames
  <2>3. LossHasCause'
    BY <1>1, <1>9 DEF LossHasCause, TypeOK, BeginClose, policyVars, Frames
  <2>4. StopEndsPublishing' /\ CloseFollowsWorker' /\ FrameInHand'
    BY <1>1, <1>9 DEF TypeOK, LossHasCause, StopEndsPublishing, CloseFollowsWorker,
      FrameInHand, BeginClose, policyVars, Frames
  <2>5. QED
    BY <2>1, <2>2, <2>3, <2>4 DEF IInv
<1>10. CASE OwnerDiscards
  <2>0. queue # <<>> =>
          /\ Head(queue) \in Frames /\ Tail(queue) \in Seq(Frames) /\ Len(Tail(queue)) <= Capacity
          /\ QueuedAreIn([fate EXCEPT ![Head(queue)] = "aborted"], Tail(queue))
    BY <1>1, TakingQueued DEF Fates
  <2>1. TypeOK'
    BY <1>1, <1>10, <2>0 DEF TypeOK, OwnerDiscards, policyVars, Become, Frames, Fates
  <2>2. FramesAreSomewhere'
    BY <1>1, <1>10, <2>0 DEF FramesAreSomewhere, TypeOK, OwnerDiscards, policyVars, Become, Frames
  <2>3. LossHasCause'
    BY <1>1, <1>10, <2>0 DEF LossHasCause, TypeOK, OwnerDiscards, policyVars, Become, Frames
  <2>4. StopEndsPublishing' /\ CloseFollowsWorker' /\ FrameInHand'
    BY <1>1, <1>10, <2>0 DEF TypeOK, LossHasCause, StopEndsPublishing, CloseFollowsWorker,
      FrameInHand, OwnerDiscards, policyVars, Become, Frames
  <2>5. QED
    BY <2>1, <2>2, <2>3, <2>4 DEF IInv
<1>11. CASE RestartWorker
  <2>1. TypeOK'
    BY <1>1, <1>11 DEF TypeOK, CloseFollowsWorker, RestartWorker, policyVars, Frames, Fates
  <2>2. FramesAreSomewhere'
    BY <1>1, <1>11 DEF FramesAreSomewhere, TypeOK, CloseFollowsWorker, RestartWorker, policyVars, Frames
  <2>3. LossHasCause'
    BY <1>1, <1>11 DEF LossHasCause, TypeOK, CloseFollowsWorker, RestartWorker, policyVars, Frames
  <2>4. StopEndsPublishing' /\ CloseFollowsWorker' /\ FrameInHand'
    BY <1>1, <1>11 DEF TypeOK, LossHasCause, StopEndsPublishing, CloseFollowsWorker,
      FrameInHand, RestartWorker, policyVars, Frames
  <2>5. QED
    BY <2>1, <2>2, <2>3, <2>4 DEF IInv
<1>12. CASE Join
  <2>1. TypeOK'
    BY <1>1, <1>12 DEF TypeOK, Join, policyVars, Frames, Fates
  <2>2. FramesAreSomewhere'
    BY <1>1, <1>12 DEF FramesAreSomewhere, TypeOK, Join, policyVars, Frames
  <2>3. LossHasCause'
    BY <1>1, <1>12 DEF LossHasCause, TypeOK, Join, policyVars, Frames
  <2>4. StopEndsPublishing' /\ CloseFollowsWorker' /\ FrameInHand'
    BY <1>1, <1>12 DEF TypeOK, LossHasCause, StopEndsPublishing, CloseFollowsWorker,
      FrameInHand, Join, policyVars, Frames
  <2>5. QED
    BY <2>1, <2>2, <2>3, <2>4 DEF IInv
<1>13. CASE CloseSink
  <2>1. TypeOK'
    BY <1>1, <1>13 DEF TypeOK, CloseSink, policyVars, Frames, Fates
  <2>2. FramesAreSomewhere'
    BY <1>1, <1>13 DEF FramesAreSomewhere, TypeOK, CloseSink, policyVars, Frames
  <2>3. LossHasCause'
    BY <1>1, <1>13 DEF LossHasCause, TypeOK, CloseSink, policyVars, Frames
  <2>4. StopEndsPublishing' /\ CloseFollowsWorker' /\ FrameInHand'
    BY <1>1, <1>13 DEF TypeOK, LossHasCause, StopEndsPublishing, CloseFollowsWorker,
      FrameInHand, CloseSink, policyVars, Frames
  <2>5. QED
    BY <2>1, <2>2, <2>3, <2>4 DEF IInv
<1>14. CASE WorkerLoop
  <2>1. TypeOK'
    BY <1>1, <1>14 DEF TypeOK, WorkerLoop, policyVars, WorkerDone, Frames, Fates
  <2>2. FramesAreSomewhere'
    BY <1>1, <1>14 DEF FramesAreSomewhere, TypeOK, WorkerLoop, policyVars, WorkerDone, Frames
  <2>3. LossHasCause'
    BY <1>1, <1>14 DEF LossHasCause, TypeOK, WorkerLoop, policyVars, WorkerDone, Frames
  <2>4. StopEndsPublishing' /\ CloseFollowsWorker' /\ FrameInHand'
    BY <1>1, <1>14 DEF TypeOK, LossHasCause, StopEndsPublishing, CloseFollowsWorker,
      FrameInHand, WorkerLoop, policyVars, WorkerDone, Frames
  <2>5. QED
    BY <2>1, <2>2, <2>3, <2>4 DEF IInv
<1>15. CASE TakeFrame
  <2>0. queue # <<>> =>
          /\ Head(queue) \in Frames /\ Tail(queue) \in Seq(Frames) /\ Len(Tail(queue)) <= Capacity
          /\ QueuedAreIn([fate EXCEPT ![Head(queue)] = "taken"], Tail(queue))
    BY <1>1, TakingQueued DEF Fates
  <2>1. TypeOK'
    BY <1>1, <1>15, <2>0 DEF TypeOK, TakeFrame, policyVars, Become, Frames, Fates
  <2>2. FramesAreSomewhere'
    BY <1>1, <1>15, <2>0 DEF FramesAreSomewhere, TypeOK, TakeFrame, policyVars, Become, Frames
  <2>3. LossHasCause'
    BY <1>1, <1>15, <2>0 DEF LossHasCause, TypeOK, TakeFrame, policyVars, Become, Frames
  <2>4. StopEndsPublishing' /\ CloseFollowsWorker' /\ FrameInHand'
    BY <1>1, <1>15, <2>0 DEF TypeOK, LossHasCause, StopEndsPublishing, CloseFollowsWorker,
      FrameInHand, TakeFrame, policyVars, Become, Frames
  <2>5. QED
    BY <2>1, <2>2, <2>3, <2>4 DEF IInv
<1>16. CASE WriteFrame
  <2>1. TypeOK'
    BY <1>1, <1>16 DEF TypeOK, CloseFollowsWorker, WriteFrame, policyVars, Become, Frames, Fates
  <2>2. FramesAreSomewhere'
    BY <1>1, <1>16 DEF FramesAreSomewhere, QueuedAreIn, TypeOK, CloseFollowsWorker, WriteFrame, policyVars, Become, Frames
  <2>3. LossHasCause'
    BY <1>1, <1>16 DEF LossHasCause, TypeOK, CloseFollowsWorker, WriteFrame, policyVars, Become, Frames
  <2>4. StopEndsPublishing' /\ CloseFollowsWorker' /\ FrameInHand'
    BY <1>1, <1>16 DEF TypeOK, LossHasCause, StopEndsPublishing, CloseFollowsWorker,
      FrameInHand, WriteFrame, policyVars, Become, Frames
  <2>5. QED
    BY <2>1, <2>2, <2>3, <2>4 DEF IInv
<1>17. CASE WriteFails
  <2>1. TypeOK'
    BY <1>1, <1>17 DEF TypeOK, CloseFollowsWorker, WriteFails, policyVars, Become, Frames, Fates
  <2>2. FramesAreSomewhere'
    BY <1>1, <1>17 DEF FramesAreSomewhere, QueuedAreIn, TypeOK, CloseFollowsWorker, WriteFails, policyVars, Become, Frames
  <2>3. LossHasCause'
    BY <1>1, <1>17 DEF LossHasCause, TypeOK, CloseFollowsWorker, WriteFails, policyVars, Become, Frames
  <2>4. StopEndsPublishing' /\ CloseFollowsWorker' /\ FrameInHand'
    BY <1>1, <1>17 DEF TypeOK, LossHasCause, StopEndsPublishing, CloseFollowsWorker,
      FrameInHand, WriteFails, policyVars, Become, Frames
  <2>5. QED
    BY <2>1, <2>2, <2>3, <2>4 DEF IInv
<1>18. CASE WorkerDiscards
  <2>0. queue # <<>> =>
          /\ Head(queue) \in Frames /\ Tail(queue) \in Seq(Frames) /\ Len(Tail(queue)) <= Capacity
          /\ QueuedAreIn([fate EXCEPT ![Head(queue)] = "aborted"], Tail(queue))
    BY <1>1, TakingQueued DEF Fates
  <2>1. TypeOK'
    BY <1>1, <1>18, <2>0 DEF TypeOK, WorkerDiscards, policyVars, Become, Frames, Fates
  <2>2. FramesAreSomewhere'
    BY <1>1, <1>18, <2>0 DEF FramesAreSomewhere, TypeOK, WorkerDiscards, policyVars, Become, Frames
  <2>3. LossHasCause'
    BY <1>1, <1>18, <2>0 DEF LossHasCause, TypeOK, WorkerDiscards, policyVars, Become, Frames
  <2>4. StopEndsPublishing' /\ CloseFollowsWorker' /\ FrameInHand'
    BY <1>1, <1>18, <2>0 DEF TypeOK, LossHasCause, StopEndsPublishing, CloseFollowsWorker,
      FrameInHand, WorkerDiscards, policyVars, Become, Frames
  <2>5. QED
    BY <2>1, <2>2, <2>3, <2>4 DEF IInv
<1>19. CASE UNCHANGED vars
  BY <1>1, <1>19 DEF vars, policyVars, IInv, TypeOK, FramesAreSomewhere, LossHasCause, StopEndsPublishing, CloseFollowsWorker, FrameInHand, QueuedAreIn
<1>20. QED
  BY <1>2, <1>3, <1>4, <1>5, <1>6, <1>7, <1>8, <1>9, <1>10, <1>11, <1>12, <1>13, <1>14, <1>15, <1>16, <1>17, <1>18, <1>19 DEF Next, PublishStep, CloseStep, WorkerStep

-----------------------------------------------------------------------------
(* The publisher keeps the inductive invariant, whatever the capacity of    *)
(* the queue and however many frames the cameras produce.                  *)
THEOREM FramesInvariant == Spec => []IInv
<1>1. QED
  BY InitHasIInv, NextKeepsIInv, PTL DEF Spec

(* Every variable keeps its shape and the queue its bound. *)
THEOREM FramesTyped == Spec => []TypeOK
<1>1. IInv => TypeOK
  BY DEF IInv
<1>2. QED
  BY <1>1, FramesInvariant, PTL

(* When close under "drain" has closed a sink that never failed, no frame   *)
(* publish accepted is left in the queue, in the worker's hand or aborted. *)
THEOREM DrainCompletes == Spec => []DrainIsComplete
<1>1. ASSUME IInv PROVE DrainIsComplete
  <2>1. SUFFICES ASSUME sinkClosed, shutdown = "drain", ~lastError, NEW f \in Frames
                 PROVE  fate[f] \notin {"queued", "taken", "aborted"}
    BY DEF DrainIsComplete
  <2>2. worker = "dead" /\ queue = <<>>
    BY <1>1, <2>1 DEF IInv, CloseFollowsWorker, StopEndsPublishing
  <2>3. fate[f] # "queued"
    BY <1>1, <2>2 DEF IInv, FramesAreSomewhere, QueuedAreIn
  <2>4. fate[f] # "taken"
    BY <1>1, <2>2 DEF IInv, FramesAreSomewhere
  <2>5. fate[f] # "aborted"
    BY <1>1, <2>1 DEF IInv, LossHasCause, TypeOK
  <2>6. QED
    BY <2>3, <2>4, <2>5
<1>2. QED
  BY <1>1, FramesInvariant, PTL

(* With the "block" policy and a sink that works, nothing is lost between   *)
(* the put in publish and the write in _run.                               *)
THEOREM BlockKeepsFrames == Spec => []BlockLosesNothing
<1>1. ASSUME IInv PROVE BlockLosesNothing
  BY <1>1 DEF IInv, LossHasCause, TypeOK, BlockLosesNothing
<1>2. QED
  BY <1>1, FramesInvariant, PTL

(* close never closes a working sink while the worker can still write. *)
THEOREM SinkHasOneUser == Spec => []SinkUsedAlone
<1>1. IInv => SinkUsedAlone
  BY DEF IInv, CloseFollowsWorker, SinkUsedAlone
<1>2. QED
  BY <1>1, FramesInvariant, PTL

-----------------------------------------------------------------------------
(* The publisher implements FrameStream. *)
Ordered(q) == \A i, j \in 1 .. Len(q) : i < j => q[i] < q[j]
AllQueued(ft, q) == \A i \in 1 .. Len(q) : ft[q[i]] = "queued"

(* The queue holds, in the order they were offered, exactly the frames that wait. *)
InOrder ==
  /\ Ordered(queue) /\ AllQueued(fate, queue)
  /\ \A f \in Frames : fate[f] = "none" <=> f >= next
  /\ worker = "writing" => writing \in Frames /\ fate[writing] = "taken"

StillWriting == worker' = "writing" => worker = "writing" /\ writing' = writing

(* What one step of either thread does to the stream. *)
TurnsAway ==
  /\ next \in Frames
  /\ \E what \in {"refused", "dropped"} : Become(next, what)
  /\ next' = next + 1 /\ UNCHANGED queue /\ StillWriting
Enqueues ==
  /\ next \in Frames /\ ~Full
  /\ queue' = Append(queue, next) /\ Become(next, "queued")
  /\ next' = next + 1 /\ StillWriting
GivesUp ==
  /\ queue # <<>> /\ queue' = Tail(queue)
  /\ \E what \in {"dropped", "aborted"} : Become(Head(queue), what)
  /\ UNCHANGED next /\ StillWriting
Takes ==
  /\ worker = "getting" /\ queue # <<>>
  /\ queue' = Tail(queue) /\ Become(Head(queue), "taken")
  /\ UNCHANGED next /\ writing' = Head(queue)
Finishes ==
  /\ worker = "writing"
  /\ \E what \in {"written", "failed"} : Become(writing, what)
  /\ UNCHANGED <<queue, next>> /\ worker' # "writing"
LeavesAlone == UNCHANGED <<queue, next, fate>> /\ StillWriting

StreamMove == TurnsAway \/ Enqueues \/ GivesUp \/ Takes \/ Finishes \/ LeavesAlone

LEMMA EveryStepMoves == ASSUME IInv, [Next]_vars PROVE StreamMove
<1>1. owner \in {"checking", "putting", "dropping"} => next \in Frames
  BY DEF IInv, FrameInHand
<1>2. next <= MaxFrames => next \in Frames
  BY FrameAssumption DEF IInv, TypeOK, Frames
<1>3. CASE BeginPublish
  BY <1>2, <1>3 DEF BeginPublish, Return, StreamMove, TurnsAway, LeavesAlone, StillWriting
<1>4. CASE PublishStep
  BY <1>1, <1>4 DEF PublishStep, PutFrame, CheckStop, PutTimesOut, RejectFrame, FindFull,
     DropOldest, Return, StreamMove, TurnsAway, Enqueues, GivesUp, LeavesAlone, StillWriting
<1>5. CASE BeginClose \/ CloseStep
  BY <1>5 DEF BeginClose, CloseStep, OwnerDiscards, RestartWorker, Join, CloseSink, StreamMove,
     GivesUp, LeavesAlone, StillWriting
<1>6. CASE WorkerStep
  BY <1>6 DEF WorkerStep, WorkerLoop, TakeFrame, WriteFrame, WriteFails, WorkerDiscards,
     StreamMove, GivesUp, Takes, Finishes, LeavesAlone, StillWriting
<1>7. CASE UNCHANGED vars
  BY <1>7 DEF vars, StreamMove, LeavesAlone, StillWriting
<1> QED
  BY <1>3, <1>4, <1>5, <1>6, <1>7 DEF Next

LEMMA AppendingKeepsOrder ==
  ASSUME NEW q \in Seq(Frames), NEW ft \in [Frames -> Fates], Ordered(q), AllQueued(ft, q),
         NEW x \in Frames, \A i \in 1 .. Len(q) : q[i] < x
  PROVE  Ordered(Append(q, x)) /\ AllQueued([ft EXCEPT ![x] = "queued"], Append(q, x))
<1>1. /\ Len(q) \in Nat /\ Len(Append(q, x)) = Len(q) + 1
      /\ \A i \in 1 .. Len(q) : Append(q, x)[i] = q[i] /\ q[i] \in Frames
      /\ Append(q, x)[Len(q) + 1] = x
  OBVIOUS
<1>2. \A i \in 1 .. Len(Append(q, x)) : i \in 1 .. Len(q) \/ i = Len(q) + 1
  BY <1>1
<1>3. Ordered(Append(q, x))
  BY <1>1, <1>2 DEF Ordered
<1>4. AllQueued([ft EXCEPT ![x] = "queued"], Append(q, x))
  BY <1>1, <1>2 DEF AllQueued
<1> QED
  BY <1>3, <1>4

LEMMA TakingKeepsOrder ==
  ASSUME NEW q \in Seq(Frames), q # <<>>, NEW ft \in [Frames -> Fates],
         Ordered(q), AllQueued(ft, q), NEW what \in Fates
  PROVE  /\ Ordered(Tail(q)) /\ AllQueued([ft EXCEPT ![Head(q)] = what], Tail(q))
         /\ Head(q) \in Frames /\ ft[Head(q)] = "queued"
         /\ \A i \in 1 .. Len(q) : Head(q) <= q[i]
<1>1. /\ Len(q) \in Nat \ {0} /\ Len(Tail(q)) = Len(q) - 1
      /\ \A i \in 1 .. Len(Tail(q)) : Tail(q)[i] = q[i + 1] /\ i + 1 \in 1 .. Len(q)
      /\ Head(q) = q[1] /\ 1 \in 1 .. Len(q)
      /\ \A i \in 1 .. Len(q) : q[i] \in Frames
  OBVIOUS
<1>2. Ordered(Tail(q))
  <2>1. SUFFICES ASSUME NEW i \in 1 .. Len(Tail(q)), NEW j \in 1 .. Len(Tail(q)), i < j
                 PROVE  Tail(q)[i] < Tail(q)[j]
    BY DEF Ordered
  <2>2. i + 1 < j + 1 /\ i + 1 \in 1 .. Len(q) /\ j + 1 \in 1 .. Len(q)
    BY <1>1, <2>1
  <2>3. q[i + 1] < q[j + 1]
    BY <2>2 DEF Ordered
  <2> QED
    BY <1>1, <2>3
<1>3. \A i \in 1 .. Len(q) : i > 1 => q[1] < q[i]
  BY <1>1 DEF Ordered
<1>4. \A i \in 1 .. Len(q) : Head(q) <= q[i]
  BY <1>1, <1>3 DEF Frames
<1>5. AllQueued([ft EXCEPT ![Head(q)] = what], Tail(q))
  <2>1. SUFFICES ASSUME NEW i \in 1 .. Len(Tail(q))
                 PROVE  [ft EXCEPT ![Head(q)] = what][Tail(q)[i]] = "queued"
    BY DEF AllQueued
  <2>2. Tail(q)[i] = q[i + 1] /\ i + 1 \in 1 .. Len(q) /\ i + 1 > 1
    BY <1>1
  <2>3. Tail(q)[i] # Head(q) /\ Tail(q)[i] \in Frames
    BY <1>1, <1>3, <2>2 DEF Frames
  <2> QED
    BY <2>2, <2>3 DEF AllQueued
<1> QED
  BY <1>1, <1>2, <1>4, <1>5 DEF AllQueued

LEMMA OrderKept == ASSUME IInv, InOrder, [Next]_vars PROVE InOrder'
<1>1. /\ StreamMove /\ TypeOK
      /\ queue \in Seq(Frames) /\ fate \in [Frames -> Fates] /\ next \in Int
      /\ \A i \in 1 .. Len(queue) : queue[i] \in Frames /\ queue[i] < next
  <2>1. queue \in Seq(Frames) /\ fate \in [Frames -> Fates] /\ next \in Int
    BY FrameAssumption DEF IInv, TypeOK
  <2>2. \A i \in 1 .. Len(queue) : queue[i] \in Frames
    BY <2>1
  <2>3. \A i \in 1 .. Len(queue) : queue[i] < next
    BY <2>1, <2>2 DEF InOrder, AllQueued, Frames
  <2> QED
    BY <2>1, <2>2, <2>3, EveryStepMoves DEF IInv
<1>2. CASE TurnsAway
  <2>1. PICK what \in {"refused", "dropped"} : fate' = [fate EXCEPT ![next] = what]
    BY <1>2 DEF TurnsAway, Become
  <2>2. Ordered(queue)' /\ AllQueued(fate, queue)'
    BY <1>1, <1>2, <2>1 DEF TurnsAway, InOrder, Ordered, AllQueued
  <2>3. (\A f \in Frames : fate[f] = "none" <=> f >= next)'
    BY <1>1, <1>2, <2>1 DEF TurnsAway, InOrder, Frames
  <2>4. fate[next] = "none"
    BY <1>1, <1>2 DEF TurnsAway, InOrder
  <2>5. (worker = "writing" => writing \in Frames /\ fate[writing] = "taken")'
    BY <1>1, <1>2, <2>1, <2>4 DEF TurnsAway, InOrder, StillWriting
  <2> QED
    BY <2>2, <2>3, <2>5 DEF InOrder
<1>3. CASE Enqueues
  <2>1. /\ queue' = Append(queue, next) /\ fate' = [fate EXCEPT ![next] = "queued"]
        /\ next' = next + 1 /\ next \in Frames
    BY <1>3 DEF Enqueues, Become
  <2>2. Ordered(queue') /\ AllQueued(fate', queue')
    BY <1>1, <2>1, AppendingKeepsOrder DEF InOrder
  <2>3. (\A f \in Frames : fate[f] = "none" <=> f >= next)'
    BY <1>1, <2>1 DEF InOrder, Frames
  <2>4. fate[next] = "none"
    BY <1>1, <2>1 DEF InOrder
  <2>5. (worker = "writing" => writing \in Frames /\ fate[writing] = "taken")'
    BY <1>1, <1>3, <2>1, <2>4 DEF Enqueues, InOrder, StillWriting
  <2> QED
    BY <2>2, <2>3, <2>5 DEF InOrder, Ordered, AllQueued
<1>4. CASE GivesUp \/ Takes
  <2>1. PICK what \in {"dropped", "aborted", "taken"} :
          /\ queue # <<>> /\ queue' = Tail(queue) /\ next' = next
          /\ fate' = [fate EXCEPT ![Head(queue)] = what]
          /\ \/ StillWriting
             \/ what = "taken" /\ writing' = Head(queue)
    BY <1>4 DEF GivesUp, Takes, Become
  <2>2. /\ Ordered(queue') /\ AllQueued(fate', queue')
        /\ Head(queue) \in Frames /\ fate[Head(queue)] = "queued"
    BY <1>1, <2>1, TakingKeepsOrder DEF InOrder, Fates
  <2>3. (\A f \in Frames : fate[f] = "none" <=> f >= next)'
    BY <1>1, <2>1, <2>2 DEF InOrder, Frames
  <2>4. (worker = "writing" => writing \in Frames /\ fate[writing] = "taken")'
    BY <1>1, <2>1, <2>2 DEF InOrder, StillWriting
  <2> QED
    BY <2>2, <2>3, <2>4 DEF InOrder, Ordered, AllQueued
<1>5. CASE Finishes
  <2>1. PICK what \in {"written", "failed"} :
          /\ fate' = [fate EXCEPT ![writing] = what]
          /\ UNCHANGED <<queue, next>> /\ worker' # "writing"
    BY <1>5 DEF Finishes, Become
  <2>2. writing \in Frames /\ fate[writing] = "taken"
    BY <1>5 DEF Finishes, InOrder
  <2>3. Ordered(queue)' /\ AllQueued(fate, queue)'
    BY <1>1, <2>1, <2>2 DEF InOrder, Ordered, AllQueued
  <2>4. (\A f \in Frames : fate[f] = "none" <=> f >= next)'
    BY <1>1, <2>1, <2>2 DEF InOrder, Frames
  <2> QED
    BY <2>1, <2>3, <2>4 DEF InOrder
<1>6. CASE LeavesAlone
  BY <1>6 DEF LeavesAlone, StillWriting, InOrder, Ordered, AllQueued
<1> QED
  BY <1>1, <1>2, <1>3, <1>4, <1>5, <1>6 DEF StreamMove

(* The frames that wait are as many as the queue is long. *)
LEMMA QueueBoundsWaiting ==
  ASSUME TypeOK, FramesAreSomewhere, InOrder
  PROVE  /\ \A f \in Stream!Waiting : \E i \in 1 .. Len(queue) : queue[i] = f
         /\ Cardinality(Stream!Waiting) <= Len(queue)
<1>1. queue \in Seq(Frames) /\ Len(queue) \in Nat
  BY DEF TypeOK
<1>2. \A f \in Stream!Waiting : \E i \in 1 .. Len(queue) : queue[i] = f
  BY DEF Stream!Waiting, Stream!Frames, Frames, FramesAreSomewhere, QueuedAreIn
<1>3. queue \in [1 .. Len(queue) -> Stream!Waiting]
  <2>1. queue \in [1 .. Len(queue) -> Frames]
    BY <1>1
  <2>2. \A i \in 1 .. Len(queue) : fate[queue[i]] = "queued"
    BY DEF InOrder, AllQueued
  <2> QED
    BY <2>1, <2>2 DEF Stream!Waiting, Stream!Frames, Frames
<1>4. queue \in Surjection(1 .. Len(queue), Stream!Waiting)
  BY <1>2, <1>3 DEF Surjection
<1>5. ExistsSurjection(1 .. Len(queue), Stream!Waiting)
  BY <1>4 DEF ExistsSurjection
<1> QED
  BY <1>1, <1>2, <1>5, FS_SurjCardinalityBound

LEMMA InitIsStream == Init => InOrder /\ Stream!Init
BY FrameAssumption DEF Init, InOrder, Ordered, AllQueued, Frames, Stream!Init, Stream!Frames

(* Every step is a step of the stream, or leaves it alone. *)
LEMMA StepIsStream == ASSUME IInv, InOrder, [Next]_vars PROVE [Stream!Next]_fate
<1>1. /\ StreamMove /\ TypeOK /\ FramesAreSomewhere
      /\ queue \in Seq(Frames) /\ Len(queue) \in Nat /\ fate \in [Frames -> Fates]
  BY EveryStepMoves DEF IInv, TypeOK
<1>2. Stream!Frames = Frames /\ Frames \subseteq Int
  BY DEF Frames, Stream!Frames
<1>3. next \in Frames =>
        fate[next] = "none" /\ \A g \in Frames : g < next => fate[g] # "none"
  BY <1>1, <1>2 DEF InOrder, TypeOK
<1>4. queue # <<>> => Head(queue) \in Frames /\ Stream!Oldest(Head(queue))
  <2>1. SUFFICES ASSUME queue # <<>>
                 PROVE  Head(queue) \in Frames /\ Stream!Oldest(Head(queue))
    OBVIOUS
  <2>2. /\ Head(queue) \in Frames /\ fate[Head(queue)] = "queued"
        /\ \A i \in 1 .. Len(queue) : Head(queue) <= queue[i]
    BY <1>1, <2>1, TakingKeepsOrder DEF InOrder, Fates
  <2>3. \A g \in Stream!Waiting : Head(queue) <= g
    BY <1>1, <2>2, QueueBoundsWaiting
  <2> QED
    BY <1>2, <2>2, <2>3 DEF Stream!Oldest, Stream!Waiting
<1>5. CASE TurnsAway
  <2>1. Stream!Offer(next)
    <3>1. PICK what \in {"refused", "dropped"} : Stream!Decide(next, what)
      BY <1>5 DEF TurnsAway, Become, Stream!Decide
    <3>2. next \in Frames
      BY <1>5 DEF TurnsAway
    <3> QED
      BY <1>2, <1>3, <3>1, <3>2 DEF Stream!Offer
  <2> QED
    BY <1>2, <1>5, <2>1 DEF TurnsAway, Stream!Next
<1>6. CASE Enqueues
  <2>1. Cardinality(Stream!Waiting) < Capacity
    <3>1. Stream!Waiting \subseteq Frames /\ IsFiniteSet(Frames)
      BY <1>2, FrameAssumption, FS_Interval DEF Frames, Stream!Waiting
    <3>2. Cardinality(Stream!Waiting) \in Nat
      BY <3>1, FS_Subset, FS_CardinalityType
    <3>3. Cardinality(Stream!Waiting) <= Len(queue) /\ Len(queue) < Capacity
      BY <1>1, <1>6, QueueBoundsWaiting, FrameAssumption DEF Enqueues, Full
    <3> QED
      BY <1>1, <3>2, <3>3, FrameAssumption
  <2>2. Stream!Offer(next)
    <3>1. next \in Frames /\ Stream!Decide(next, "queued")
      BY <1>6 DEF Enqueues, Become, Stream!Decide
    <3>2. Stream!Cardinality(Stream!Waiting) = Cardinality(Stream!Waiting)
      BY DEF Cardinality, Stream!Cardinality
    <3> QED
      BY <1>2, <1>3, <2>1, <3>1, <3>2 DEF Stream!Offer
  <2> QED
    BY <1>2, <1>6, <2>2 DEF Enqueues, Stream!Next
<1>7. CASE GivesUp
  <2>1. Stream!GiveUp(Head(queue))
    BY <1>4, <1>7 DEF GivesUp, Become, Stream!GiveUp, Stream!Decide
  <2> QED
    BY <1>2, <1>4, <1>7, <2>1 DEF GivesUp, Stream!Next
<1>8. CASE Takes
  <2>1. \A g \in Frames : fate[g] # "taken"
    BY <1>1, <1>8 DEF Takes, FramesAreSomewhere
  <2>2. Stream!Take(Head(queue))
    BY <1>2, <1>4, <1>8, <2>1 DEF Takes, Become, Stream!Take, Stream!Decide
  <2> QED
    BY <1>2, <1>4, <1>8, <2>2 DEF Takes, Stream!Next
<1>9. CASE Finishes
  <2>1. writing \in Frames /\ Stream!Finish(writing)
    BY <1>9 DEF Finishes, InOrder, Become, Stream!Finish, Stream!Decide
  <2> QED
    BY <1>2, <2>1 DEF Stream!Next
<1>10. CASE LeavesAlone
  BY <1>10 DEF LeavesAlone
<1> QED
  BY <1>1, <1>5, <1>6, <1>7, <1>8, <1>9, <1>10 DEF StreamMove

(* The sink is given the frames in the order they were published, one at a   *)
(* time, and what became of a frame is decided once, although owner and      *)
(* worker both remove frames from the queue.                                *)
THEOREM PublisherIsStream == Spec => ImplementsStream
<1>1. IInv /\ InOrder /\ [Next]_vars => InOrder'
  BY OrderKept
<1>2. IInv /\ InOrder /\ [Next]_vars => [Stream!Next]_fate
  BY StepIsStream
<1> QED
  BY <1>1, <1>2, InitIsStream, FramesInvariant, PTL DEF Spec, ImplementsStream, Stream!Spec

-----------------------------------------------------------------------------
(* What the stream promises, the publisher keeps. *)

(* When a frame was given to the sink, every earlier one is decided. *)
SinkInOrder ==
  \A f, g \in Frames :
    g < f /\ fate[f] \in {"taken", "written", "failed"}
      => fate[g] \notin {"none", "queued", "taken"}

Decided == {"refused", "written", "failed", "dropped", "aborted"}

StreamInv ==
  /\ fate \in [Frames -> Fates]
  /\ \A f, g \in Frames : g < f /\ fate[f] # "none" => fate[g] # "none"
  /\ SinkInOrder

LEMMA StreamKeepsOrder ==
  ASSUME StreamInv, [Stream!Next]_fate
  PROVE  StreamInv' /\ \A f \in Frames : fate[f] \in Decided => fate'[f] = fate[f]
<1>1. Stream!Frames = Frames /\ Frames \subseteq Int /\ fate \in [Frames -> Fates]
  BY DEF Frames, Stream!Frames, StreamInv
<1>2. CASE UNCHANGED fate
  BY <1>2 DEF StreamInv, SinkInOrder
<1>3. CASE Stream!Next
  <2>1. PICK f \in Frames :
          Stream!Offer(f) \/ Stream!GiveUp(f) \/ Stream!Take(f) \/ Stream!Finish(f)
    BY <1>1, <1>3 DEF Stream!Next
  <2>2. CASE Stream!Offer(f)
    <3>1. PICK what \in {"queued", "refused", "dropped"} :
            /\ fate' = [fate EXCEPT ![f] = what] /\ fate[f] = "none"
            /\ \A g \in Frames : g < f => fate[g] # "none"
      BY <1>1, <2>2 DEF Stream!Offer, Stream!Decide
    <3> QED
      BY <1>1, <3>1 DEF StreamInv, SinkInOrder, Fates, Decided
  <2>3. CASE Stream!GiveUp(f)
    <3>1. PICK what \in {"dropped", "aborted"} :
            fate' = [fate EXCEPT ![f] = what] /\ fate[f] = "queued"
      BY <2>3 DEF Stream!GiveUp, Stream!Oldest, Stream!Waiting, Stream!Decide
    <3> QED
      BY <1>1, <3>1 DEF StreamInv, SinkInOrder, Fates, Decided
  <2>4. CASE Stream!Take(f)
    <3>1. /\ fate' = [fate EXCEPT ![f] = "taken"] /\ fate[f] = "queued"
          /\ \A g \in Frames : g < f => fate[g] # "queued"
          /\ \A g \in Frames : fate[g] # "taken"
      BY <1>1, <2>4 DEF Stream!Take, Stream!Oldest, Stream!Waiting, Stream!Decide
    <3> QED
      BY <1>1, <3>1 DEF StreamInv, SinkInOrder, Fates, Decided
  <2>5. CASE Stream!Finish(f)
    <3>1. PICK what \in {"written", "failed"} :
            fate' = [fate EXCEPT ![f] = what] /\ fate[f] = "taken"
      BY <2>5 DEF Stream!Finish, Stream!Decide
    <3> QED
      BY <1>1, <3>1 DEF StreamInv, SinkInOrder, Fates, Decided
  <2> QED
    BY <2>1, <2>2, <2>3, <2>4, <2>5
<1> QED
  BY <1>2, <1>3

LEMMA StreamInvHolds == Spec => []StreamInv
<1>1. Stream!Init => StreamInv
  BY DEF Stream!Init, Stream!Frames, StreamInv, SinkInOrder, Frames, Fates
<1>2. StreamInv /\ [Stream!Next]_fate => StreamInv'
  BY StreamKeepsOrder
<1> QED
  BY <1>1, <1>2, PublisherIsStream, PTL DEF ImplementsStream, Stream!Spec

(* The sink sees the frames in the order publish was called: none is written *)
(* while an earlier one still waits or is still to come.                    *)
THEOREM SinkSeesOrder == Spec => []SinkInOrder
<1>1. StreamInv => SinkInOrder
  BY DEF StreamInv
<1> QED
  BY <1>1, StreamInvHolds, PTL

(* A frame refused, dropped, aborted, written or failed stays what it is:    *)
(* the discards of close and of a failed worker never count a frame twice.  *)
THEOREM FatesAreFinal ==
  Spec => [][\A f \in Frames : fate[f] \in Decided => fate'[f] = fate[f]]_fate
<1>1. StreamInv /\ [Stream!Next]_fate
        => [\A f \in Frames : fate[f] \in Decided => fate'[f] = fate[f]]_fate
  BY StreamKeepsOrder
<1> QED
  BY <1>1, StreamInvHolds, PublisherIsStream, PTL DEF ImplementsStream, Stream!Spec

-----------------------------------------------------------------------------
(* The variant behind WorkerEnds. *)

(* A publish that is half-way through may still add a frame. *)
Puts == IF owner \in {"checking", "putting", "dropping"} THEN 1 ELSE 0

(* Where the worker is in its round, and whether that round will find a frame. *)
Stage ==
  IF worker = "writing" THEN 5
  ELSE IF worker = "loop" THEN IF queue = <<>> THEN 1 ELSE 4
  ELSE IF worker = "getting" THEN IF queue = <<>> THEN 2 ELSE 3
  ELSE IF worker = "discarding" THEN 2 ELSE 0

(* How far a stopped worker is from its end. *)
Ahead == 10 * Puts + 5 * Len(queue) + Stage

WorkerProgresses ==
  [][stopped /\ worker # "dead" =>
       Ahead' <= Ahead /\ (WorkerStep => Ahead' < Ahead)]_vars

LEMMA AheadIsNat == TypeOK => Ahead \in Nat
BY DEF TypeOK, Ahead, Puts, Stage

LEMMA StepsBringEndCloser ==
  ASSUME IInv, IInv', Next, stopped, worker # "dead"
  PROVE  Ahead' <= Ahead /\ (WorkerStep => Ahead' < Ahead)
<1>1. /\ queue \in Seq(Frames) /\ Len(queue) \in Nat /\ Len(queue') \in Nat
      /\ queue = <<>> <=> Len(queue) = 0
      /\ queue' = <<>> <=> Len(queue') = 0
      /\ queue # <<>> => Len(Tail(queue)) = Len(queue) - 1
      /\ Len(Append(queue, next)) = Len(queue) + 1
  BY DEF IInv, TypeOK
<1>2. /\ Puts \in {0, 1} /\ Puts' \in {0, 1} /\ Stage \in 0 .. 5 /\ Stage' \in 0 .. 5
      /\ Ahead = 10 * Puts + 5 * Len(queue) + Stage
      /\ Ahead' = 10 * Puts' + 5 * Len(queue') + Stage'
  BY DEF Puts, Stage, Ahead
<1> DEFINE NoNewPut == Puts' = Puts \/ Puts = 1
           Holds == worker' = worker /\ NoNewPut /\ queue' = queue
<1>a. ASSUME Holds PROVE Ahead' <= Ahead
  <2>1. Stage' = Stage
    BY <1>a DEF Stage
  <2> QED
    BY <1>1, <1>2, <1>a, <2>1
<1>3. ASSUME BeginPublish \/ CheckStop \/ PutTimesOut \/ RejectFrame \/ FindFull PROVE Ahead' <= Ahead
  <2>1. Holds
    BY <1>3 DEF BeginPublish, CheckStop, PutTimesOut, RejectFrame, FindFull, Return, policyVars, Become, Puts
  <2> QED
    BY <1>a, <2>1
<1>4. ASSUME BeginClose \/ Join \/ CloseSink \/ RestartWorker PROVE Ahead' <= Ahead
  <2>1. thread
    BY DEF IInv, CloseFollowsWorker
  <2>2. Holds
    BY <1>4, <2>1 DEF BeginClose, Join, CloseSink, RestartWorker, policyVars, Become, Puts
  <2> QED
    BY <1>a, <2>2
<1>5. ASSUME PutFrame PROVE Ahead' <= Ahead
  <2>1. worker' = worker /\ Puts = 1 /\ Puts' = 0 /\ Len(queue') = Len(queue) + 1
    BY <1>1, <1>5 DEF PutFrame, Return, policyVars, Become, Puts
  <2> QED
    BY <1>1, <1>2, <2>1
<1>6. ASSUME DropOldest \/ OwnerDiscards PROVE Ahead' <= Ahead
  <2>1. ASSUME queue = <<>> PROVE Ahead' <= Ahead
    <3>1. Holds
      BY <1>6, <2>1 DEF DropOldest, OwnerDiscards, policyVars, Become, Puts
    <3> QED
      BY <1>a, <3>1
  <2>2. ASSUME queue # <<>> PROVE Ahead' <= Ahead
    <3>1. worker' = worker /\ NoNewPut /\ queue' = Tail(queue)
      BY <1>6, <2>2 DEF DropOldest, OwnerDiscards, policyVars, Become, Puts
    <3>2. Stage' <= Stage
      BY <2>2, <3>1 DEF Stage
    <3> QED
      BY <1>1, <1>2, <2>2, <3>1, <3>2
  <2> QED
    BY <2>1, <2>2
<1>7. ASSUME WorkerStep PROVE Ahead' < Ahead
  <2>1. Puts' = Puts
    BY <1>7 DEF WorkerStep, WorkerLoop, TakeFrame, WriteFrame, WriteFails, WorkerDiscards, policyVars, Become, Puts
  <2>2. CASE WorkerLoop
    <3>1. queue' = queue /\ Stage' < Stage
      BY <2>2 DEF WorkerLoop, WorkerDone, policyVars, Become, Stage
    <3> QED
      BY <1>1, <1>2, <2>1, <3>1
  <2>3. CASE TakeFrame
    <3>1. CASE queue = <<>>
      <4>1. queue' = queue /\ Stage' < Stage
        BY <2>3, <3>1 DEF TakeFrame, policyVars, Become, Stage
      <4> QED
        BY <1>1, <1>2, <2>1, <4>1
    <3>2. CASE queue # <<>>
      <4>1. queue' = Tail(queue) /\ Stage = 3 /\ Stage' = 5
        BY <2>3, <3>2 DEF TakeFrame, policyVars, Become, Stage
      <4> QED
        BY <1>1, <1>2, <2>1, <3>2, <4>1
    <3> QED
      BY <3>1, <3>2
  <2>4. CASE WriteFrame \/ WriteFails
    <3>1. queue' = queue /\ Stage = 5 /\ worker' \in {"loop", "discarding"}
      BY <2>4 DEF WriteFrame, WriteFails, Stage
    <3>2. Stage' < Stage
      BY <3>1 DEF Stage
    <3> QED
      BY <1>1, <1>2, <2>1, <3>1, <3>2
  <2>5. CASE WorkerDiscards
    <3>1. CASE queue = <<>>
      <4>1. queue' = queue /\ Stage' < Stage
        BY <2>5, <3>1 DEF WorkerDiscards, policyVars, Become, Stage
      <4> QED
        BY <1>1, <1>2, <2>1, <4>1
    <3>2. CASE queue # <<>>
      <4>1. queue' = Tail(queue) /\ Stage' = Stage
        BY <2>5, <3>2 DEF WorkerDiscards, policyVars, Become, Stage
      <4> QED
        BY <1>1, <1>2, <2>1, <3>2, <4>1
    <3> QED
      BY <3>1, <3>2
  <2> QED
    BY <1>7, <2>2, <2>3, <2>4, <2>5 DEF WorkerStep
<1>8. Ahead' <= Ahead
  BY <1>1, <1>2, <1>3, <1>4, <1>5, <1>6, <1>7 DEF Next, PublishStep, CloseStep
<1> QED
  BY <1>7, <1>8

(* A stopped worker comes closer to its end with every step it takes, and no *)
(* step of the owner, a late put included, takes it further away.           *)
THEOREM StoppedWorkerProgresses == Spec => WorkerProgresses
<1>1. IInv /\ IInv' /\ [Next]_vars =>
        [stopped /\ worker # "dead" =>
           Ahead' <= Ahead /\ (WorkerStep => Ahead' < Ahead)]_vars
  BY StepsBringEndCloser
<1> QED
  BY <1>1, FramesInvariant, PTL DEF Spec, WorkerProgresses
=============================================================================
