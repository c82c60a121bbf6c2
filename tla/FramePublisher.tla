---------------------------- MODULE FramePublisher ----------------------------
(***************************************************************************)
(* CameraFramePublisher (sensors/camera/recorder.py): the owner thread     *)
(* hands frames to a bounded queue and closes the publisher, a worker      *)
(* thread writes them to the sink.  The two share the queue, the stop      *)
(* event and last_error; a step is what a thread does between two of them. *)
(***************************************************************************)
EXTENDS Integers, Sequences

CONSTANTS
  Capacity,        \* max_queue_size
  MaxFrames        \* bound: frames the owner publishes, numbered in order

ASSUME FrameAssumption == Capacity \in Nat \ {0} /\ MaxFrames \in Nat

OverflowPolicies == {"block", "drop_oldest", "drop_newest", "error"}
ShutdownPolicies == {"drain", "discard"}
Frames == 1 .. MaxFrames
Fates == {"none", "refused", "queued", "taken", "written", "failed", "dropped", "aborted"}

VARIABLES
  overflow, shutdown,      \* the policies
  queue, stopped, lastError, sinkClosed,
  thread,      \* the publisher holds a worker thread
  owner,       \* where the owner thread is: in publish, in close or outside
  worker,      \* where the worker thread is
  writing,     \* the frame the worker took, 0 for none
  next,        \* the next frame
  fate         \* history: what became of each frame handed over

policyVars == <<overflow, shutdown>>
vars == <<policyVars, queue, stopped, lastError, sinkClosed, thread, owner,
          worker, writing, next, fate>>

Become(frame, what) == fate' = [fate EXCEPT ![frame] = what]
Full == Len(queue) >= Capacity

(* publish leaves the owner free for the next frame. *)
Return == owner' = "outside" /\ next' = next + 1

-----------------------------------------------------------------------------
(* Owner: publish *)

BeginPublish ==
  /\ owner = "outside" /\ next <= MaxFrames
  /\ IF stopped
       THEN Become(next, "refused") /\ Return
       ELSE /\ owner' = IF overflow = "block" THEN "checking" ELSE "putting"
            /\ UNCHANGED <<fate, next>>
  /\ UNCHANGED <<policyVars, queue, stopped, lastError, sinkClosed, thread, worker, writing>>

(* The put finds room, under any policy, whatever happened since the event  *)
(* was read.                                                               *)
PutFrame_IgnoresCapacity ==
  /\ owner = "putting"
  /\ queue' = Append(queue, next)
  /\ Become(next, "queued")
  /\ Return
  /\ UNCHANGED <<policyVars, stopped, lastError, sinkClosed, thread, worker, writing>>
PutFrame ==
  /\ owner = "putting" /\ ~Full
  /\ queue' = Append(queue, next)
  /\ Become(next, "queued")
  /\ Return
  /\ UNCHANGED <<policyVars, stopped, lastError, sinkClosed, thread, worker, writing>>

(* "block": a put is tried only while nobody failed or closes ...           *)
CheckStop ==
  /\ owner = "checking"
  /\ IF stopped
       THEN Become(next, "refused") /\ Return
       ELSE owner' = "putting" /\ UNCHANGED <<next, fate>>
  /\ UNCHANGED <<policyVars, queue, stopped, lastError, sinkClosed, thread, worker, writing>>

(* ... and times out on a queue that stays full.                           *)
PutTimesOut ==
  /\ owner = "putting" /\ overflow = "block" /\ Full
  /\ owner' = "checking"
  /\ UNCHANGED <<policyVars, queue, stopped, lastError, sinkClosed, thread, worker, writing, next, fate>>

RejectFrame ==
  /\ owner = "putting" /\ Full
  /\ \/ overflow = "drop_newest" /\ Become(next, "dropped")
     \/ overflow = "error" /\ Become(next, "refused")
  /\ Return
  /\ UNCHANGED <<policyVars, queue, stopped, lastError, sinkClosed, thread, worker, writing>>

(* "drop_oldest": the put found the queue full ... *)
FindFull ==
  /\ owner = "putting" /\ overflow = "drop_oldest" /\ Full
  /\ owner' = "dropping"
  /\ UNCHANGED <<policyVars, queue, stopped, lastError, sinkClosed, thread, worker, writing, next, fate>>

(* ... and makes room, unless the worker has emptied the queue by now.      *)
DropOldest_DropsNewest ==
  /\ owner = "dropping"
  /\ IF queue = <<>>
       THEN UNCHANGED <<queue, fate>>
       ELSE /\ queue' = SubSeq(queue, 1, Len(queue) - 1)
            /\ Become(queue[Len(queue)], "dropped")
  /\ owner' = "putting"
  /\ UNCHANGED <<policyVars, stopped, lastError, sinkClosed, thread, worker, writing, next>>
DropOldest ==
  /\ owner = "dropping"
  /\ IF queue = <<>>
       THEN UNCHANGED <<queue, fate>>
       ELSE queue' = Tail(queue) /\ Become(Head(queue), "dropped")
  /\ owner' = "putting"
  /\ UNCHANGED <<policyVars, stopped, lastError, sinkClosed, thread, worker, writing, next>>

-----------------------------------------------------------------------------
(* Owner: close *)

BeginClose_AlwaysDiscards ==
  /\ owner = "outside"
  /\ stopped' = TRUE
  /\ owner' = "discarding"
  /\ UNCHANGED <<policyVars, queue, lastError, sinkClosed, thread, worker, writing, next, fate>>
BeginClose ==
  /\ owner = "outside"
  /\ stopped' = TRUE
  /\ owner' = IF shutdown = "discard" THEN "discarding" ELSE "restarting"
  /\ UNCHANGED <<policyVars, queue, lastError, sinkClosed, thread, worker, writing, next, fate>>

OwnerDiscards ==
  /\ owner = "discarding"
  /\ IF queue = <<>>
       THEN owner' = "restarting" /\ UNCHANGED <<queue, fate>>
       ELSE queue' = Tail(queue) /\ Become(Head(queue), "aborted") /\ UNCHANGED owner
  /\ UNCHANGED <<policyVars, stopped, lastError, sinkClosed, thread, worker, writing, next>>

(* Frames left without a worker get a new one. *)
RestartWorker ==
  /\ owner = "restarting"
  /\ IF ~thread /\ shutdown = "drain" /\ queue # <<>>
       THEN thread' = TRUE /\ worker' = "loop"
       ELSE UNCHANGED <<thread, worker>>
  /\ owner' = "joining"
  /\ UNCHANGED <<policyVars, queue, stopped, lastError, sinkClosed, writing, next, fate>>

(* The worker is joined in time, or close returns False. *)
Join_DoesNotWait ==
  /\ owner = "joining"
  /\ thread' = FALSE /\ owner' = "closing"
  /\ UNCHANGED <<policyVars, queue, stopped, lastError, sinkClosed, worker, writing, next, fate>>
Join ==
  /\ owner = "joining"
  /\ IF thread /\ worker # "dead"
       THEN owner' = "outside" /\ UNCHANGED thread
       ELSE owner' = "closing" /\ thread' = FALSE
  /\ UNCHANGED <<policyVars, queue, stopped, lastError, sinkClosed, worker, writing, next, fate>>

(* sink.close may raise; then close can be called again. *)
CloseSink ==
  /\ owner = "closing"
  /\ sinkClosed' \in {sinkClosed, TRUE}
  /\ owner' = "outside"
  /\ UNCHANGED <<policyVars, queue, stopped, lastError, thread, worker, writing, next, fate>>

-----------------------------------------------------------------------------
(* Worker: _run *)

WorkerDone_AtOnce == stopped
WorkerDone_Never == FALSE
WorkerDone == stopped /\ (shutdown = "discard" \/ queue = <<>>)

WorkerLoop ==
  /\ worker = "loop"
  /\ worker' = IF WorkerDone THEN "dead" ELSE "getting"
  /\ UNCHANGED <<policyVars, queue, stopped, lastError, sinkClosed, thread, owner, writing, next, fate>>

TakeFrame ==
  /\ worker = "getting"
  /\ IF queue = <<>>
       THEN worker' = "loop" /\ UNCHANGED <<queue, writing, fate>>
       ELSE /\ queue' = Tail(queue)
            /\ writing' = Head(queue)
            /\ Become(Head(queue), "taken")
            /\ worker' = "writing"
  /\ UNCHANGED <<policyVars, stopped, lastError, sinkClosed, thread, owner, next>>

WriteFrame ==
  /\ worker = "writing"
  /\ Become(writing, "written")
  /\ writing' = 0
  /\ worker' = "loop"
  /\ UNCHANGED <<policyVars, queue, stopped, lastError, sinkClosed, thread, owner, next>>

(* The sink raises: the worker notes the error, stops the publisher and     *)
(* empties the queue.                                                      *)
WriteFails_DiesSilently ==
  /\ worker = "writing"
  /\ Become(writing, "failed")
  /\ writing' = 0
  /\ worker' = "dead"
  /\ UNCHANGED <<policyVars, queue, stopped, lastError, sinkClosed, thread, owner, next>>
WriteFails ==
  /\ worker = "writing"
  /\ Become(writing, "failed")
  /\ writing' = 0
  /\ lastError' = TRUE
  /\ stopped' = TRUE
  /\ worker' = "discarding"
  /\ UNCHANGED <<policyVars, queue, sinkClosed, thread, owner, next>>

WorkerDiscards ==
  /\ worker = "discarding"
  /\ IF queue = <<>>
       THEN worker' = "dead" /\ UNCHANGED <<queue, fate>>
       ELSE queue' = Tail(queue) /\ Become(Head(queue), "aborted") /\ UNCHANGED worker
  /\ UNCHANGED <<policyVars, stopped, lastError, sinkClosed, thread, owner, writing, next>>

-----------------------------------------------------------------------------
PublishStep == PutFrame \/ CheckStop \/ PutTimesOut \/ RejectFrame \/ FindFull \/ DropOldest
CloseStep == OwnerDiscards \/ RestartWorker \/ Join \/ CloseSink
WorkerStep == WorkerLoop \/ TakeFrame \/ WriteFrame \/ WriteFails \/ WorkerDiscards

(* start has been called: the observer does so when it makes the publisher. *)
Init ==
  /\ overflow \in OverflowPolicies /\ shutdown \in ShutdownPolicies
  /\ queue = <<>>
  /\ stopped = FALSE /\ lastError = FALSE /\ sinkClosed = FALSE
  /\ thread = TRUE /\ owner = "outside"
  /\ worker = "loop" /\ writing = 0
  /\ next = 1
  /\ fate = [f \in Frames |-> "none"]

Next == BeginPublish \/ BeginClose \/ PublishStep \/ CloseStep \/ WorkerStep

(* A thread inside a call goes on; a write ends.  Nobody has to publish or  *)
(* close.                                                                  *)
Fairness == WF_vars(PublishStep) /\ WF_vars(CloseStep) /\ WF_vars(WorkerStep)

Spec == Init /\ [][Next]_vars /\ Fairness

-----------------------------------------------------------------------------
(* Properties *)

(* Every variable keeps its shape; the queue keeps within its bound. *)
TypeOK ==
  /\ overflow \in OverflowPolicies /\ shutdown \in ShutdownPolicies
  /\ queue \in Seq(Frames) /\ Len(queue) <= Capacity
  /\ stopped \in BOOLEAN /\ lastError \in BOOLEAN
  /\ sinkClosed \in BOOLEAN /\ thread \in BOOLEAN
  /\ owner \in {"outside", "checking", "putting", "dropping", "discarding", "restarting", "joining", "closing"}
  /\ worker \in {"loop", "getting", "writing", "discarding", "dead"}
  /\ writing \in Frames \cup {0}
  /\ next \in 1 .. MaxFrames + 1
  /\ fate \in [Frames -> Fates]

(* A closed publisher that drains has written everything it accepted and    *)
(* did not drop, unless the sink failed: the owner stops putting, the       *)
(* worker sees the stop and the last frame in either order.                *)
DrainIsComplete ==
  sinkClosed /\ shutdown = "drain" /\ ~lastError =>
    \A f \in Frames : fate[f] \notin {"queued", "taken", "aborted"}

(* "block preserves frames" (docs/en/guides/cameras.md:171): while the sink *)
(* works, no frame is lost between the owner's put and the worker's write.  *)
BlockLosesNothing ==
  overflow = "block" /\ shutdown = "drain" /\ ~lastError =>
    \A f \in Frames : fate[f] \notin {"dropped", "aborted", "failed"}

(* A working sink is never closed under the worker's feet, nor written to   *)
(* once it was closed: close returns False while the worker lives.          *)
SinkUsedAlone == sinkClosed /\ ~lastError => worker = "dead"

(* The frames are a stream: offered in order, never more than the capacity  *)
(* waiting, taken oldest first and one at a time although owner and worker  *)
(* both remove frames, and each with one final fate.                       *)
Stream == INSTANCE FrameStream
ImplementsStream == Stream!Spec

(* A producer blocked on a full queue is released, by the worker taking a   *)
(* frame, by its failure or by its end.                                    *)
BlockedProducerIsReleased ==
  owner \in {"checking", "putting"} ~> owner \notin {"checking", "putting"}

(* Once the publisher is stopped the worker ends, although frames it must   *)
(* still write may be queued and the owner may be half-way through a put.   *)
WorkerEnds == stopped ~> worker = "dead"

=============================================================================
