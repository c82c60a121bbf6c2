------------------------- MODULE MirrorService_proof -------------------------
(***************************************************************************)
(* The Mirror service keeps its invariants for every number of clients,    *)
(* ids, requests, slots and ticks: its steps are queue calls, so the       *)
(* queue's proved invariant holds here too, and what the owner thread may  *)
(* do at each place of its loop follows from the queue's flags.  Then that *)
(* it implements RequestLifecycle, what follows from that alone, and the   *)
(* measure by which the owner thread comes back to its loop and out of it. *)
(***************************************************************************)
EXTENDS MirrorService, SequenceTheorems, TLAPS

(* The queue again, with the theorems about it.                             *)
QP == INSTANCE MirrorAdmission_proof

(* The service gives the queue constants that satisfy its assumptions.      *)
LEMMA QueueConstants == QP!CapacityAssumption /\ QP!RequestAssumption
  BY QueueAssumption DEF QP!CapacityAssumption, QP!RequestAssumption, Operations, GuardedOperations

(* The two instances of the queue are the same: first the words, then the   *)
(* steps.                                                                   *)
LEMMA SameWords ==
  /\ \A s : Queue!IdsOf(s) = QP!IdsOf(s)
  /\ Queue!ActiveIds = QP!ActiveIds
  /\ \A s, i : Queue!RemoveAt(s, i) = QP!RemoveAt(s, i)
  /\ \A r, b : Queue!Answer(r, b) = QP!Answer(r, b)
  /\ \A s, n : Queue!Retain(s, n) = QP!Retain(s, n)
  /\ Queue!InFlight = QP!InFlight
  /\ Queue!TypeOK = QP!TypeOK
BY DEF Queue!IdsOf, QP!IdsOf, Queue!ActiveIds, QP!ActiveIds, Queue!RemoveAt, QP!RemoveAt,
       Queue!Answer, QP!Answer, Queue!Retain, QP!Retain, Queue!InFlight, QP!InFlight,
       Queue!TypeOK, QP!TypeOK, Queue!Request, QP!Request, Queue!Response, QP!Response

LEMMA SameStep == Queue!Next => QP!Next
<1> SUFFICES ASSUME Queue!Next PROVE QP!Next
  OBVIOUS
<1>1. \A id : Queue!Withdraw(id) => QP!Withdraw(id)
  BY SameWords DEF Queue!Withdraw, QP!Withdraw, Queue!Store, QP!Store
<1>2. Queue!Drain => QP!Drain
  BY SameWords DEF Queue!Drain, QP!Drain, Queue!Store, QP!Store
<1>3. \A r : Queue!Submit(r) => QP!Submit(r)
  BY SameWords DEF Queue!Submit, QP!Submit, Queue!Known, QP!Known
<1>4. \A id : Queue!ReserveImmediate(id) => QP!ReserveImmediate(id)
  BY SameWords DEF Queue!ReserveImmediate, QP!ReserveImmediate, Queue!Known, QP!Known
<1>5. \A id : Queue!CompleteImmediate(id) => QP!CompleteImmediate(id)
  BY SameWords DEF Queue!CompleteImmediate, QP!CompleteImmediate, Queue!Store, QP!Store
<1>6. \A id : Queue!ExpireWait(id) => QP!ExpireWait(id)
  BY <1>1, SameWords DEF Queue!ExpireWait, QP!ExpireWait
<1>7. \A id : Queue!Cancel(id) => QP!Cancel(id)
  BY <1>1, SameWords DEF Queue!Cancel, QP!Cancel
<1>8. Queue!CancelCurrent => QP!CancelCurrent
  BY SameWords DEF Queue!CancelCurrent, QP!CancelCurrent
<1>9. Queue!Estop => QP!Estop
  BY <1>2, SameWords DEF Queue!Estop, QP!Estop
<1>10. Queue!Claim => QP!Claim
  BY DEF Queue!Claim, QP!Claim
<1>11. Queue!Complete => QP!Complete
  BY SameWords DEF Queue!Complete, QP!Complete, Queue!Store, QP!Store
<1>12. Queue!CancelPending => QP!CancelPending
  BY <1>2 DEF Queue!CancelPending, QP!CancelPending
<1>13. Queue!ClearEstop => QP!ClearEstop
  BY DEF Queue!ClearEstop, QP!ClearEstop
<1>14. Queue!Close => QP!Close
  BY <1>2, SameWords DEF Queue!Close, QP!Close
<1> QED
  BY <1>3, <1>4, <1>5, <1>6, <1>7, <1>8, <1>9, <1>10, <1>11, <1>12, <1>13, <1>14
  DEF Queue!Next, QP!Next, Queue!Request, QP!Request

-----------------------------------------------------------------------------
(* Every step of a thread is one call into the queue or leaves it alone.    *)
LEMMA QueueStep ==
  ASSUME client \in [Clients -> ClientState], accepted \in 0 .. MaxSubmissions, [Next]_vars
  PROVE  [Queue!Next]_queueVars
<1> SUFFICES ASSUME Next, ~UNCHANGED queueVars PROVE Queue!Next
  BY DEF vars
<1>1. ASSUME NEW c \in Clients, NEW id \in RequestIds, NEW op \in Operations, SubmitRequest(c,
id, op)
      PROVE  Queue!Next
  <2>1. accepted + 1 \in Tickets
    BY <1>1, ServiceAssumption DEF SubmitRequest
  <2>2. [id |-> id, op |-> op, ticket |-> accepted + 1] \in Queue!Request
    BY <2>1 DEF Queue!Request
  <2> QED
    BY <1>1, <2>2 DEF SubmitRequest, Queue!Next
<1>2. ASSUME NEW c \in Clients, NEW id \in RequestIds, NEW op \in OutOfBand,
ReserveOutOfBand(c, id, op)
      PROVE  Queue!Next
  BY <1>2 DEF ReserveOutOfBand, Queue!Next
<1>3. ASSUME NEW c \in Clients, ClientStep(c)
      PROVE  Queue!Next
  <2>1. client[c] \in ClientState
    OBVIOUS
  <2>2. CASE WaitReturns(c)
    BY <2>2 DEF WaitReturns
  <2>3. CASE WaitExpires(c)
    <3>1. client[c].id \in RequestIds
      BY <2>1, <2>3 DEF WaitExpires, ClientState, Idle
    <3> QED
      BY <2>3, <3>1 DEF WaitExpires, Queue!Next
  <2>4. CASE ApplyOutOfBand(c)
    <3>1. \/ \E target \in RequestIds : Queue!Cancel(target)
          \/ Queue!CancelCurrent
          \/ Queue!Estop
      BY <2>4 DEF ApplyOutOfBand
    <3> QED
      BY <3>1 DEF Queue!Next
  <2>5. CASE CompleteOutOfBand(c)
    <3>1. client[c].id \in RequestIds
      BY <2>1, <2>5 DEF CompleteOutOfBand, ClientState, Idle
    <3> QED
      BY <2>5, <3>1 DEF CompleteOutOfBand, Queue!Next
  <2> QED
    BY <1>3, <2>2, <2>3, <2>4, <2>5 DEF ClientStep
<1>4. CASE RequestQuit \/ AppCloses \/ Interrupt
  BY <1>4 DEF RequestQuit, AppCloses, Interrupt
<1>5. CASE OwnerStep
  <2>1. \/ TakeRequest \/ BeginReset \/ Unlatch \/ Respond \/ CloseController
        \/ UNCHANGED queueVars
    BY <1>5 DEF OwnerStep, LoopContinues, LeaveLoop, PollTimesOut, AfterPoll, IdleTick, BeginMotion, BeginHybrid,
       BeginMutate, BeginRestore, BeginQuery, MotionCheck, MotionTick, RampTick, Handover, Apply,
       HoldTick, CloseControllerAgain
  <2> QED
    BY <2>1 DEF TakeRequest, BeginReset, Unlatch, Respond, CloseController, Queue!Next
<1> QED
  BY <1>1, <1>2, <1>3, <1>4, <1>5 DEF Next

-----------------------------------------------------------------------------
(* The inductive invariant *)

(* How many ticks the owner may still owe where it is. *)
OwnerTicks ==
  /\ At("idle") => owner.left \in 1 .. IdleTicks
  /\ At("check") => owner.left \in 0 .. MotionTicks
  /\ At("tick") => owner.left \in 1 .. MotionTicks
  /\ At("ramp") => owner.left \in 1 .. RampTicks
  /\ At("hold") => owner.left \in 1 .. IdleTicks

(* Under the latch what the owner has in hand never exceeds what is left of *)
(* what it had in hand when the latch was set, kind by kind; a reset it     *)
(* claims brings its own hold.                                             *)
LateBudget ==
  estopped =>
    /\ inHand["idle"] >= 0 /\ inHand["tick"] >= 0 /\ inHand["ramp"] >= 0
    /\ inHand["hold"] >= 0 /\ inHand["mutation"] >= 0
    /\ At("idle") => inHand["idle"] >= owner.left
    /\ At("tick") => inHand["tick"] >= 1
    /\ At("ramp") => inHand["ramp"] >= owner.left
    /\ owner.pc \in {"check", "tick"} /\ active.op = "hybrid" => inHand["ramp"] >= RampTicks
    /\ At("hold") => inHand["hold"] >= owner.left
    /\ owner.pc \in {"begin", "apply"} /\ IsReset(active) => inHand["hold"] >= IdleTicks
    /\ At("apply") /\ active.op = "mutate" => inHand["mutation"] >= 1

(* After a fatal mutation the way out is signalled and the owner is on it.  *)
FatalLeaves ==
  fatal =>
    /\ quit \/ ~appRunning
    /\ owner.pc \in {"respond", "loop", "closing", "closing_again", "stopped"}

ClosedAtEnd == owner.pc \in {"closing_again", "stopped"} => closed


(* TypeOK without the queue's part. *)
Shape ==
  /\ client \in [Clients -> ClientState]
  /\ owner \in [pc : OwnerPcs, left : 0 .. MotionTicks + IdleTicks + RampTicks]
  /\ quit \in BOOLEAN /\ appRunning \in BOOLEAN /\ fatal \in BOOLEAN
  /\ accepted \in 0 .. MaxSubmissions
  /\ outcome \in [Tickets -> {"none", "executed", "cleared"}]
  /\ inHand \in [Work -> Int]
  /\ sawLatch \in BOOLEAN /\ interrupted \in BOOLEAN

(* What the owner's loop keeps, given the invariant of the queue. *)
LoopInv ==
  /\ Shape
  /\ OwnerTicks
  /\ ActiveMatchesOwner
  /\ LateBudget
  /\ FatalLeaves
  /\ ClosedAtEnd

IInv == QP!Inv /\ LoopInv

(* Reading the answers off the queue gives each request one of three fates. *)
LEMMA ObserveTyped ==
  ASSUME Shape, ObserveAnswers
  PROVE  outcome' \in [Tickets -> {"none", "executed", "cleared"}]
BY DEF Shape, ObserveAnswers

(* The queue's invariant, carried over. *)
LEMMA QueueInv ==
  ASSUME QP!Inv, Shape, [Next]_vars
  PROVE  QP!Inv'
<1>1. [QP!Next]_(QP!admissionVars)
  <2>1. [Queue!Next]_queueVars
    BY QueueStep DEF Shape
  <2> QED
    BY <2>1, SameStep DEF queueVars, QP!admissionVars
<1> QED
  BY <1>1, QueueConstants, QP!NextKeepsInv

-----------------------------------------------------------------------------
LEMMA NoWorkTyped == NoWork \in [Work -> Int]
BY DEF NoWork

(* The latch is set with the budget of what the owner has in hand.          *)
LEMMA LatchedBudget ==
  ASSUME Shape, OwnerTicks, UNCHANGED <<owner, active>>,
         inHand' = [w \in Work |-> WorkInHand(w)]
  PROVE  inHand' \in [Work -> Int] /\ LateBudget'
<1> USE ServiceAssumption DEF Work
<1>1. /\ inHand'["idle"] = IF At("idle") THEN owner.left ELSE 0
      /\ inHand'["tick"] = IF At("tick") THEN 1 ELSE 0
      /\ inHand'["ramp"] = IF At("ramp") THEN owner.left
                           ELSE IF owner.pc \in {"check", "tick"} /\ active.op = "hybrid" THEN RampTicks
                           ELSE 0
      /\ inHand'["hold"] = IF At("hold") THEN owner.left
                           ELSE IF owner.pc \in {"begin", "apply"} /\ IsReset(active) THEN IdleTicks
                           ELSE 0
      /\ inHand'["mutation"] = IF At("apply") /\ active.op = "mutate" THEN 1 ELSE 0
  BY DEF WorkInHand, At
<1>2. owner.left \in Nat
  BY DEF Shape
<1>3. \A w \in Work : inHand'[w] \in Nat
  BY <1>1, <1>2
<1>4. DOMAIN inHand' = Work /\ inHand' = [w \in Work |-> inHand'[w]]
  OBVIOUS
<1>5. inHand' \in [Work -> Int]
  BY <1>3, <1>4
<1> QED
  BY <1>1, <1>2, <1>3, <1>5 DEF LateBudget, IsReset, At, OwnerTicks

(* The steps of an ingress thread inside a call disturb the owner only by   *)
(* the latch and the quit event.                                            *)
LEMMA ClientsKeep ==
  ASSUME IInv, NEW c \in Clients, ClientStep(c)
  PROVE  LoopInv'
<1> USE ServiceAssumption DEF IInv, LoopInv
<1>0. /\ client[c] \in ClientState
      /\ estopped \in BOOLEAN /\ closed \in BOOLEAN
  BY DEF Shape, QP!Inv, QP!TypeOK
<1>1. CASE WaitReturns(c)
  <2>1. Shape'
    BY <1>1 DEF WaitReturns, historyVars, Shape, ClientState
  <2> QED
    BY <1>1, <2>1 DEF WaitReturns, queueVars, historyVars, OwnerTicks, ActiveMatchesOwner,
       LateBudget, IsReset, Work,
       FatalLeaves, ClosedAtEnd, At
<1>2. CASE WaitExpires(c)
  <2>1. Shape'
    BY <1>2, ObserveTyped DEF WaitExpires, Shape, ClientState
  <2> QED
    BY <1>2, <2>1 DEF WaitExpires, Queue!ExpireWait, OwnerTicks, ActiveMatchesOwner, LateBudget, IsReset, Work,
       FatalLeaves, ClosedAtEnd, At
<1>3. CASE CompleteOutOfBand(c)
  <2>1. Shape'
    BY <1>3, ObserveTyped DEF CompleteOutOfBand, Shape, ClientState
  <2> QED
    BY <1>3, <2>1 DEF CompleteOutOfBand, Queue!CompleteImmediate, OwnerTicks,
       ActiveMatchesOwner, LateBudget, IsReset, Work,
       FatalLeaves, ClosedAtEnd, At
<1>4. CASE ApplyOutOfBand(c)
  <2>1. client[c].pc = "reserved"
    BY <1>4 DEF ApplyOutOfBand
  <2>2. [client[c] EXCEPT !.pc = "applied"] \in ClientState
    BY <1>0, <2>1 DEF ClientState, Idle
  <2>3. client' = [client EXCEPT ![c] = [client[c] EXCEPT !.pc = "applied"]]
    BY <1>4 DEF ApplyOutOfBand, Shape
  <2>4. client' \in [Clients -> ClientState]
    BY <2>2, <2>3 DEF Shape
  <2>5. /\ UNCHANGED <<active, closed, owner, appRunning, fatal, accepted, sawLatch, interrupted>>
        /\ quit => quit'
        /\ quit' \in BOOLEAN
        /\ \/ UNCHANGED <<estopped, inHand>>
           \/ estopped' /\ inHand' = IF estopped THEN inHand ELSE [w \in Work |-> WorkInHand(w)]
    <3>0. UNCHANGED <<owner, appRunning, fatal, accepted, sawLatch, interrupted>>
      BY <1>4 DEF ApplyOutOfBand
    <3>1. \/ (\E target \in RequestIds : Queue!Cancel(target)) /\ UNCHANGED <<quit, inHand>>
          \/ Queue!CancelCurrent /\ UNCHANGED <<quit, inHand>>
          \/ /\ Queue!Estop
             /\ inHand' = IF estopped THEN inHand ELSE [w \in Work |-> WorkInHand(w)]
             /\ UNCHANGED quit
          \/ quit' = TRUE /\ UNCHANGED <<queueVars, inHand>>
      BY <1>4 DEF ApplyOutOfBand
    <3>2. quit \in BOOLEAN
      BY DEF Shape
    <3>3. ASSUME NEW target \in RequestIds, Queue!Cancel(target)
          PROVE  UNCHANGED <<active, closed, estopped>>
      BY <3>3 DEF Queue!Cancel
    <3>4. Queue!CancelCurrent => UNCHANGED <<active, closed, estopped>>
      BY DEF Queue!CancelCurrent
    <3>5. Queue!Estop => UNCHANGED <<active, closed>> /\ estopped'
      BY DEF Queue!Estop
    <3>6. UNCHANGED queueVars => UNCHANGED <<active, closed, estopped>>
      BY DEF queueVars
    <3>7. UNCHANGED <<active, closed>>
      BY <3>1, <3>3, <3>4, <3>5, <3>6
    <3>8. (quit => quit') /\ quit' \in BOOLEAN
      <4>1. UNCHANGED quit \/ quit' = TRUE
        BY <3>1
      <4> QED
        BY <3>2, <4>1
    <3>9. \/ UNCHANGED <<estopped, inHand>>
          \/ estopped' /\ inHand' = IF estopped THEN inHand ELSE [w \in Work |-> WorkInHand(w)]
      BY <3>1, <3>3, <3>4, <3>5, <3>6
    <3> QED
      BY <3>0, <3>7, <3>8, <3>9
  <2>6. CASE UNCHANGED <<estopped, inHand>>
    <3>1. Shape'
      BY <1>4, <2>4, <2>5, <2>6, ObserveTyped DEF ApplyOutOfBand, Shape
    <3> QED
      BY <2>5, <2>6, <3>1 DEF OwnerTicks, ActiveMatchesOwner, LateBudget, IsReset, FatalLeaves,
         ClosedAtEnd, At
  <2>7. CASE estopped' /\ inHand' = IF estopped THEN inHand ELSE [w \in Work |-> WorkInHand(w)]
    <3>1. inHand' \in [Work -> Int] /\ LateBudget'
      <4>1. CASE estopped
        BY <1>0, <2>5, <2>7, <4>1 DEF LateBudget, IsReset, At, Shape
      <4>2. CASE ~estopped
        BY <2>5, <2>7, <4>2, LatchedBudget
      <4> QED
        BY <4>1, <4>2
    <3>2. Shape'
      BY <1>4, <2>4, <2>5, <3>1, ObserveTyped DEF ApplyOutOfBand, Shape
    <3> QED
      BY <2>5, <3>1, <3>2 DEF OwnerTicks, ActiveMatchesOwner, FatalLeaves, ClosedAtEnd, At
  <2> QED
    BY <2>5, <2>6, <2>7
<1> QED
  BY <1>1, <1>2, <1>3, <1>4 DEF ClientStep

(* The owner thread, action by action. *)
LEMMA OwnerKeeps ==
  ASSUME IInv, OwnerStep
  PROVE  LoopInv'
<1> USE ServiceAssumption DEF IInv, LoopInv
<1>0. /\ estopped \in BOOLEAN /\ closed \in BOOLEAN
      /\ inHand \in [Work -> Int]
      /\ owner.left \in 0 .. MotionTicks + IdleTicks + RampTicks
  BY DEF Shape, QP!Inv, QP!TypeOK
<1>1. CASE LeaveLoop
  <2>1. Shape'
    BY <1>0, <1>1 DEF LeaveLoop, Goto, queueVars, historyVars, Shape, OwnerPcs, OwnerTicks, At
  <2> QED
    BY <1>0, <1>1, <2>1 DEF LeaveLoop, Goto, queueVars, historyVars, Shape, OwnerTicks,
       ActiveMatchesOwner, LateBudget, IsReset, Work,
       FatalLeaves, ClosedAtEnd, At
<1>22. CASE LoopContinues
  <2>1. Shape'
    BY <1>0, <1>22 DEF LoopContinues, Goto, queueVars, historyVars, Shape, OwnerPcs, OwnerTicks, At
  <2> QED
    BY <1>0, <1>22, <2>1 DEF LoopContinues, Goto, queueVars, historyVars, Shape,
       OwnerTicks, ActiveMatchesOwner, LateBudget, IsReset, Work,
       FatalLeaves, ClosedAtEnd, At
<1>2. CASE PollTimesOut
  <2>1. Shape'
    BY <1>0, <1>2 DEF PollTimesOut, Goto, queueVars, historyVars, Shape,
       OwnerPcs, OwnerTicks, At
  <2> QED
    BY <1>0, <1>2, <2>1 DEF PollTimesOut, Goto, queueVars, historyVars, Shape,
       OwnerTicks, ActiveMatchesOwner, LateBudget, IsReset, Work,
       FatalLeaves, ClosedAtEnd, At
<1>3. CASE AfterPoll
  <2>1. Shape'
    BY <1>0, <1>3 DEF AfterPoll, queueVars, historyVars, Shape, OwnerPcs, OwnerTicks, At
  <2> QED
    BY <1>0, <1>3, <2>1 DEF AfterPoll, queueVars, historyVars, Shape, OwnerTicks,
       ActiveMatchesOwner, LateBudget, IsReset, Work,
       FatalLeaves, ClosedAtEnd, At
<1>4. CASE IdleTick
  <2>1. Shape'
    BY <1>0, <1>4 DEF IdleTick, Spend, Work, queueVars, Shape, OwnerPcs, OwnerTicks, At
  <2> QED
    BY <1>0, <1>4, <2>1 DEF IdleTick, Spend, Work, queueVars, Shape, OwnerTicks,
       ActiveMatchesOwner, LateBudget, IsReset, Work,
       FatalLeaves, ClosedAtEnd, At
<1>5. CASE BeginMotion
  <2>1. Shape'
    BY <1>0, <1>5 DEF BeginMotion, queueVars, historyVars, Shape, OwnerPcs, OwnerTicks, At
  <2> QED
    BY <1>0, <1>5, <2>1 DEF BeginMotion, GuardedOperations, queueVars, historyVars, Shape,
       OwnerTicks, ActiveMatchesOwner, LateBudget, IsReset, Work,
       FatalLeaves, ClosedAtEnd, At
<1>6. CASE BeginHybrid
  <2>1. Shape'
    BY <1>0, <1>6 DEF BeginHybrid, Queue!ShouldCancel, queueVars, historyVars, Shape, OwnerPcs,
       OwnerTicks, At
  <2> QED
    BY <1>0, <1>6, <2>1 DEF BeginHybrid, Queue!ShouldCancel, queueVars, historyVars, Shape,
       OwnerTicks, ActiveMatchesOwner, LateBudget, IsReset, Work,
       FatalLeaves, ClosedAtEnd, At
<1>7. CASE BeginMutate
  <2>1. Shape'
    BY <1>0, <1>7 DEF BeginMutate, Goto, queueVars, historyVars, Shape, OwnerPcs, OwnerTicks, At
  <2> QED
    BY <1>0, <1>7, <2>1 DEF BeginMutate, Goto, queueVars, historyVars, Shape, OwnerTicks,
       ActiveMatchesOwner, LateBudget, IsReset, Work,
       FatalLeaves, ClosedAtEnd, At
<1>8. CASE BeginRestore
  <2>1. Shape'
    BY <1>0, <1>8 DEF BeginRestore, Goto, queueVars, historyVars, Shape, OwnerPcs, OwnerTicks, At
  <2> QED
    BY <1>0, <1>8, <2>1 DEF BeginRestore, Goto, queueVars, historyVars, Shape, OwnerTicks,
       ActiveMatchesOwner, LateBudget, IsReset, Work,
       FatalLeaves, ClosedAtEnd, At
<1>9. CASE BeginQuery
  <2>1. Shape'
    BY <1>0, <1>9 DEF BeginQuery, Goto, queueVars, historyVars, Shape, OwnerPcs, OwnerTicks, At
  <2> QED
    BY <1>0, <1>9, <2>1 DEF BeginQuery, Goto, queueVars, historyVars, Shape, OwnerTicks,
       ActiveMatchesOwner, LateBudget, IsReset, Work,
       FatalLeaves, ClosedAtEnd, At
<1>10. CASE MotionCheck
  <2>1. Shape'
    BY <1>0, <1>10 DEF MotionCheck, EndOfTicks, StopsTicking, Queue!ShouldCancel, queueVars,
       historyVars, Shape, OwnerPcs, OwnerTicks, At
  <2>2. (OwnerTicks /\ ActiveMatchesOwner)'
    BY <1>0, <1>10, <2>1 DEF MotionCheck, EndOfTicks, StopsTicking, Queue!ShouldCancel,
       queueVars, historyVars, Shape, OwnerTicks, ActiveMatchesOwner, At
  <2>3. LateBudget'
    BY <1>0, <1>10, <2>1 DEF MotionCheck, EndOfTicks, StopsTicking, Queue!ShouldCancel,
       queueVars, historyVars, Shape, OwnerTicks, LateBudget, IsReset, Work, At
  <2>4. (FatalLeaves /\ ClosedAtEnd)'
    BY <1>0, <1>10, <2>1 DEF MotionCheck, EndOfTicks, StopsTicking, Queue!ShouldCancel,
       queueVars, historyVars, Shape, FatalLeaves, ClosedAtEnd, At
  <2> QED
    BY <2>1, <2>2, <2>3, <2>4
<1>11. CASE MotionTick
  <2>1. Shape'
    BY <1>0, <1>11, SMTT(30)
    DEF MotionTick, Spend, Work, EndOfTicks, queueVars, Shape, OwnerPcs, OwnerTicks, At
  <2>2. (OwnerTicks /\ ActiveMatchesOwner)'
    BY <1>0, <1>11, <2>1 DEF MotionTick, EndOfTicks, queueVars, Shape, OwnerTicks,
       ActiveMatchesOwner, At
  <2>3. LateBudget'
    BY <1>0, <1>11, <2>1 DEF MotionTick, Spend, Work, EndOfTicks, queueVars, Shape, OwnerTicks,
       LateBudget, IsReset, At
  <2>4. (FatalLeaves /\ ClosedAtEnd)'
    BY <1>0, <1>11 DEF MotionTick, EndOfTicks, queueVars, FatalLeaves, ClosedAtEnd, At
  <2> QED
    BY <2>1, <2>2, <2>3, <2>4
<1>12. CASE RampTick
  <2>1. Shape'
    BY <1>0, <1>12 DEF RampTick, Spend, Work, queueVars, Shape, OwnerPcs, OwnerTicks, At
  <2> QED
    BY <1>0, <1>12, <2>1 DEF RampTick, Spend, Work, queueVars, Shape, OwnerTicks,
       ActiveMatchesOwner, LateBudget, IsReset, Work,
       FatalLeaves, ClosedAtEnd, At
<1>13. CASE Handover
  <2>1. Shape'
    BY <1>0, <1>13 DEF Handover, Goto, queueVars, historyVars, Shape, OwnerPcs, OwnerTicks, At
  <2> QED
    BY <1>0, <1>13, <2>1 DEF Handover, Goto, queueVars, historyVars, Shape, OwnerTicks,
       ActiveMatchesOwner, LateBudget, IsReset, Work,
       FatalLeaves, ClosedAtEnd, At
<1>14. CASE Apply
  <2>1. owner' \in [pc : OwnerPcs, left : 0 .. MotionTicks + IdleTicks + RampTicks]
    BY <1>0, <1>14 DEF Apply, Committed, Goto, Shape, OwnerPcs
  <2>2. /\ UNCHANGED quit \/ quit' = TRUE
        /\ UNCHANGED appRunning \/ appRunning' = FALSE
        /\ UNCHANGED fatal \/ fatal' = TRUE
        /\ UNCHANGED <<client, accepted, outcome, sawLatch, interrupted>>
        /\ UNCHANGED inHand \/ inHand' = [inHand EXCEPT !["mutation"] = @ - 1]
    BY <1>14 DEF Apply, SignalExit, Spend
  <2>3. quit' \in BOOLEAN /\ appRunning' \in BOOLEAN /\ fatal' \in BOOLEAN
    BY <2>2 DEF Shape
  <2>4. inHand' \in [Work -> Int]
    BY <1>0, <2>2 DEF Work
  <2>5. Shape'
    BY <2>1, <2>2, <2>3, <2>4 DEF Shape
  <2>6. /\ owner'.pc \in {"hold", "unlatch", "respond"}
        /\ owner'.pc = "hold" => IsReset(active) /\ owner' = [pc |-> "hold", left |-> IdleTicks]
    BY <1>14 DEF Apply, Committed, Goto, Shape
  <2>7. LateBudget'
    BY <1>0, <1>14, <2>2, <2>6 DEF Apply, Spend, queueVars, LateBudget, IsReset, Work, At
  <2>8. OwnerTicks' /\ ActiveMatchesOwner' /\ ClosedAtEnd'
    BY <1>14, <2>2, <2>6 DEF Apply, queueVars, OwnerTicks, ActiveMatchesOwner, ClosedAtEnd, At
  <2>9. FatalLeaves'
    BY <1>14 DEF Apply, SignalExit, Goto, Shape, FatalLeaves, At
  <2> QED
    BY <2>5, <2>7, <2>8, <2>9
<1>15. CASE HoldTick
  <2>1. /\ UNCHANGED <<queueVars, client, quit, appRunning, fatal, accepted, outcome, sawLatch, interrupted>>
        /\ \/ /\ inHand' = IF estopped THEN [inHand EXCEPT !["hold"] = @ - 1] ELSE inHand
              /\ \/ owner' = [pc |-> IF owner.left = 1 THEN "unlatch" ELSE "hold",
                              left |-> owner.left - 1]
                 \/ owner' = [pc |-> "respond", left |-> 0]
           \/ UNCHANGED inHand /\ owner' \in [pc : {"respond", "unlatch"}, left : {0}]
    BY <1>15 DEF HoldTick, Spend
  <2>2. inHand' \in [Work -> Int]
    BY <1>0, <2>1 DEF Work
  <2>3. owner.left \in 1 .. IdleTicks /\ At("hold")
    BY <1>15 DEF HoldTick, OwnerTicks
  <2>4. /\ owner'.pc \in {"hold", "unlatch", "respond"}
        /\ owner' \in [pc : OwnerPcs, left : 0 .. MotionTicks + IdleTicks + RampTicks]
        /\ owner'.pc = "hold" => owner'.left \in 1 .. IdleTicks
    BY <1>0, <2>1, <2>3 DEF OwnerPcs
  <2>5. Shape'
    BY <2>1, <2>2, <2>4 DEF Shape
  <2>6. LateBudget'
    <3>1. ASSUME estopped
          PROVE  /\ inHand'["hold"] >= 0
                 /\ owner'.pc = "hold" => inHand'["hold"] >= owner'.left
                 /\ \A w \in Work \ {"hold"} : inHand'[w] = inHand[w]
      <4>1. inHand["hold"] >= owner.left /\ owner.left \in Nat \ {0}
        BY <1>0, <2>3, <3>1 DEF LateBudget, At
      <4>2. /\ inHand["hold"] \in Int
            /\ inHand'["hold"] \in {inHand["hold"] - 1, inHand["hold"]}
            /\ \A w \in Work \ {"hold"} : inHand'[w] = inHand[w]
        BY <1>0, <2>1, <3>1 DEF Work
      <4>3. owner'.pc = "hold" => owner'.left = owner.left - 1
        BY <2>1
      <4> QED
        BY <4>1, <4>2, <4>3
    <3>2. owner'.pc \notin {"idle", "tick", "ramp", "check", "begin", "apply"} /\ estopped' = estopped
      BY <2>1, <2>4 DEF queueVars
    <3> QED
      BY <1>0, <3>1, <3>2 DEF LateBudget, Work, At
  <2> QED
    BY <2>1, <2>3, <2>4, <2>5, <2>6 DEF queueVars, OwnerTicks, ActiveMatchesOwner, FatalLeaves,
       ClosedAtEnd, At
<1>16. CASE Unlatch
  <2>1. Shape'
    <3>1. inHand' \in [Work -> Int]
      BY <1>16, NoWorkTyped DEF Unlatch
    <3> QED
      BY <1>0, <1>16, <3>1 DEF Unlatch, Goto, Shape, OwnerPcs, At
  <2> QED
    BY <1>0, <1>16, <2>1 DEF Unlatch, Queue!ClearEstop, Goto, Shape, OwnerTicks,
       ActiveMatchesOwner, LateBudget, IsReset, Work,
       FatalLeaves, ClosedAtEnd, At
<1>17. CASE CloseControllerAgain
  <2>1. Shape'
    BY <1>0, <1>17 DEF CloseControllerAgain, Goto, queueVars, historyVars, Shape, OwnerPcs,
       OwnerTicks, At
  <2> QED
    BY <1>0, <1>17, <2>1 DEF CloseControllerAgain, Goto, queueVars, historyVars, Shape,
       OwnerTicks, ActiveMatchesOwner, LateBudget, IsReset, Work,
       FatalLeaves, ClosedAtEnd, At
<1>18. CASE TakeRequest
  <2>1. Shape'
    <3>1. inHand' \in [Work -> Int]
      BY <1>0, <1>18, ServiceAssumption DEF TakeRequest, Work, Shape
    <3> QED
      BY <1>0, <1>18, <3>1 DEF TakeRequest, Queue!Claim, Goto, Shape, OwnerPcs, At
  <2>2. /\ pending \in Seq(QP!Request)
        /\ pending # <<>>
        /\ active' = pending[1]
    BY <1>18 DEF TakeRequest, Queue!Claim, QP!Inv, QP!TypeOK
  <2>3. 1 \in DOMAIN pending /\ pending[1] \in QP!Request
    BY <2>2
  <2>4. active' # NoRequest
    BY <2>2, <2>3, QueueAssumption DEF QP!Request
  <2>5. estopped => active'.op \notin GuardedOperations
    BY <2>2, <2>3 DEF QP!Inv, QP!EstopHolds
  <2> QED
    BY <1>0, <1>18, <2>1, <2>4, <2>5 DEF TakeRequest, Queue!Claim, Goto, Shape,
       OwnerTicks, ActiveMatchesOwner, LateBudget, IsReset, Work,
       FatalLeaves, ClosedAtEnd, At
<1>19. CASE BeginReset
  <2>1. UNCHANGED <<active, closed, estopped>>
    BY <1>19 DEF BeginReset, Queue!CancelPending, queueVars
  <2>2. Shape'
    BY <1>0, <1>19, ObserveTyped DEF BeginReset, Goto, Shape, OwnerPcs, At
  <2> QED
    BY <1>0, <1>19, <2>1, <2>2 DEF BeginReset, Goto, Shape, OwnerTicks, ActiveMatchesOwner,
       LateBudget, IsReset, Work,
       FatalLeaves, ClosedAtEnd, At
<1>20. CASE Respond
  <2>1. Shape'
    BY <1>0, <1>20, ObserveTyped DEF Respond, Goto, Shape, OwnerPcs, At
  <2> QED
    BY <1>0, <1>20, <2>1 DEF Respond, Queue!Complete, Goto, Shape, OwnerTicks,
       ActiveMatchesOwner, LateBudget, IsReset, Work,
       FatalLeaves, ClosedAtEnd, At
<1>21. CASE CloseController
  <2>1. Shape'
    BY <1>0, <1>21, ObserveTyped DEF CloseController, Goto, Shape, OwnerPcs, At
  <2> QED
    BY <1>0, <1>21, <2>1 DEF CloseController, Queue!Close, Goto, Shape, OwnerTicks,
       ActiveMatchesOwner, LateBudget, IsReset, Work,
       FatalLeaves, ClosedAtEnd, At
<1> QED
  BY <1>1, <1>2, <1>3, <1>4, <1>5, <1>6, <1>7, <1>8, <1>9, <1>10, <1>11, <1>12, <1>13, <1>14,
     <1>15, <1>16, <1>17, <1>18, <1>19, <1>20, <1>21, <1>22 DEF OwnerStep

(* The beginning of a call only adds to the queue. *)
LEMMA IngressKeeps ==
  ASSUME IInv,
         NEW c \in Clients, NEW id \in RequestIds,
         \/ \E op \in Operations : SubmitRequest(c, id, op)
         \/ \E op \in OutOfBand : ReserveOutOfBand(c, id, op)
  PROVE  LoopInv'
<1> USE ServiceAssumption DEF IInv, LoopInv
<1>1. ASSUME NEW op \in Operations, SubmitRequest(c, id, op)
      PROVE  Shape' /\ UNCHANGED <<owner, active, closed, estopped, quit, appRunning, fatal,
      inHand, interrupted>>
  <2>1. accepted + 1 \in Tickets /\ accepted' = accepted + 1
    BY <1>1 DEF SubmitRequest, Shape
  <2>2. [pc |-> "waiting", id |-> id, ticket |-> accepted + 1] \in ClientState
    BY <2>1 DEF ClientState
  <2>3. client' = [client EXCEPT ![c] = [pc |-> "waiting", id |-> id, ticket |-> accepted + 1]]
    BY <1>1 DEF SubmitRequest
  <2>4. UNCHANGED <<owner, active, closed, estopped, quit, appRunning, fatal, outcome,
  inHand, sawLatch, interrupted>>
    BY <1>1 DEF SubmitRequest, Queue!Submit
  <2> QED
    BY <2>1, <2>2, <2>3, <2>4 DEF Shape
<1>2. ASSUME NEW op \in OutOfBand, ReserveOutOfBand(c, id, op)
      PROVE  Shape' /\ UNCHANGED <<owner, active, closed, estopped, quit, appRunning, fatal,
      inHand, interrupted>>
  <2>1. [pc |-> "reserved", id |-> id, op |-> op] \in ClientState
    BY DEF ClientState
  <2>2. client' = [client EXCEPT ![c] = [pc |-> "reserved", id |-> id, op |-> op]]
    BY <1>2 DEF ReserveOutOfBand
  <2>3. UNCHANGED <<owner, active, closed, estopped, quit, appRunning, fatal, historyVars>>
    BY <1>2 DEF ReserveOutOfBand, Queue!ReserveImmediate
  <2> QED
    BY <2>1, <2>2, <2>3 DEF Shape, historyVars
<1>3. Shape' /\ UNCHANGED <<owner, active, closed, estopped, quit, appRunning, fatal,
inHand, interrupted>>
  BY <1>1, <1>2
<1> QED
  BY <1>3 DEF OwnerTicks, ActiveMatchesOwner, LateBudget, IsReset, Work,
        FatalLeaves,
     ClosedAtEnd, At

(* The inductive step: any thread, any step. *)
LEMMA NextKeepsIInv ==
  ASSUME IInv, [Next]_vars
  PROVE  IInv'
<1>1. QP!Inv'
  BY QueueInv DEF IInv, LoopInv
<1> SUFFICES LoopInv'
  BY <1>1 DEF IInv
<1>2. ASSUME NEW c \in Clients, NEW id \in RequestIds,
             \/ \E op \in Operations : SubmitRequest(c, id, op)
             \/ \E op \in OutOfBand : ReserveOutOfBand(c, id, op)
      PROVE  LoopInv'
  BY <1>2, IngressKeeps
<1>3. ASSUME NEW c \in Clients, ClientStep(c)
      PROVE  LoopInv'
  BY <1>3, ClientsKeep
<1>4. CASE OwnerStep
  BY <1>4, OwnerKeeps
<1>5. CASE RequestQuit
  BY <1>5 DEF RequestQuit, IInv, LoopInv, queueVars, historyVars, Shape, OwnerTicks,
     ActiveMatchesOwner, LateBudget, IsReset, Work,
       FatalLeaves, ClosedAtEnd, At
<1>6. CASE AppCloses
  <2>1. appRunning' = FALSE /\ UNCHANGED <<queueVars, client, owner, quit, fatal, historyVars>>
    BY <1>6 DEF AppCloses
  <2>2. Shape'
    BY <2>1 DEF IInv, LoopInv, Shape, historyVars
  <2>3. FatalLeaves'
    BY <2>1 DEF IInv, LoopInv, FatalLeaves
  <2> QED
    BY <2>1, <2>2, <2>3 DEF IInv, LoopInv, queueVars, historyVars, OwnerTicks,
       ActiveMatchesOwner, LateBudget, IsReset, Work,
        ClosedAtEnd, At
<1>7. CASE Interrupt
  BY <1>7, ServiceAssumption DEF Interrupt, IInv, LoopInv, queueVars, Shape, OwnerPcs,
     OwnerTicks, ActiveMatchesOwner, LateBudget, IsReset, Work,
       FatalLeaves, ClosedAtEnd, At
<1>8. CASE UNCHANGED vars
  BY <1>8 DEF vars, IInv, LoopInv, queueVars, historyVars, Shape, OwnerTicks,
     ActiveMatchesOwner, LateBudget, IsReset, Work,
       FatalLeaves, ClosedAtEnd, At
<1> QED
  BY <1>2, <1>3, <1>4, <1>5, <1>6, <1>7, <1>8 DEF Next

(* The service starts with an empty queue, in its loop, and owes no ticks.  *)
LEMMA InitHasIInv == Init => IInv
<1> SUFFICES ASSUME Init PROVE IInv
  OBVIOUS
<1>1. QP!Inv
  <2>1. Queue!Init
    BY DEF Init
  <2>2. QP!Init
    BY <2>1 DEF Queue!Init, QP!Init
  <2> QED
    BY <2>2, QueueConstants, QP!InitHasInv
<1>2. Shape
  <2>1. Idle \in ClientState
    BY DEF ClientState
  <2>2. [pc |-> "loop", left |-> 0] \in [pc : OwnerPcs,
  left : 0 .. MotionTicks + IdleTicks + RampTicks]
    BY ServiceAssumption DEF OwnerPcs
  <2>3. 0 \in 0 .. MaxSubmissions
    BY ServiceAssumption
  <2> QED
    BY <2>1, <2>2, <2>3, NoWorkTyped DEF Init, Shape
<1>3. active = NoRequest /\ estopped = FALSE
  BY DEF Init, Queue!Init
<1> QED
  BY <1>1, <1>2, <1>3 DEF Init, IInv, LoopInv, OwnerTicks, ActiveMatchesOwner, LateBudget, IsReset, Work,
       FatalLeaves, ClosedAtEnd, At

-----------------------------------------------------------------------------
(* The queue's invariant and the owner loop's hold of every state of the    *)
(* service.                                                                 *)
THEOREM ServiceInvariant == Spec => []IInv
<1>1. IInv /\ [Next]_vars => IInv'
  BY NextKeepsIInv
<1> QED
  BY <1>1, InitHasIInv, PTL DEF Spec

(* No thread takes the queue, the owner or a client to a state it has no    *)
(* handling for.                                                            *)
THEOREM ServiceTyped == Spec => []TypeOK
<1>1. IInv => TypeOK
  BY SameWords DEF IInv, LoopInv, TypeOK, Shape, QP!Inv
<1> QED
  BY <1>1, ServiceInvariant, PTL

(* Whatever the threads do, the queue sees only the calls MirrorAdmission   *)
(* models: its theorems hold of the queue inside the service.               *)
THEOREM ServiceUsesQueue == Spec => UsesQueue
<1>1. Init => Queue!Init
  BY DEF Init
<1>2. IInv /\ [Next]_vars => [Queue!Next]_(Queue!admissionVars)
  BY QueueStep DEF IInv, LoopInv, Shape, queueVars, Queue!admissionVars
<1> QED
  BY <1>1, <1>2, ServiceInvariant, PTL DEF Spec, UsesQueue, Queue!Spec

(* The active slot is taken exactly while the owner works on an operation,  *)
(* or for ever after an exception.                                          *)
THEOREM ActiveHasOwner == Spec => []ActiveMatchesOwner
<1>1. IInv => ActiveMatchesOwner
  BY DEF IInv, LoopInv
<1> QED
  BY <1>1, ServiceInvariant, PTL

(* Whenever the emergency stop comes, the engine gets no more ticks than    *)
(* the owner had decided on: of each kind its own rest, for any lengths of  *)
(* motions, ramps, holds and idle batches.                                 *)
THEOREM EstopBounds == Spec => []EstopBoundsPhysics
<1>1. IInv => EstopBoundsPhysics
  BY DEF IInv, LoopInv, LateBudget, EstopBoundsPhysics
<1> QED
  BY <1>1, ServiceInvariant, PTL

(* Under the latch the one mutation whose check came before it may still    *)
(* write, and no other, whatever was admitted or claimed before.           *)
THEOREM EstopStopsMutations == Spec => []EstopBoundsMutations
<1>1. IInv => EstopBoundsMutations
  BY DEF IInv, LoopInv, LateBudget, EstopBoundsMutations
<1> QED
  BY <1>1, ServiceInvariant, PTL

(* A stopped owner leaves a closed, empty queue behind and no active        *)
(* request, unless an exception left one.                                   *)
THEOREM StoppedOwnerIsQuiet == Spec => []StoppedIsQuiet
<1>1. IInv => StoppedIsQuiet
  BY DEF IInv, LoopInv, ClosedAtEnd, ActiveMatchesOwner, StoppedIsQuiet, At, QP!Inv, QP!CloseHolds
<1> QED
  BY <1>1, ServiceInvariant, PTL

(* After a fatal mutation the owner claims nothing and steps no engine on   *)
(* its way out, although it never reads fatal_error.                       *)
THEOREM FatalEndsTheLoop == Spec => NothingBeginsAfterFatal
<1> DEFINE Begins ==
      fatal => owner'.pc \notin {"polling", "polled", "idle", "begin", "check", "tick", "ramp",
                                 "hold", "apply"}
<1>1. ASSUME IInv, [Next]_vars PROVE [Begins]_vars
  <2> SUFFICES ASSUME Next PROVE Begins
    BY <1>1
  <2>1. LoopInv /\ LoopInv'
    BY <1>1, NextKeepsIInv DEF IInv
  <2>3. fatal => fatal'
    <3>1. OwnerStep => UNCHANGED fatal \/ fatal' = TRUE
      BY DEF OwnerStep, LoopContinues, LeaveLoop, TakeRequest, PollTimesOut, AfterPoll, IdleTick, BeginMotion,
         BeginHybrid, BeginMutate, BeginRestore, BeginReset, BeginQuery, MotionCheck, MotionTick,
         RampTick, Handover, Apply, HoldTick, Unlatch, Respond, CloseController,
         CloseControllerAgain
    <3>2. \A c \in Clients : ClientStep(c) => UNCHANGED fatal
      BY DEF ClientStep, WaitReturns, WaitExpires, ApplyOutOfBand, CompleteOutOfBand
    <3>3. \A c \in Clients, id \in RequestIds, op \in Operations : SubmitRequest(c, id,
    op) => UNCHANGED fatal
      BY DEF SubmitRequest
    <3>4. \A c \in Clients, id \in RequestIds, op \in OutOfBand : ReserveOutOfBand(c, id,
    op) => UNCHANGED fatal
      BY DEF ReserveOutOfBand
    <3>5. RequestQuit \/ AppCloses \/ Interrupt => UNCHANGED fatal
      BY DEF RequestQuit, AppCloses, Interrupt
    <3> QED
      BY <3>1, <3>2, <3>3, <3>4, <3>5 DEF Next
  <2> QED
    BY <2>1, <2>3 DEF LoopInv, FatalLeaves
<1> QED
  BY <1>1, ServiceInvariant, PTL DEF NothingBeginsAfterFatal, Spec

-----------------------------------------------------------------------------
(***************************************************************************)
(* MirrorService implements RequestLifecycle for every number of clients,  *)
(* requests and slots.                                                     *)
(*                                                                         *)
(* The fate of a request is read off the queue and off the answers seen so *)
(* far.  Three facts make every step of the service a step of the          *)
(* lifecycle: requests wait in the order of their acceptance (IssueOrder), *)
(* one that is in the queue or running has no answer yet (Unanswered), and *)
(* a retained answer is the one its request got (AnswersObserved).  The    *)
(* last needs that no answer is evicted in the step that stores it, which  *)
(* is what terminal_capacity >= capacity buys.                             *)
(***************************************************************************)
PendingTickets == {pending[i].ticket : i \in DOMAIN pending}

IssueOrder ==
  /\ \A i, j \in DOMAIN pending : i < j => pending[i].ticket < pending[j].ticket
  /\ active # NoRequest => \A t \in PendingTickets : active.ticket < t
  /\ \A t \in PendingTickets : t <= accepted
  /\ active # NoRequest => active.ticket <= accepted

Unanswered ==
  /\ \A t \in Tickets : t > accepted => outcome[t] = "none"
  /\ \A t \in PendingTickets : outcome[t] = "none"
  /\ active # NoRequest => outcome[active.ticket] = "none"

Verdict(executed) == IF executed THEN "executed" ELSE "cleared"

AnswersObserved ==
  \A i \in DOMAIN terminal :
    terminal[i].ticket \in Tickets =>
      outcome[terminal[i].ticket] = Verdict(terminal[i].executed)

History == IssueOrder /\ Unanswered /\ AnswersObserved

Fate == [t \in Tickets |-> FateOf(t)]

(* terminal' holds all of rs and otherwise only what terminal held. *)
Stored(rs) ==
  /\ \A i \in DOMAIN terminal' :
       \/ \E j \in DOMAIN terminal : terminal'[i] = terminal[j]
       \/ \E j \in DOMAIN rs : terminal'[i] = rs[j]
  /\ \A j \in DOMAIN rs : \E i \in DOMAIN terminal' : terminal'[i] = rs[j]

-----------------------------------------------------------------------------
(* Storing no more answers than the history holds retains all of them and   *)
(* adds nothing else.                                                       *)
LEMMA StoreKeepsNew ==
  ASSUME NEW rs \in Seq(QP!Response), Len(rs) <= TerminalCapacity,
         Queue!Store(rs), terminal \in Seq(QP!Response)
  PROVE  Stored(rs)
<1> DEFINE all == terminal \o rs
           d == QP!Dropped(all, TerminalCapacity)
<1>1. /\ all \in Seq(QP!Response)
      /\ Len(all) = Len(terminal) + Len(rs)
      /\ \A i \in 1 .. Len(terminal) + Len(rs) :
           all[i] = IF i <= Len(terminal) THEN terminal[i] ELSE rs[i - Len(terminal)]
  BY ConcatProperties
<1>2. /\ Len(terminal) \in Nat /\ DOMAIN terminal = 1 .. Len(terminal)
      /\ Len(rs) \in Nat /\ DOMAIN rs = 1 .. Len(rs)
  BY LenProperties
<1>3. terminal' = QP!Retain(all, TerminalCapacity) /\ TerminalCapacity \in Nat
  BY SameWords, QueueAssumption DEF Queue!Store
<1> HIDE DEF all, d
<1>4. /\ terminal' \in Seq(QP!Response)
      /\ d \in Nat
      /\ Len(terminal') = Len(all) - d
      /\ \A i \in 1 .. Len(terminal') :
           i + d \in 1 .. Len(all) /\ terminal'[i] = all[i + d]
  BY <1>1, <1>3, QueueConstants, QP!RetainIsSuffix, SMTT(30) DEF d
<1>5. DOMAIN terminal' = 1 .. Len(terminal') /\ Len(terminal') \in Nat
  BY <1>4, LenProperties
<1>6. ASSUME NEW i \in DOMAIN terminal'
      PROVE  \/ \E j \in DOMAIN terminal : terminal'[i] = terminal[j]
             \/ \E j \in DOMAIN rs : terminal'[i] = rs[j]
  <2>1. terminal'[i] = all[i + d] /\ i + d \in 1 .. Len(all)
    BY <1>4, <1>5
  <2>2. CASE i + d <= Len(terminal)
    BY <1>1, <1>2, <2>1, <2>2
  <2>3. CASE i + d > Len(terminal)
    <3>1. i + d - Len(terminal) \in DOMAIN rs
      BY <1>1, <1>2, <1>4, <1>5, <2>1, <2>3
    <3>2. terminal'[i] = rs[i + d - Len(terminal)]
      BY <1>1, <1>2, <1>4, <1>5, <2>1, <2>3, SMTT(30)
    <3> QED
      BY <3>1, <3>2
  <2> QED
    BY <1>2, <2>1, <2>2, <2>3
<1>7. ASSUME NEW k \in 1 .. Len(rs)
      PROVE  \E i \in DOMAIN terminal' : terminal'[i] = rs[k]
  <2> DEFINE i == Len(terminal) + k - d
  <2>1. d = IF Len(all) <= TerminalCapacity THEN 0 ELSE Len(all) - TerminalCapacity
    BY DEF d, QP!Dropped
  <2>2. i \in 1 .. Len(terminal')
    BY <1>1, <1>2, <1>3, <1>4, <1>5, <2>1
  <2>3. terminal'[i] = all[Len(terminal) + k]
    BY <1>2, <1>4, <2>2
  <2>4. all[Len(terminal) + k] = rs[k]
    BY <1>1, <1>2
  <2> QED
    BY <1>5, <2>2, <2>3, <2>4
<1> QED
  BY <1>2, <1>6, <1>7 DEF Stored

(* Fresh answers of one kind, once stored, are the only outcomes that       *)
(* change: what is retained of older ones says what it said before.         *)
LEMMA AnswersAreRead ==
  ASSUME NEW rs, NEW b \in BOOLEAN, Stored(rs),
         \A j \in DOMAIN rs :
           /\ rs[j].executed = b
           /\ rs[j].ticket \in Tickets => outcome[rs[j].ticket] = "none",
         outcome \in [Tickets -> {"none", "executed", "cleared"}],
         terminal \in Seq(QP!Response),
         AnswersObserved, ObserveAnswers
  PROVE  /\ outcome' = [t \in Tickets |-> IF \E j \in DOMAIN rs : rs[j].ticket = t
                                          THEN Verdict(b) ELSE outcome[t]]
         /\ AnswersObserved'
<1> DEFINE Among(t) == \E j \in DOMAIN rs : rs[j].ticket = t
           Seen(t) == \E i \in DOMAIN terminal' : terminal'[i].ticket = t
           Ran(t) == \E i \in DOMAIN terminal' : terminal'[i].ticket = t /\ terminal'[i].executed
<1>0. \A j \in DOMAIN terminal : terminal[j].executed \in BOOLEAN
  <2>1. \A j \in DOMAIN terminal : terminal[j] \in QP!Response
    BY ElementOfSeq, LenProperties
  <2> QED
    BY <2>1 DEF QP!Response
<1>1. ASSUME NEW i \in DOMAIN terminal', terminal'[i].ticket \in Tickets
      PROVE  /\ terminal'[i].executed \in BOOLEAN
             /\ Among(terminal'[i].ticket) => terminal'[i].executed = b
             /\ ~Among(terminal'[i].ticket) =>
                   outcome[terminal'[i].ticket] = Verdict(terminal'[i].executed)
  <2>1. CASE \E j \in DOMAIN rs : terminal'[i] = rs[j]
    BY <2>1
  <2>2. ASSUME NEW j \in DOMAIN terminal, terminal'[i] = terminal[j]
        PROVE  /\ terminal'[i].executed \in BOOLEAN
               /\ outcome[terminal'[i].ticket] = Verdict(terminal'[i].executed)
               /\ outcome[terminal'[i].ticket] # "none"
    BY <1>0, <1>1, <2>2 DEF AnswersObserved, Verdict
  <2>3. Among(terminal'[i].ticket) => outcome[terminal'[i].ticket] = "none"
    BY <1>1
  <2> QED
    BY <2>1, <2>2, <2>3 DEF Stored
<1>2. ASSUME NEW t \in Tickets
      PROVE  outcome'[t] = IF Among(t) THEN Verdict(b) ELSE outcome[t]
  <2>1. outcome'[t] = IF Seen(t) THEN IF Ran(t) THEN "executed" ELSE "cleared" ELSE outcome[t]
    BY DEF ObserveAnswers
  <2>2. CASE Among(t)
    <3>1. Seen(t)
      BY <2>2 DEF Stored
    <3>2. Ran(t) <=> b
      BY <1>1, <2>2, <3>1
    <3> QED
      BY <2>1, <2>2, <3>1, <3>2 DEF Verdict
  <2>3. CASE ~Among(t) /\ Seen(t)
    <3>1. PICK i \in DOMAIN terminal' : terminal'[i].ticket = t
      BY <2>3
    <3>2. terminal'[i].executed \in BOOLEAN /\ outcome[t] = Verdict(terminal'[i].executed)
      BY <1>1, <2>3, <3>1
    <3>3. CASE Ran(t)
      <4>1. PICK k \in DOMAIN terminal' : terminal'[k].ticket = t /\ terminal'[k].executed
        BY <3>3
      <4>2. outcome[t] = "executed"
        BY <1>1, <2>3, <4>1 DEF Verdict
      <4> QED
        BY <2>1, <2>3, <3>3, <4>2
    <3>4. CASE ~Ran(t)
      <4>1. ~terminal'[i].executed
        BY <3>1, <3>4
      <4>2. outcome[t] = "cleared"
        BY <3>2, <4>1 DEF Verdict
      <4> QED
        BY <2>1, <2>3, <3>4, <4>2
    <3> QED
      BY <3>3, <3>4
  <2>4. CASE ~Among(t) /\ ~Seen(t)
    BY <2>1, <2>4
  <2> QED
    BY <2>2, <2>3, <2>4
<1>3. outcome' = [t \in Tickets |-> IF Among(t) THEN Verdict(b) ELSE outcome[t]]
  <2>1. DOMAIN outcome' = Tickets /\ outcome' = [t \in Tickets |-> outcome'[t]]
    BY DEF ObserveAnswers
  <2> HIDE DEF Among
  <2> QED
    BY <1>2, <2>1
<1>4. AnswersObserved'
  BY <1>1, <1>2 DEF AnswersObserved
<1> QED
  BY <1>3, <1>4

-----------------------------------------------------------------------------
(* What the queue's invariant says of the requests in it. *)
LEMMA PendingTyped ==
  ASSUME QP!Inv
  PROVE  /\ Len(pending) \in Nat
         /\ DOMAIN pending = 1 .. Len(pending)
         /\ \A i \in DOMAIN pending : pending[i] \in QP!Request
         /\ PendingTickets \subseteq Tickets
         /\ terminal \in Seq(QP!Response)
         /\ active # NoRequest => active \in QP!Request /\ active.ticket \in Tickets
<1>1. pending \in Seq(QP!Request) /\ terminal \in Seq(QP!Response)
      /\ active \in QP!Request \cup {NoRequest}
  BY DEF QP!Inv, QP!TypeOK
<1>2. /\ Len(pending) \in Nat
      /\ DOMAIN pending = 1 .. Len(pending)
      /\ \A i \in DOMAIN pending : pending[i] \in QP!Request
  BY <1>1, ElementOfSeq, LenProperties
<1> QED
  BY <1>1, <1>2 DEF PendingTickets, QP!Request

(* A step that leaves the queue and its history alone changes no fate.      *)
LEMMA QuietStep ==
  ASSUME IInv, History, UNCHANGED <<pending, active, terminal, accepted>>,
         ObserveAnswers \/ UNCHANGED outcome
  PROVE  History' /\ Fate' = Fate
<1>1. outcome' = outcome
  <2>1. CASE ObserveAnswers
    <3> DEFINE none == <<>>
    <3>1. Stored(none)
      BY DEF Stored
    <3>2. \A t \in Tickets : ~ \E j \in DOMAIN none : none[j].ticket = t
      OBVIOUS
    <3>3. \A j \in DOMAIN none : none[j].executed = TRUE
            /\ (none[j].ticket \in Tickets => outcome[none[j].ticket] = "none")
      OBVIOUS
    <3>4. outcome \in [Tickets -> {"none", "executed", "cleared"}] /\ terminal \in Seq(QP!Response)
          /\ AnswersObserved
      BY PendingTyped DEF IInv, LoopInv, Shape, History
    <3> HIDE DEF none
    <3>5. outcome' = [t \in Tickets |-> IF \E j \in DOMAIN none : none[j].ticket = t
                                        THEN Verdict(TRUE) ELSE outcome[t]]
      BY <2>1, <3>1, <3>3, <3>4, AnswersAreRead
    <3> QED
      BY <3>2, <3>4, <3>5
  <2> QED
    BY <2>1
<1>2. PendingTickets' = PendingTickets
  BY DEF PendingTickets
<1>3. History'
  BY <1>1, <1>2 DEF History, IssueOrder, Unanswered, AnswersObserved
<1>4. Fate' = Fate
  BY <1>1 DEF Fate, FateOf
<1> QED
  BY <1>3, <1>4

(* A request in the queue is queued: it is issued, unanswered, not running. *)
LEMMA QueuedFate ==
  ASSUME IInv, History, NEW t \in PendingTickets
  PROVE  t \in Tickets /\ FateOf(t) = "queued"
<1>1. t \in Tickets /\ t <= accepted /\ outcome[t] = "none"
  BY PendingTyped DEF IInv, History, IssueOrder, Unanswered
<1>2. ~(active # NoRequest /\ active.ticket = t)
  BY <1>1, PendingTyped, ServiceAssumption DEF IInv, History, IssueOrder
<1>3. \E i \in DOMAIN pending : pending[i].ticket = t
  BY DEF PendingTickets
<1>4. ~(t > accepted)
  BY <1>1, ServiceAssumption DEF IInv, LoopInv, Shape
<1> QED
  BY <1>1, <1>2, <1>3, <1>4 DEF FateOf

(* Taking requests out of the queue with an answer that they never ran is   *)
(* the abstract Clear.                                                      *)
LEMMA ClearsTickets ==
  ASSUME IInv, History, NEW S \in SUBSET PendingTickets,
         outcome' = [t \in Tickets |-> IF t \in S THEN "cleared" ELSE outcome[t]],
         UNCHANGED <<active, accepted>>,
         PendingTickets' = PendingTickets \ S
  PROVE  Lifecycle!Next
<1>1. ASSUME NEW t \in Tickets
      PROVE  FateOf(t)' = IF t \in S THEN "cleared" ELSE FateOf(t)
  <2>1. outcome'[t] = IF t \in S THEN "cleared" ELSE outcome[t]
    OBVIOUS
  <2>2. (\E i \in DOMAIN pending' : pending'[i].ticket = t)
          <=> (\E i \in DOMAIN pending : pending[i].ticket = t) /\ t \notin S
    <3>1. t \in PendingTickets' <=> t \in PendingTickets /\ t \notin S
      OBVIOUS
    <3> QED
      BY <3>1 DEF PendingTickets
  <2>3. CASE t \in S
    <3>1. t <= accepted
      BY <2>3 DEF History, IssueOrder
    <3>2. ~(t > accepted)
      BY <3>1, ServiceAssumption DEF IInv, LoopInv, Shape
    <3> QED
      BY <2>1, <2>3, <3>2 DEF FateOf
  <2>4. CASE t \notin S
    BY <2>1, <2>2, <2>4 DEF FateOf
  <2> QED
    BY <2>3, <2>4
<1>2. S \subseteq Lifecycle!Queued
  BY QueuedFate DEF Lifecycle!Queued
<1>3. Lifecycle!Clear(S)
  BY <1>1 DEF Lifecycle!Clear
<1> QED
  BY <1>2, <1>3 DEF Lifecycle!Next

-----------------------------------------------------------------------------
(* One lemma for each way the service changes the queue.                    *)

(* A cancel or a deadline takes one request out.                            *)
LEMMA WithdrawStep ==
  ASSUME IInv, History, NEW i \in DOMAIN pending,
         pending' = Queue!RemoveAt(pending, i),
         Queue!Store(<<Queue!Answer(pending[i], FALSE)>>),
         UNCHANGED <<active, accepted>>, ObserveAnswers
  PROVE  History' /\ Lifecycle!Next
<1> DEFINE rs == <<QP!Answer(pending[i], FALSE)>>
           t == pending[i].ticket
<1>0. /\ outcome \in [Tickets -> {"none", "executed", "cleared"}]
      /\ terminal \in Seq(QP!Response)
      /\ Len(pending) \in Nat
      /\ DOMAIN pending = 1 .. Len(pending)
      /\ PendingTickets \subseteq Tickets
      /\ \A j \in DOMAIN pending : pending[j].ticket \in Tickets
      /\ pending \in Seq(QP!Request)
      /\ accepted \in Nat
  BY PendingTyped, ServiceAssumption DEF IInv, LoopInv, Shape, PendingTickets, QP!Inv, QP!TypeOK
<1>1. /\ rs \in Seq(QP!Response)
      /\ Len(rs) = 1 /\ rs[1] = QP!Answer(pending[i], FALSE)
  BY PendingTyped DEF IInv, QP!Answer, QP!Request, QP!Response
<1>2. DOMAIN rs = {1}
  BY <1>1, LenProperties
<1> HIDE DEF rs
<1>3. rs[1].ticket = t /\ rs[1].executed = FALSE
  BY <1>1 DEF QP!Answer
<1>4. Stored(rs)
  <2>1. Queue!Store(rs)
    BY SameWords DEF rs
  <2> QED
    <3>1. Len(rs) <= TerminalCapacity
      BY <1>1, QueueAssumption
    <3> QED
      BY <1>0, <1>1, <2>1, <3>1, StoreKeepsNew
<1>5. t \in PendingTickets /\ t \in Tickets /\ outcome[t] = "none"
  BY <1>0 DEF PendingTickets, History, Unanswered
<1>6. /\ outcome' = [u \in Tickets |-> IF \E j \in DOMAIN rs : rs[j].ticket = u
                                       THEN Verdict(FALSE) ELSE outcome[u]]
      /\ AnswersObserved'
  BY <1>0, <1>2, <1>3, <1>4, <1>5, AnswersAreRead DEF History
<1>7. outcome' = [u \in Tickets |-> IF u \in {t} THEN "cleared" ELSE outcome[u]]
  BY <1>2, <1>3, <1>6 DEF Verdict
<1>8. /\ DOMAIN pending' = 1 .. Len(pending) - 1
      /\ \A j \in 1 .. Len(pending) - 1 :
           pending'[j] = pending[IF j < i THEN j ELSE j + 1]
  <2>1. pending' = QP!RemoveAt(pending, i)
    BY SameWords
  <2> QED
    BY <1>0, <2>1 DEF QP!RemoveAt
<1>9. ASSUME NEW j \in DOMAIN pending, NEW k \in DOMAIN pending, j < k
      PROVE  pending[j].ticket < pending[k].ticket
  BY <1>9 DEF History, IssueOrder
<1>10. PendingTickets' = PendingTickets \ {t}
  <2>1. ASSUME NEW j \in DOMAIN pending'
        PROVE  pending'[j].ticket \in PendingTickets \ {t}
    <3> DEFINE k == IF j < i THEN j ELSE j + 1
    <3>1. k \in DOMAIN pending /\ k # i /\ pending'[j] = pending[k]
      BY <1>0, <1>8
    <3>2. pending[k].ticket # t
      <4>1. k < i \/ i < k
        BY <1>0, <3>1
      <4> HIDE DEF k
      <4> QED
        BY <1>0, <1>9, <3>1, <4>1, ServiceAssumption
    <3> QED
      BY <3>1, <3>2 DEF PendingTickets
  <2>2. ASSUME NEW k \in DOMAIN pending, pending[k].ticket # t
        PROVE  \E j \in DOMAIN pending' : pending'[j].ticket = pending[k].ticket
    <3> DEFINE j == IF k < i THEN k ELSE k - 1
    <3>1. j \in DOMAIN pending' /\ pending'[j] = pending[k]
      BY <1>0, <1>8, <2>2
    <3> QED
      BY <3>1
  <2> QED
    BY <2>1, <2>2 DEF PendingTickets
<1>11. IssueOrder'
  <2>1. ASSUME NEW j \in DOMAIN pending', NEW k \in DOMAIN pending', j < k
        PROVE  pending'[j].ticket < pending'[k].ticket
    <3> DEFINE f(n) == IF n < i THEN n ELSE n + 1
    <3>1. f(j) \in DOMAIN pending /\ f(k) \in DOMAIN pending /\ f(j) < f(k)
      BY <1>0, <1>8, <2>1
    <3>2. pending'[j] = pending[f(j)] /\ pending'[k] = pending[f(k)]
      BY <1>8
    <3> HIDE DEF f
    <3> QED
      BY <1>9, <3>1, <3>2
  <2> QED
    BY <1>10, <2>1 DEF History, IssueOrder
<1>12. Unanswered'
  <2>1. active # NoRequest => active.ticket \in Tickets /\ active.ticket # t
    BY <1>5, PendingTyped, ServiceAssumption DEF IInv, History, IssueOrder
  <2>2. t <= accepted
    BY <1>5 DEF History, IssueOrder
  <2> QED
    BY <1>0, <1>5, <1>7, <1>10, <2>1, <2>2, ServiceAssumption DEF History, Unanswered
<1> QED
  <2>1. {t} \in SUBSET PendingTickets
    BY <1>5
  <2>2. Lifecycle!Next
    BY <1>7, <1>10, <2>1, ClearsTickets
  <2> QED
    BY <1>6, <1>11, <1>12, <2>2 DEF History

(* Estop, reset and close take all of them out.                             *)
LEMMA DrainStep ==
  ASSUME IInv, History, Queue!Drain, UNCHANGED <<active, accepted>>, ObserveAnswers
  PROVE  History' /\ Lifecycle!Next
<1> DEFINE rs == [i \in DOMAIN pending |-> Queue!Answer(pending[i], FALSE)]
<1>0. /\ outcome \in [Tickets -> {"none", "executed", "cleared"}]
      /\ terminal \in Seq(QP!Response)
      /\ Len(pending) \in Nat
      /\ DOMAIN pending = 1 .. Len(pending)
      /\ PendingTickets \subseteq Tickets
      /\ \A j \in DOMAIN pending : pending[j] \in QP!Request
  BY PendingTyped DEF IInv, LoopInv, Shape
<1>1. \A i \in DOMAIN pending : /\ rs[i] \in QP!Response
                                /\ rs[i].ticket = pending[i].ticket
                                /\ rs[i].executed = FALSE
  BY <1>0 DEF Queue!Answer, QP!Request, QP!Response
<1>2. /\ rs \in Seq(QP!Response)
      /\ Len(rs) = Len(pending)
      /\ DOMAIN rs = DOMAIN pending
  <2>1. rs \in [1 .. Len(pending) -> QP!Response]
    BY <1>0, <1>1
  <2> HIDE DEF rs
  <2>2. rs \in Seq(QP!Response)
    BY <1>0, <2>1, SeqDef
  <2> QED
    BY <1>0, <2>1, <2>2, LenProperties
<1>3. Queue!Store(rs) /\ pending' = <<>>
  BY DEF Queue!Drain
<1> HIDE DEF rs
<1>4. Stored(rs)
  <2>1. Len(pending) <= Capacity
    BY <1>0, QueueAssumption DEF IInv, QP!Inv, QP!Bounded, QP!InFlight
  <2>2. Len(rs) <= TerminalCapacity
    BY <1>0, <1>2, <2>1, QueueAssumption
  <2> QED
    BY <1>0, <1>2, <1>3, <2>2, StoreKeepsNew
<1>5. \A j \in DOMAIN rs : /\ rs[j].executed = FALSE
                           /\ rs[j].ticket \in PendingTickets
                           /\ outcome[rs[j].ticket] = "none"
  BY <1>1, <1>2 DEF PendingTickets, History, Unanswered
<1>6. /\ outcome' = [u \in Tickets |-> IF \E j \in DOMAIN rs : rs[j].ticket = u
                                       THEN Verdict(FALSE) ELSE outcome[u]]
      /\ AnswersObserved'
  BY <1>0, <1>4, <1>5, AnswersAreRead DEF History
<1>7. outcome' = [u \in Tickets |-> IF u \in PendingTickets THEN "cleared" ELSE outcome[u]]
  <2>1. \A u \in Tickets : (\E j \in DOMAIN rs : rs[j].ticket = u) <=> u \in PendingTickets
    BY <1>1, <1>2 DEF PendingTickets
  <2> QED
    BY <1>6, <2>1 DEF Verdict
<1>8. DOMAIN pending' = {} /\ PendingTickets' = {}
  BY <1>3 DEF PendingTickets
<1>9. IssueOrder'
  BY <1>8 DEF History, IssueOrder
<1>10. Unanswered'
  <2>1. active # NoRequest => active.ticket \in Tickets /\ active.ticket \notin PendingTickets
    BY <1>0, PendingTyped, ServiceAssumption DEF IInv, History, IssueOrder
  <2>2. \A t \in PendingTickets : t <= accepted /\ t \in Int
    BY <1>0, ServiceAssumption DEF History, IssueOrder
  <2>3. accepted \in Int
    BY ServiceAssumption DEF IInv, LoopInv, Shape
  <2> QED
    BY <1>0, <1>7, <1>8, <2>1, <2>2, <2>3 DEF History, Unanswered
<1>11. Lifecycle!Next
  <2>1. PendingTickets \in SUBSET PendingTickets /\ PendingTickets' = PendingTickets \ PendingTickets
    BY <1>8
  <2> QED
    BY <1>7, <2>1, ClearsTickets
<1> QED
  BY <1>6, <1>9, <1>10, <1>11 DEF History

(* The response of an out-of-band operation belongs to no accepted request. *)
LEMMA ImmediateStep ==
  ASSUME IInv, History, NEW id \in RequestIds, Queue!CompleteImmediate(id),
         UNCHANGED accepted, ObserveAnswers
  PROVE  History' /\ Fate' = Fate
<1> DEFINE rs == <<[id |-> id, ticket |-> NoTicket, executed |-> TRUE]>>
<1>0. /\ outcome \in [Tickets -> {"none", "executed", "cleared"}]
      /\ terminal \in Seq(QP!Response)
  BY PendingTyped DEF IInv, LoopInv, Shape
<1>1. /\ rs \in Seq(QP!Response)
      /\ Len(rs) = 1 /\ rs[1].ticket = NoTicket /\ rs[1].executed = TRUE
  BY DEF QP!Response
<1>2. DOMAIN rs = {1}
  BY <1>1, LenProperties
<1>3. Queue!Store(rs) /\ UNCHANGED <<pending, active>>
  BY DEF Queue!CompleteImmediate
<1> HIDE DEF rs
<1>4. Stored(rs)
  <2>1. Len(rs) <= TerminalCapacity
    BY <1>1, QueueAssumption
  <2> QED
    BY <1>0, <1>1, <1>3, <2>1, StoreKeepsNew
<1>5. NoTicket \notin Tickets
  BY ServiceAssumption
<1>6. /\ outcome' = [u \in Tickets |-> IF \E j \in DOMAIN rs : rs[j].ticket = u
                                       THEN Verdict(TRUE) ELSE outcome[u]]
      /\ AnswersObserved'
  BY <1>0, <1>1, <1>2, <1>4, <1>5, AnswersAreRead DEF History
<1>7. outcome' = outcome
  BY <1>0, <1>1, <1>2, <1>5, <1>6
<1>8. PendingTickets' = PendingTickets
  BY <1>3 DEF PendingTickets
<1>9. History'
  BY <1>3, <1>6, <1>7, <1>8 DEF History, IssueOrder, Unanswered
<1> QED
  BY <1>3, <1>7, <1>9 DEF Fate, FateOf

(* The next ticket goes to the end of the queue.                            *)
LEMMA SubmitStep ==
  ASSUME IInv, History, NEW r \in QP!Request, NEW t \in Tickets,
         t = accepted + 1, r.ticket = t,
         pending' = Append(pending, r), accepted' = t,
         UNCHANGED <<active, terminal, outcome>>
  PROVE  History' /\ Lifecycle!Next
<1>0. /\ Len(pending) \in Nat
      /\ DOMAIN pending = 1 .. Len(pending)
      /\ pending \in Seq(QP!Request)
      /\ PendingTickets \subseteq Tickets
      /\ accepted \in Nat
      /\ outcome \in [Tickets -> {"none", "executed", "cleared"}]
      /\ active # NoRequest => active.ticket \in Tickets
      /\ \A u \in Tickets : u \in Int
  BY PendingTyped, ServiceAssumption DEF IInv, LoopInv, Shape, QP!Inv, QP!TypeOK, QP!Request
<1>1. /\ DOMAIN pending' = 1 .. Len(pending) + 1
      /\ \A i \in 1 .. Len(pending) : pending'[i] = pending[i]
      /\ pending'[Len(pending) + 1] = r
  BY <1>0
<1>2. PendingTickets' = PendingTickets \cup {t}
  BY <1>0, <1>1 DEF PendingTickets
<1>3. /\ \A u \in PendingTickets : u < t /\ u <= accepted
      /\ active # NoRequest => active.ticket < t
      /\ outcome[t] = "none"
  <2>1. \A u \in PendingTickets : u \in Int /\ u <= accepted
    BY <1>0 DEF History, IssueOrder
  <2>2. active # NoRequest => active.ticket \in Int /\ active.ticket <= accepted
    BY <1>0 DEF History, IssueOrder
  <2>3. t > accepted
    BY <1>0
  <2>4. outcome[t] = "none"
    BY <2>3 DEF History, Unanswered
  <2> QED
    BY <1>0, <2>1, <2>2, <2>4
<1>4. IssueOrder'
  <2>1. ASSUME NEW i \in DOMAIN pending', NEW j \in DOMAIN pending', i < j
        PROVE  pending'[i].ticket < pending'[j].ticket
    <3>1. i \in DOMAIN pending /\ pending'[i] = pending[i]
      BY <1>0, <1>1, <2>1
    <3>2. CASE j = Len(pending) + 1
      BY <1>1, <1>3, <3>1, <3>2 DEF PendingTickets
    <3>3. CASE j # Len(pending) + 1
      <4>1. j \in DOMAIN pending /\ pending'[j] = pending[j]
        BY <1>0, <1>1, <3>3
      <4> QED
        BY <2>1, <3>1, <4>1 DEF History, IssueOrder
    <3> QED
      BY <3>2, <3>3
  <2>2. \A u \in PendingTickets' : u <= accepted'
    BY <1>0, <1>2, <1>3
  <2>3. active' # NoRequest => /\ active'.ticket <= accepted'
                               /\ \A u \in PendingTickets' : active'.ticket < u
    <3>1. active # NoRequest => /\ active.ticket <= accepted /\ active.ticket \in Int
                                /\ \A u \in PendingTickets : active.ticket < u
      BY <1>0 DEF History, IssueOrder
    <3> QED
      BY <1>0, <1>2, <1>3, <3>1
  <2> QED
    BY <2>1, <2>2, <2>3 DEF IssueOrder
<1>5. Unanswered'
  BY <1>0, <1>2, <1>3 DEF History, Unanswered
<1>6. AnswersObserved'
  BY DEF History, AnswersObserved
<1>7. FateOf(t) = "unissued" /\ FateOf(t)' = "queued"
  <2>1. FateOf(t) = "unissued"
    BY <1>0 DEF FateOf
  <2>2. \E i \in DOMAIN pending' : pending'[i].ticket = t
    BY <1>0, <1>1
  <2>3. ~(t > accepted') /\ outcome'[t] = "none"
    BY <1>0, <1>3
  <2>4. ~(active' # NoRequest /\ active'.ticket = t)
    BY <1>0, <1>3
  <2>5. FateOf(t)' = "queued"
    BY <2>2, <2>3, <2>4 DEF FateOf
  <2> QED
    BY <2>1, <2>5
<1>8. ASSUME NEW u \in Tickets, u # t
      PROVE  FateOf(u)' = FateOf(u)
  <2>1. (\E i \in DOMAIN pending' : pending'[i].ticket = u)
          <=> (\E i \in DOMAIN pending : pending[i].ticket = u)
    <3>1. u \in PendingTickets' <=> u \in PendingTickets
      BY <1>2, <1>8
    <3> QED
      BY <3>1 DEF PendingTickets
  <2>2. u > accepted' <=> u > accepted
    <3>1. CASE u > accepted'
      BY <1>0, <3>1
    <3>2. CASE ~(u > accepted')
      BY <1>0, <1>8, <3>2
    <3> QED
      BY <3>1, <3>2
  <2>3. CASE u > accepted
    BY <2>2, <2>3 DEF FateOf
  <2>4. CASE ~(u > accepted)
    BY <2>1, <2>2, <2>4 DEF FateOf
  <2> QED
    BY <2>3, <2>4
<1>9. ASSUME NEW u \in Tickets, u < t
      PROVE  FateOf(u) # "unissued"
  <2>1. ~(u > accepted)
    BY <1>0, <1>9
  <2>2. outcome[u] # "unissued"
    BY <1>0
  <2> QED
    BY <2>1, <2>2 DEF FateOf
<1>10. Lifecycle!Accept(t)
  <2> DEFINE fate == [u \in Tickets |-> FateOf(u)]
  <2>1. fate' = [fate EXCEPT ![t] = "queued"]
    BY <1>0, <1>7, <1>8
  <2>2. fate[t] = "unissued" /\ \A u \in Tickets : u < t => fate[u] # "unissued"
    BY <1>0, <1>7, <1>9
  <2> QED
    BY <2>1, <2>2 DEF Lifecycle!Accept
<1> QED
  BY <1>0, <1>4, <1>5, <1>6, <1>10 DEF History, Lifecycle!Next

(* The head of the queue is the oldest request waiting, and nothing runs.   *)
LEMMA ClaimStep ==
  ASSUME IInv, History, Queue!Claim, UNCHANGED <<accepted, outcome>>
  PROVE  History' /\ Lifecycle!Next
<1>0. /\ Len(pending) \in Nat
      /\ DOMAIN pending = 1 .. Len(pending)
      /\ pending \in Seq(QP!Request)
      /\ \A i \in DOMAIN pending : pending[i] \in QP!Request
      /\ PendingTickets \subseteq Tickets
      /\ accepted \in Nat
      /\ outcome \in [Tickets -> {"none", "executed", "cleared"}]
      /\ \A u \in Tickets : u \in Int
  BY PendingTyped, ServiceAssumption DEF IInv, LoopInv, Shape, QP!Inv, QP!TypeOK
<1>1. /\ active = NoRequest /\ pending # <<>>
      /\ active' = Head(pending) /\ pending' = Tail(pending)
      /\ terminal' = terminal
  BY DEF Queue!Claim
<1>2. /\ 1 \in DOMAIN pending
      /\ active' = pending[1]
      /\ DOMAIN pending' = 1 .. Len(pending) - 1
      /\ \A i \in 1 .. Len(pending) - 1 : pending'[i] = pending[i + 1]
  BY <1>0, <1>1
<1>3. PICK t \in PendingTickets : t = pending[1].ticket
  BY <1>2 DEF PendingTickets
<1>4. active' # NoRequest /\ active'.ticket = t
  BY <1>0, <1>2, <1>3, QueueAssumption DEF QP!Request
<1>5. /\ t \in Tickets /\ t <= accepted /\ outcome[t] = "none"
      /\ \A u \in PendingTickets : t <= u
  <2>1. \A i \in DOMAIN pending : i = 1 \/ pending[1].ticket < pending[i].ticket
    BY <1>0, <1>2 DEF History, IssueOrder
  <2>2. \A u \in PendingTickets : t <= u
    <3>1. \A i \in DOMAIN pending : pending[i].ticket \in Int
      BY <1>0 DEF PendingTickets
    <3>2. \A i \in DOMAIN pending : t <= pending[i].ticket
      BY <1>2, <1>3, <2>1, <3>1
    <3> QED
      BY <3>2 DEF PendingTickets
  <2> QED
    BY <1>0, <1>3, <2>2 DEF History, IssueOrder, Unanswered
<1>6. PendingTickets' = PendingTickets \ {t}
  <2>1. ASSUME NEW i \in DOMAIN pending'
        PROVE  pending'[i].ticket \in PendingTickets \ {t}
    <3>1. i + 1 \in DOMAIN pending /\ pending'[i] = pending[i + 1] /\ 1 < i + 1
      BY <1>0, <1>2
    <3>2. t < pending[i + 1].ticket /\ pending[i + 1].ticket \in PendingTickets
      BY <1>2, <1>3, <3>1 DEF History, IssueOrder, PendingTickets
    <3> QED
      BY <1>0, <1>5, <3>1, <3>2
  <2>2. ASSUME NEW i \in DOMAIN pending, pending[i].ticket # t
        PROVE  \E j \in DOMAIN pending' : pending'[j].ticket = pending[i].ticket
    <3>1. i # 1
      BY <1>3, <2>2
    <3>2. i - 1 \in DOMAIN pending' /\ pending'[i - 1] = pending[i]
      BY <1>0, <1>2, <3>1
    <3> QED
      BY <3>2
  <2> QED
    BY <2>1, <2>2 DEF PendingTickets
<1>7. IssueOrder'
  <2>1. ASSUME NEW i \in DOMAIN pending', NEW j \in DOMAIN pending', i < j
        PROVE  pending'[i].ticket < pending'[j].ticket
    <3>1. /\ i + 1 \in DOMAIN pending /\ pending'[i] = pending[i + 1]
          /\ j + 1 \in DOMAIN pending /\ pending'[j] = pending[j + 1]
          /\ i + 1 < j + 1
      BY <1>0, <1>2, <2>1
    <3> QED
      BY <3>1 DEF History, IssueOrder
  <2>2. \A u \in PendingTickets' : u <= accepted /\ t < u
    BY <1>0, <1>5, <1>6 DEF History, IssueOrder
  <2> QED
    BY <1>4, <1>5, <2>1, <2>2 DEF IssueOrder
<1>8. Unanswered'
  BY <1>4, <1>5, <1>6 DEF History, Unanswered
<1>9. AnswersObserved'
  BY <1>1 DEF History, AnswersObserved
<1>10. FateOf(t) = "queued" /\ FateOf(t)' = "running"
  <2>1. FateOf(t) = "queued"
    BY QueuedFate
  <2>2. ~(t > accepted') /\ outcome'[t] # "cleared"
    BY <1>0, <1>5
  <2> QED
    BY <1>4, <2>1, <2>2 DEF FateOf
<1>11. ASSUME NEW u \in Tickets, u # t
       PROVE  FateOf(u)' = FateOf(u)
  <2>1. (\E i \in DOMAIN pending' : pending'[i].ticket = u)
          <=> (\E i \in DOMAIN pending : pending[i].ticket = u)
    <3>1. u \in PendingTickets' <=> u \in PendingTickets
      BY <1>6, <1>11
    <3> QED
      BY <3>1 DEF PendingTickets
  <2> QED
    BY <1>1, <1>4, <1>11, <2>1 DEF FateOf
<1>12. Lifecycle!Start(t)
  <2> DEFINE fate == [u \in Tickets |-> FateOf(u)]
  <2>1. fate' = [fate EXCEPT ![t] = "running"]
    BY <1>5, <1>10, <1>11
  <2>2. ASSUME NEW u \in Tickets, FateOf(u) = "queued" PROVE u \in PendingTickets
    BY <1>0, <2>2 DEF FateOf, PendingTickets
  <2>3. ASSUME NEW u \in Tickets PROVE FateOf(u) # "running"
    <3>1. outcome[u] # "running"
      BY <1>0
    <3> QED
      BY <1>1, <3>1 DEF FateOf
  <2>4. t \in Lifecycle!Queued /\ \A u \in Lifecycle!Queued : t <= u
    BY <1>5, <1>10, <2>2 DEF Lifecycle!Queued
  <2> QED
    BY <2>1, <2>3, <2>4 DEF Lifecycle!Start
<1> QED
  BY <1>5, <1>7, <1>8, <1>9, <1>12 DEF History, Lifecycle!Next

(* The active request gets its answer.                                      *)
LEMMA RespondStep ==
  ASSUME IInv, History, Queue!Complete, UNCHANGED accepted, ObserveAnswers
  PROVE  History' /\ Lifecycle!Next
<1> DEFINE rs == <<QP!Answer(active, TRUE)>>
<1>0. /\ outcome \in [Tickets -> {"none", "executed", "cleared"}]
      /\ terminal \in Seq(QP!Response)
      /\ PendingTickets \subseteq Tickets
      /\ accepted \in Nat
      /\ active # NoRequest /\ active' = NoRequest /\ pending' = pending
      /\ active \in QP!Request
      /\ \A u \in Tickets : u \in Int
  BY PendingTyped, ServiceAssumption DEF IInv, LoopInv, Shape, Queue!Complete
<1>1. PICK t \in Tickets : t = active.ticket
  BY <1>0 DEF QP!Request
<1>2. /\ rs \in Seq(QP!Response)
      /\ Len(rs) = 1 /\ rs[1] = QP!Answer(active, TRUE)
  BY <1>0 DEF QP!Answer, QP!Request, QP!Response
<1>3. DOMAIN rs = {1}
  BY <1>2, LenProperties
<1> HIDE DEF rs
<1>4. rs[1].ticket = t /\ rs[1].executed = TRUE
  BY <1>1, <1>2 DEF QP!Answer
<1>5. Stored(rs)
  <2>1. Queue!Store(rs)
    BY SameWords DEF Queue!Complete, rs
  <2>2. Len(rs) <= TerminalCapacity
    BY <1>2, QueueAssumption
  <2> QED
    BY <1>0, <1>2, <2>1, <2>2, StoreKeepsNew
<1>6. /\ t <= accepted /\ outcome[t] = "none"
      /\ t \notin PendingTickets
  BY <1>0, <1>1 DEF History, IssueOrder, Unanswered
<1>7. /\ outcome' = [u \in Tickets |-> IF \E j \in DOMAIN rs : rs[j].ticket = u
                                       THEN Verdict(TRUE) ELSE outcome[u]]
      /\ AnswersObserved'
  BY <1>0, <1>3, <1>4, <1>5, <1>6, AnswersAreRead DEF History
<1>8. outcome' = [u \in Tickets |-> IF u = t THEN "executed" ELSE outcome[u]]
  BY <1>3, <1>4, <1>7 DEF Verdict
<1>9. PendingTickets' = PendingTickets
  BY <1>0 DEF PendingTickets
<1>10. IssueOrder'
  BY <1>0, <1>9 DEF History, IssueOrder
<1>11. Unanswered'
  <2>1. ~(t > accepted)
    BY <1>0, <1>6
  <2> QED
    BY <1>0, <1>6, <1>8, <1>9, <2>1 DEF History, Unanswered
<1>12. FateOf(t) = "running" /\ FateOf(t)' = "executed"
  <2>1. ~(t > accepted) /\ outcome[t] # "cleared" /\ outcome'[t] = "executed"
    BY <1>0, <1>6, <1>8
  <2>2. FateOf(t) = "running"
    BY <1>0, <1>1, <2>1 DEF FateOf
  <2>3. ~ \E i \in DOMAIN pending' : pending'[i].ticket = t
    BY <1>6, <1>9 DEF PendingTickets
  <2> QED
    BY <1>0, <2>1, <2>2, <2>3 DEF FateOf
<1>13. ASSUME NEW u \in Tickets, u # t
       PROVE  FateOf(u)' = FateOf(u)
  BY <1>0, <1>1, <1>8, <1>13 DEF FateOf
<1>14. Lifecycle!Finish(t)
  <2> DEFINE fate == [u \in Tickets |-> FateOf(u)]
  <2>1. fate' = [fate EXCEPT ![t] = "executed"]
    BY <1>12, <1>13
  <2> QED
    BY <1>12, <2>1 DEF Lifecycle!Finish
<1> QED
  BY <1>7, <1>10, <1>11, <1>14 DEF History, Lifecycle!Next

-----------------------------------------------------------------------------
(* A withdrawal flags the running request, takes a waiting one out, or      *)
(* finds neither.                                                           *)
LEMMA CancelStep ==
  ASSUME IInv, History, NEW id, Queue!Withdraw(id), UNCHANGED <<active, accepted>>, ObserveAnswers
  PROVE  History' /\ [Lifecycle!Next]_Fate
<1>1. CASE UNCHANGED <<pending, terminal>>
  BY <1>1, QuietStep
<1>2. ASSUME NEW i \in DOMAIN pending,
             pending' = Queue!RemoveAt(pending, i),
             Queue!Store(<<Queue!Answer(pending[i], FALSE)>>)
      PROVE  History' /\ Lifecycle!Next
  BY <1>2, WithdrawStep
<1> QED
  BY <1>1, <1>2 DEF Queue!Withdraw

(* Every step of every thread is a step of the lifecycle or a stutter.      *)
LEMMA LifecycleStep ==
  ASSUME IInv, History, [Next]_vars
  PROVE  History' /\ [Lifecycle!Next]_Fate
<1> DEFINE Goal == History' /\ [Lifecycle!Next]_Fate
<1> SUFFICES Goal
  OBVIOUS
<1>1. ASSUME UNCHANGED <<pending, active, terminal, accepted>>, ObserveAnswers \/ UNCHANGED outcome
      PROVE  Goal
  BY <1>1, QuietStep
<1>2. ASSUME Queue!Drain, UNCHANGED <<active, accepted>>, ObserveAnswers
      PROVE  Goal
  BY <1>2, DrainStep
<1> HIDE DEF Goal
<1>3. ASSUME NEW c \in Clients, NEW id \in RequestIds, NEW op \in Operations, SubmitRequest(c, id, op)
      PROVE  Goal
  <2> DEFINE r == [id |-> id, op |-> op, ticket |-> accepted + 1]
  <2>1. PICK t \in Tickets : t = accepted + 1
    BY <1>3, ServiceAssumption DEF SubmitRequest, IInv, LoopInv, Shape
  <2>2. r \in QP!Request /\ r.ticket = t
    BY <2>1 DEF QP!Request
  <2>3. /\ pending' = Append(pending, r) /\ accepted' = t
        /\ UNCHANGED <<active, terminal, outcome>>
    BY <1>3, <2>1 DEF SubmitRequest, Queue!Submit
  <2> HIDE DEF r
  <2> QED
    BY <2>1, <2>2, <2>3, SubmitStep DEF Goal
<1>4. ASSUME NEW c \in Clients, NEW id \in RequestIds, NEW op \in OutOfBand, ReserveOutOfBand(c, id, op)
      PROVE  Goal
  BY <1>1, <1>4 DEF ReserveOutOfBand, Queue!ReserveImmediate, historyVars
<1>5. ASSUME NEW c \in Clients, ClientStep(c)
      PROVE  Goal
  <2>0. client[c] \in ClientState
    BY DEF IInv, LoopInv, Shape
  <2>1. CASE WaitReturns(c)
    BY <1>1, <2>1 DEF WaitReturns, queueVars, historyVars
  <2>2. CASE WaitExpires(c)
    BY <2>2, CancelStep DEF WaitExpires, Queue!ExpireWait, Goal
  <2>3. CASE CompleteOutOfBand(c)
    <3>1. client[c].id \in RequestIds
      BY <2>0, <2>3 DEF CompleteOutOfBand, ClientState, Idle
    <3> QED
      BY <2>3, <3>1, ImmediateStep DEF CompleteOutOfBand, Goal
  <2>4. CASE ApplyOutOfBand(c)
    <3>1. /\ UNCHANGED accepted /\ ObserveAnswers
          /\ \/ \E target \in RequestIds : Queue!Cancel(target)
             \/ Queue!CancelCurrent
             \/ Queue!Estop
             \/ UNCHANGED queueVars
      BY <2>4 DEF ApplyOutOfBand
    <3>2. ASSUME NEW target \in RequestIds, Queue!Cancel(target)
          PROVE  Goal
      BY <3>1, <3>2, CancelStep DEF Queue!Cancel, Goal
    <3>3. CASE Queue!CancelCurrent \/ UNCHANGED queueVars
      BY <1>1, <3>1, <3>3 DEF Queue!CancelCurrent, queueVars
    <3>4. CASE Queue!Estop
      BY <1>2, <3>1, <3>4 DEF Queue!Estop
    <3> QED
      BY <3>1, <3>2, <3>3, <3>4
  <2> QED
    BY <1>5, <2>1, <2>2, <2>3, <2>4 DEF ClientStep
<1>6. CASE RequestQuit \/ AppCloses \/ Interrupt \/ UNCHANGED vars
  BY <1>1, <1>6 DEF RequestQuit, AppCloses, Interrupt, queueVars, historyVars, vars
<1>7. CASE OwnerStep
  <2>1. CASE UNCHANGED <<pending, active, terminal, accepted, outcome>>
    BY <1>1, <2>1
  <2>2. CASE TakeRequest
    BY <2>2, ClaimStep DEF TakeRequest, Goal
  <2>3. CASE BeginReset
    <3>1. UNCHANGED accepted /\ ObserveAnswers /\ (Queue!CancelPending \/ UNCHANGED queueVars)
      BY <2>3 DEF BeginReset
    <3>2. CASE Queue!CancelPending
      BY <1>2, <3>1, <3>2 DEF Queue!CancelPending
    <3>3. CASE UNCHANGED queueVars
      BY <1>1, <3>1, <3>3 DEF queueVars
    <3> QED
      BY <3>1, <3>2, <3>3
  <2>4. CASE Respond
    BY <2>4, RespondStep DEF Respond, Goal
  <2>5. CASE CloseController
    BY <1>2, <2>5 DEF CloseController, Queue!Close
  <2>6. \/ TakeRequest \/ BeginReset \/ Respond \/ CloseController
        \/ UNCHANGED <<pending, active, terminal, accepted, outcome>>
    BY <1>7 DEF OwnerStep, LoopContinues, LeaveLoop, PollTimesOut, AfterPoll, IdleTick, BeginMotion, BeginHybrid,
       BeginMutate, BeginRestore, BeginQuery, MotionCheck, MotionTick, RampTick, Handover, Apply,
       HoldTick, Unlatch, Queue!ClearEstop, CloseControllerAgain, queueVars, historyVars
  <2> QED
    BY <2>1, <2>2, <2>3, <2>4, <2>5, <2>6
<1> QED
  BY <1>3, <1>4, <1>5, <1>6, <1>7 DEF Next

(* Nothing is issued at first.                                              *)
LEMMA InitHasHistory == Init => History /\ Lifecycle!Init
<1> SUFFICES ASSUME Init PROVE History /\ Lifecycle!Init
  OBVIOUS
<1>1. /\ pending = <<>> /\ active = NoRequest /\ terminal = <<>> /\ accepted = 0
      /\ outcome = [t \in Tickets |-> "none"]
  BY DEF Init, Queue!Init
<1>2. PendingTickets = {}
  BY <1>1 DEF PendingTickets
<1>3. History
  BY <1>1, <1>2 DEF History, IssueOrder, Unanswered, AnswersObserved
<1>4. \A t \in Tickets : FateOf(t) = "unissued"
  BY <1>1, ServiceAssumption DEF FateOf
<1> QED
  BY <1>3, <1>4 DEF Lifecycle!Init

(* Each accepted request waits, runs at most once, alone and in order, or   *)
(* is cleared without running, whatever the threads interleave.             *)
THEOREM ServiceImplementsLifecycle == Spec => ImplementsLifecycle
<1>1. Init => IInv /\ History /\ Lifecycle!Init
  BY InitHasIInv, InitHasHistory
<1>2. IInv /\ History /\ [Next]_vars => IInv' /\ History' /\ [Lifecycle!Next]_Fate
  BY NextKeepsIInv, LifecycleStep
<1> QED
  BY <1>1, <1>2, PTL DEF Spec, ImplementsLifecycle, Lifecycle!Spec, Fate

-----------------------------------------------------------------------------
(* What the lifecycle promises, the service keeps. *)

(* When a request was started, every earlier one is over: executed before   *)
(* it, or cleared.                                                         *)
ServedInOrder ==
  \A t, u \in Tickets :
    t < u /\ FateOf(u) \in {"running", "executed"}
      => FateOf(t) \in {"executed", "cleared"}

-----------------------------------------------------------------------------
(* The variant behind QuitStops and AcceptedIsAnswered. *)

(* The steps the owner takes at most before it is back at its loop, and     *)
(* from there to its end when it is to leave it.                           *)
Rest ==
  IF At("polling") THEN 10 + RampTicks + 2 * MotionTicks + IdleTicks
  ELSE IF At("begin") THEN 9 + RampTicks + 2 * MotionTicks + IdleTicks
  ELSE IF At("check") THEN 8 + RampTicks + 2 * owner.left
  ELSE IF At("tick") THEN 7 + RampTicks + 2 * owner.left
  ELSE IF At("ramp") THEN 6 + owner.left
  ELSE IF At("handover") THEN 6
  ELSE IF At("apply") THEN 7 + IdleTicks
  ELSE IF At("hold") THEN 6 + owner.left
  ELSE IF At("unlatch") THEN 6
  ELSE IF At("respond") THEN 5
  ELSE IF At("polled") THEN 5 + IdleTicks
  ELSE IF At("idle") THEN 4 + owner.left
  ELSE IF At("loop") THEN 4
  ELSE IF At("closing") THEN 2
  ELSE IF At("closing_again") THEN 1 ELSE 0

Leaving == quit \/ ~appRunning

OwnerProgresses ==
  [][ /\ LoopContinues \/ Rest' <= Rest
      /\ OwnerStep \/ Interrupt => LoopContinues \/ Rest' < Rest
      /\ Leaving => Leaving' /\ ~LoopContinues ]_vars

LifecycleInv ==
  /\ Fate \in [Tickets -> Lifecycle!Fates]
  /\ \A t, u \in Tickets : t < u /\ Fate[u] # "unissued" => Fate[t] # "unissued"
  /\ \A t, u \in Tickets :
       t < u /\ Fate[u] \in {"running", "executed"} => Fate[t] \in {"executed", "cleared"}

Answered == {"executed", "cleared"}

LEMMA LifecycleKeepsOrder ==
  ASSUME LifecycleInv, [Lifecycle!Next]_Fate
  PROVE  /\ LifecycleInv'
         /\ \A t \in Tickets : Fate[t] \in Answered => Fate'[t] = Fate[t]
<1>1. Tickets \subseteq Int
  BY ServiceAssumption
<1>2. CASE UNCHANGED Fate
  BY <1>2 DEF LifecycleInv
<1>3. CASE \E t \in Tickets : Lifecycle!Accept(t)
  <2>1. PICK t \in Tickets :
          /\ Fate[t] = "unissued" /\ Fate' = [Fate EXCEPT ![t] = "queued"]
          /\ \A u \in Tickets : u < t => Fate[u] # "unissued"
    BY <1>3 DEF Lifecycle!Accept, Fate
  <2> QED
    BY <1>1, <2>1 DEF LifecycleInv, Lifecycle!Fates, Answered
<1>4. CASE \E t \in Tickets : Lifecycle!Start(t)
  <2>1. PICK t \in Tickets :
          /\ Fate[t] = "queued" /\ Fate' = [Fate EXCEPT ![t] = "running"]
          /\ \A u \in Tickets : Fate[u] = "queued" => t <= u
          /\ \A u \in Tickets : Fate[u] # "running"
    BY <1>4 DEF Lifecycle!Start, Lifecycle!Queued, Fate
  <2> QED
    BY <1>1, <2>1 DEF LifecycleInv, Lifecycle!Fates, Answered
<1>5. CASE \E t \in Tickets : Lifecycle!Finish(t)
  <2>1. PICK t \in Tickets :
          Fate[t] = "running" /\ Fate' = [Fate EXCEPT ![t] = "executed"]
    BY <1>5 DEF Lifecycle!Finish, Fate
  <2> QED
    BY <1>1, <2>1 DEF LifecycleInv, Lifecycle!Fates, Answered
<1>6. CASE \E S \in SUBSET Lifecycle!Queued : Lifecycle!Clear(S)
  <2>1. PICK S \in SUBSET Lifecycle!Queued :
          Fate' = [t \in Tickets |-> IF t \in S THEN "cleared" ELSE Fate[t]]
    BY <1>6 DEF Lifecycle!Clear, Fate
  <2>2. \A t \in S : Fate[t] = "queued"
    BY <2>1 DEF Lifecycle!Queued, Fate
  <2> QED
    BY <1>1, <2>1, <2>2 DEF LifecycleInv, Lifecycle!Fates, Answered
<1> QED
  BY <1>2, <1>3, <1>4, <1>5, <1>6 DEF Lifecycle!Next

LEMMA LifecycleInvHolds == Spec => []LifecycleInv
<1>1. Lifecycle!Init => LifecycleInv
  BY DEF Lifecycle!Init, Lifecycle!Fates, LifecycleInv, Fate
<1>2. LifecycleInv /\ [Lifecycle!Next]_Fate => LifecycleInv'
  BY LifecycleKeepsOrder
<1> QED
  BY <1>1, <1>2, ServiceImplementsLifecycle, PTL DEF ImplementsLifecycle, Lifecycle!Spec, Fate

(* No request overtakes an earlier one that was not withdrawn, whichever    *)
(* threads submitted the two.                                              *)
THEOREM RequestsServedInOrder == Spec => []ServedInOrder
<1>1. LifecycleInv => ServedInOrder
  BY DEF LifecycleInv, ServedInOrder, Fate
<1> QED
  BY <1>1, LifecycleInvHolds, PTL

(* What a request was answered with is never revised: a cleared one is not  *)
(* run after all, an executed one not reported as cleared.                 *)
THEOREM AnswersAreFinal ==
  Spec => [][\A t \in Tickets : FateOf(t) \in Answered => FateOf(t)' = FateOf(t)]_Fate
<1>1. LifecycleInv /\ [Lifecycle!Next]_Fate
        => [\A t \in Tickets : FateOf(t) \in Answered => FateOf(t)' = FateOf(t)]_Fate
  BY LifecycleKeepsOrder DEF Fate
<1> QED
  BY <1>1, LifecycleInvHolds, ServiceImplementsLifecycle, PTL
     DEF ImplementsLifecycle, Lifecycle!Spec, Fate

(* The values of Rest, one for each kind of place. *)
LEMMA RestIsNat == (IInv => Rest \in Nat) /\ (IInv' => Rest' \in Nat)
<1> DEFINE Rests(left) ==
      {10 + RampTicks + 2 * MotionTicks + IdleTicks,
       9 + RampTicks + 2 * MotionTicks + IdleTicks, 8 + RampTicks + 2 * left,
       7 + RampTicks + 2 * left, 7 + IdleTicks, 5 + IdleTicks, 6 + left, 4 + left,
       0, 1, 2, 4, 5, 6}
<1>1. (IInv => owner.left \in Nat) /\ (IInv' => owner'.left \in Nat)
  BY DEF IInv, LoopInv, Shape
<1>2. Rest \in Rests(owner.left)
  BY DEF Rest, At
<1>3. Rest' \in Rests(owner'.left)
  BY DEF Rest, At
<1>4. \A left \in Nat : Rests(left) \subseteq Nat
  BY ServiceAssumption
<1> HIDE DEF Rests
<1> QED
  BY <1>1, <1>2, <1>3, <1>4

LEMMA OwnerStepsOn ==
  ASSUME IInv, IInv', OwnerStep \/ Interrupt, ~LoopContinues
  PROVE  Rest' < Rest
<1> USE ServiceAssumption DEF At, Goto
<1>1. /\ owner.left \in Int /\ owner'.left \in Int
      /\ RampTicks \in Nat /\ MotionTicks \in Nat /\ IdleTicks \in Nat
      /\ OwnerTicks /\ owner \in [pc : OwnerPcs, left : 0 .. MotionTicks + IdleTicks + RampTicks]
      /\ OwnerTicks' /\ owner' \in [pc : OwnerPcs, left : 0 .. MotionTicks + IdleTicks + RampTicks]
  BY DEF IInv, LoopInv, Shape
<1>2. CASE LeaveLoop
  BY <1>1, <1>2 DEF LeaveLoop, Rest
<1>3. CASE TakeRequest \/ PollTimesOut
  <2>1. At("polling") /\ owner'.pc \in {"begin", "polled"}
    BY <1>1, <1>3 DEF TakeRequest, PollTimesOut
  <2> QED
    BY <1>1, <2>1 DEF Rest
<1>4. CASE AfterPoll
  BY <1>1, <1>4 DEF AfterPoll, Rest
<1>5. CASE IdleTick
  BY <1>1, <1>5 DEF IdleTick, Rest, OwnerTicks
<1>6. CASE BeginMotion \/ BeginHybrid
  <2>1. At("begin") /\ owner' \in {[pc |-> "check", left |-> MotionTicks], [pc |-> "respond", left |-> 0]}
    BY <1>6 DEF BeginMotion, BeginHybrid
  <2> QED
    BY <1>1, <2>1 DEF Rest
<1>7. CASE BeginMutate \/ BeginRestore \/ BeginReset \/ BeginQuery
  <2>1. At("begin") /\ owner'.pc \in {"respond", "apply"}
    BY <1>1, <1>7 DEF BeginMutate, BeginRestore, BeginReset, BeginQuery
  <2> QED
    BY <1>1, <2>1 DEF Rest
<1>8. CASE MotionCheck \/ MotionTick
  <2>1. CASE At("check") /\ owner'.pc = "tick" /\ owner'.left = owner.left
    BY <1>1, <2>1 DEF Rest
  <2>2. CASE At("tick") /\ owner'.pc = "check" /\ owner'.left = owner.left - 1
    BY <1>1, <2>2 DEF Rest
  <2>3. CASE owner.pc \in {"check", "tick"} /\ owner' = EndOfTicks
    <3>1. owner' \in {[pc |-> "ramp", left |-> RampTicks], [pc |-> "respond", left |-> 0]}
      BY <2>3 DEF EndOfTicks
    <3>2. Rest \in Nat /\ Rest >= 7 + RampTicks
      BY <1>1, <2>3, RestIsNat DEF Rest
    <3>3. Rest' \in {5, 6 + RampTicks}
      BY <3>1 DEF Rest
    <3> QED
      BY <1>1, <3>2, <3>3
  <2>4. CASE MotionCheck
    BY <1>1, <2>1, <2>3, <2>4 DEF MotionCheck
  <2>5. CASE MotionTick
    <3>1. At("tick") /\ owner' \in {[pc |-> "check", left |-> owner.left - 1], EndOfTicks}
      BY <2>5 DEF MotionTick
    <3>2. CASE owner' = [pc |-> "check", left |-> owner.left - 1]
      BY <2>2, <3>1, <3>2
    <3>3. CASE owner' = EndOfTicks
      BY <2>3, <3>1, <3>3 DEF At
    <3> QED
      BY <3>1, <3>2, <3>3
  <2> QED
    BY <1>8, <2>4, <2>5
<1>9. CASE RampTick
  BY <1>1, <1>9 DEF RampTick, Rest, OwnerTicks
<1>10. CASE Handover \/ Apply \/ Unlatch \/ Respond
  <2>1. CASE At("handover") /\ owner'.pc = "respond"
    BY <1>1, <2>1 DEF Rest
  <2>2. CASE At("apply") /\ owner'.pc \in {"respond", "unlatch"}
    BY <1>1, <2>2 DEF Rest
  <2>3. CASE At("apply") /\ owner' = [pc |-> "hold", left |-> IdleTicks]
    BY <1>1, <2>3 DEF Rest
  <2>4. CASE At("unlatch") /\ owner'.pc = "respond"
    BY <1>1, <2>4 DEF Rest
  <2>5. CASE At("respond") /\ owner'.pc = "loop"
    BY <1>1, <2>5 DEF Rest
  <2> QED
    BY <1>1, <1>10, <2>1, <2>2, <2>3, <2>4, <2>5 DEF Handover, Apply, Committed, Unlatch, Respond
<1>11. CASE HoldTick
  BY <1>1, <1>11 DEF HoldTick, Rest, OwnerTicks
<1>12. CASE CloseController \/ CloseControllerAgain \/ Interrupt
  <2>1. CASE At("closing") /\ owner'.pc \in {"stopped", "closing_again"}
    BY <1>1, <2>1 DEF Rest
  <2>2. CASE At("closing_again") /\ owner'.pc = "stopped"
    BY <1>1, <2>2 DEF Rest
  <2>3. CASE Interrupt
    BY <1>1, <2>3 DEF Interrupt, Rest, OwnerPcs
  <2> QED
    BY <1>1, <1>12, <2>1, <2>2, <2>3 DEF CloseController, CloseControllerAgain
<1> QED
  BY <1>2, <1>3, <1>4, <1>5, <1>6, <1>7, <1>8, <1>9, <1>10, <1>11, <1>12 DEF OwnerStep

LEMMA OthersLeaveOwner ==
  ASSUME Next, ~(OwnerStep \/ Interrupt)
  PROVE  owner' = owner
BY DEF Next, SubmitRequest, ReserveOutOfBand, ClientStep, WaitReturns, WaitExpires,
   ApplyOutOfBand, CompleteOutOfBand, RequestQuit, AppCloses

LEMMA ExitIsKept ==
  ASSUME Next, Leaving
  PROVE  Leaving'
<1>1. CASE OwnerStep \/ Interrupt
  BY <1>1 DEF Leaving, OwnerStep, LoopContinues, LeaveLoop, TakeRequest, PollTimesOut, AfterPoll, IdleTick,
     BeginMotion, BeginHybrid, BeginMutate, BeginRestore, BeginReset, BeginQuery, MotionCheck,
     MotionTick, RampTick, Handover, Apply, SignalExit, HoldTick, Unlatch, Respond,
     CloseController, CloseControllerAgain, Interrupt
<1>2. CASE RequestQuit \/ AppCloses
  BY <1>2 DEF Leaving, RequestQuit, AppCloses
<1>3. ASSUME NEW c \in Clients, ClientStep(c)
      PROVE  appRunning' = appRunning /\ (quit' = quit \/ quit')
  <2>1. ApplyOutOfBand(c) => appRunning' = appRunning /\ (quit' = quit \/ quit')
    BY DEF ApplyOutOfBand
  <2> QED
    BY <1>3, <2>1 DEF ClientStep, WaitReturns, WaitExpires, CompleteOutOfBand
<1>4. ASSUME NEW c \in Clients, NEW id \in RequestIds,
             \/ \E op \in Operations : SubmitRequest(c, id, op)
             \/ \E op \in OutOfBand : ReserveOutOfBand(c, id, op)
      PROVE  appRunning' = appRunning /\ quit' = quit
  BY <1>4 DEF SubmitRequest, ReserveOutOfBand
<1> QED
  BY <1>1, <1>2, <1>3, <1>4 DEF Next, Leaving

(* Whatever it does, the owner is back at its loop after a bounded number   *)
(* of its own steps, which no other thread can raise; once there is a way   *)
(* out it is never taken back and the loop starts no other round, so that   *)
(* number bounds the owner's end.  It counts the request that a quit set    *)
(* between the loop's check and its poll still lets the owner take and run. *)
THEOREM OwnerComesBack == Spec => OwnerProgresses
<1> DEFINE Progress ==
      /\ LoopContinues \/ Rest' <= Rest
      /\ OwnerStep \/ Interrupt => LoopContinues \/ Rest' < Rest
      /\ Leaving => Leaving' /\ ~LoopContinues
<1>1. ASSUME IInv, IInv', [Next]_vars PROVE [Progress]_vars
  <2> SUFFICES ASSUME Next PROVE Progress
    BY <1>1
  <2>1. Rest \in Nat /\ Rest' \in Nat
    BY <1>1, RestIsNat
  <2>2. ~(OwnerStep \/ Interrupt) => Rest' = Rest
    BY OthersLeaveOwner DEF Rest, At
  <2>3. (OwnerStep \/ Interrupt) /\ ~LoopContinues => Rest' < Rest
    BY <1>1, OwnerStepsOn
  <2>4. Leaving => Leaving' /\ ~LoopContinues
    BY ExitIsKept DEF Leaving, LoopContinues
  <2> QED
    BY <2>1, <2>2, <2>3, <2>4
<1>2. Spec => []IInv
  BY ServiceInvariant
<1> QED
  BY <1>1, <1>2, PTL DEF Spec, OwnerProgresses
=============================================================================
