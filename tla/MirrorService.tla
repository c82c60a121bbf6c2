---------------------------- MODULE MirrorService ----------------------------
(***************************************************************************)
(* The interactive Mirror runtime as its threads see it: ingress           *)
(* connections (transport.py, MirrorController.submit_and_wait) that share *)
(* one admission queue with the runtime owner thread (app.py run_mirror,   *)
(* MirrorController.process_next), which alone runs operations, advances   *)
(* physics and closes the runtime.                                         *)
(*                                                                         *)
(* A step is what a thread does between two points where another thread    *)
(* can act: one call into the queue, one physics tick, one engine          *)
(* transaction.                                                            *)
(***************************************************************************)
EXTENDS Integers, Sequences, FiniteSets

CONSTANTS
  Clients,          \* ingress connections: one outstanding request each
  RequestIds, Tickets, Capacity, TerminalCapacity, NoRequest, NoTicket,
  MotionTicks,      \* bound: physics ticks of one motion
  IdleTicks,        \* _idle_hold_step_count
  RampTicks         \* limits.ramp_down_ticks of a hybrid motion

(* motion   motion.* and control.tare_wrench: ticks with cancel checks      *)
(* hybrid   motion.hybrid_force_position: the same under an effort override *)
(*          that is ramped down, tick by tick, however the motion ends      *)
(* mutate   state.set, control.set_mode, control.set_hybrid_parameters      *)
(* restore  snapshot.set                                                    *)
(* reset    runtime.reset; reset_keep with clear_queue = false              *)
(* query    the read-only operations                                        *)
Operations ==
  {"motion", "hybrid", "mutate", "restore", "reset", "reset_keep", "query"}
GuardedOperations == {"motion", "hybrid", "mutate"}

(* _OUT_OF_BAND_OPERATIONS *)
OutOfBand == {"cancel", "cancel_current", "estop", "quit"}

MaxSubmissions == Cardinality(Tickets)

ASSUME ServiceAssumption ==
  /\ MaxSubmissions \in Nat
  /\ Tickets = 1 .. MaxSubmissions
  /\ NoTicket \notin Tickets
  /\ MotionTicks \in Nat \ {0}
  /\ IdleTicks \in Nat \ {0}
  /\ RampTicks \in Nat \ {0}

(* What the queue assumes of its constants. *)
ASSUME QueueAssumption ==
  /\ Capacity \in Nat \ {0}
  /\ TerminalCapacity \in Nat
  /\ TerminalCapacity >= Capacity
  /\ NoRequest \notin [id : RequestIds, op : Operations, ticket : Tickets]

VARIABLES
  pending, active, terminal, reserved, cancelled, closed, estopped,
  client,      \* what each ingress thread is doing
  owner,       \* where the owner thread is, and the ticks it has left
  quit,        \* MirrorController._quit
  appRunning,  \* SimulationApp.is_running
  fatal,       \* a fatal_error is set, on MirrorRuntime or on the scene resources
  accepted,    \* history: submissions accepted so far
  outcome,     \* history: the answer each accepted submission got
  inHand,      \* history: engine work still allowed under the estop latch
  sawLatch,    \* history: the active request was claimed under the latch
  interrupted  \* history: an exception escaped the owner loop

queueVars == <<pending, active, terminal, reserved, cancelled, closed, estopped>>
historyVars == <<accepted, outcome, inHand, sawLatch, interrupted>>
vars == <<queueVars, client, owner, quit, appRunning, fatal, historyVars>>

Queue == INSTANCE MirrorAdmission

Idle == [pc |-> "idle"]

(* The history of answers is read off the responses the queue retains. *)
ObserveAnswers ==
  outcome' = [t \in Tickets |->
    IF \E i \in DOMAIN terminal' : terminal'[i].ticket = t
      THEN IF \E i \in DOMAIN terminal' :
                terminal'[i].ticket = t /\ terminal'[i].executed
             THEN "executed" ELSE "cleared"
      ELSE outcome[t]]

At(pc) == owner.pc = pc
Goto(pc) == owner' = [owner EXCEPT !.pc = pc]

IsReset(r) == r.op \in {"reset", "reset_keep"}

(* The engine work the owner has decided on: it read the latch or the       *)
(* cancel flag, let go of the lock and has not acted yet.  A hybrid motion  *)
(* under its override also owes a ramp, a running reset its hold.           *)
Work == {"idle", "tick", "ramp", "hold", "mutation"}
WorkInHand(w) ==
  CASE w = "idle" /\ At("idle") -> owner.left
    [] w = "tick" /\ At("tick") -> 1
    [] w = "ramp" /\ At("ramp") -> owner.left
    [] w = "ramp" /\ owner.pc \in {"check", "tick"} /\ active.op = "hybrid" -> RampTicks
    [] w = "hold" /\ At("hold") -> owner.left
    [] w = "hold" /\ owner.pc \in {"begin", "apply"} /\ IsReset(active) -> IdleTicks
    [] w = "mutation" /\ At("apply") /\ active.op = "mutate" -> 1
    [] OTHER -> 0
NoWork == [w \in Work |-> 0]

(* Work done under the latch is taken off what was in hand when it was set. *)
Spend(w) == inHand' = IF estopped THEN [inHand EXCEPT ![w] = @ - 1] ELSE inHand

-----------------------------------------------------------------------------
(* Ingress threads.  A refused submission returns its error at once and    *)
(* changes nothing, so it is not a step.                                   *)

SubmitRequest(c, id, op) ==
  /\ client[c] = Idle
  /\ accepted < MaxSubmissions
  /\ LET r == [id |-> id, op |-> op, ticket |-> accepted + 1] IN
       /\ Queue!Submit(r)
       /\ client' = [client EXCEPT ![c] =
                       [pc |-> "waiting", id |-> id, ticket |-> r.ticket]]
  /\ accepted' = accepted + 1
  /\ UNCHANGED <<owner, quit, appRunning, fatal, outcome, inHand, sawLatch, interrupted>>

(* wait_response finds a retained answer under its id. *)
WaitReturns(c) ==
  /\ client[c].pc = "waiting"
  /\ client[c].id \in Queue!IdsOf(terminal)
  /\ client' = [client EXCEPT ![c] = Idle]
  /\ UNCHANGED <<queueVars, owner, quit, appRunning, fatal, historyVars>>

(* wait_response reaches its deadline. *)
WaitExpires(c) ==
  /\ client[c].pc = "waiting"
  /\ Queue!ExpireWait(client[c].id)
  /\ ObserveAnswers
  /\ client' = [client EXCEPT ![c] = Idle]
  /\ UNCHANGED <<owner, quit, appRunning, fatal, accepted, inHand, sawLatch, interrupted>>

ReserveOutOfBand(c, id, op) ==
  /\ client[c] = Idle
  /\ Queue!ReserveImmediate(id)
  /\ client' = [client EXCEPT ![c] = [pc |-> "reserved", id |-> id, op |-> op]]
  /\ UNCHANGED <<owner, quit, appRunning, fatal, historyVars>>

(* _dispatch on the ingress thread. *)
ApplyOutOfBand(c) ==
  /\ client[c].pc = "reserved"
  /\ \/ /\ client[c].op = "cancel"
        /\ \E target \in RequestIds : Queue!Cancel(target)
        /\ UNCHANGED <<quit, inHand>>
     \/ /\ client[c].op = "cancel_current"
        /\ Queue!CancelCurrent
        /\ UNCHANGED <<quit, inHand>>
     \/ /\ client[c].op = "estop"
        /\ Queue!Estop
        /\ inHand' = IF estopped THEN inHand ELSE [w \in Work |-> WorkInHand(w)]
        /\ UNCHANGED quit
     \/ /\ client[c].op = "quit"
        /\ quit' = TRUE
        /\ UNCHANGED <<queueVars, inHand>>
  /\ ObserveAnswers
  /\ client' = [client EXCEPT ![c].pc = "applied"]
  /\ UNCHANGED <<owner, appRunning, fatal, accepted, sawLatch, interrupted>>

CompleteOutOfBand(c) ==
  /\ client[c].pc = "applied"
  /\ Queue!CompleteImmediate(client[c].id)
  /\ ObserveAnswers
  /\ client' = [client EXCEPT ![c] = Idle]
  /\ UNCHANGED <<owner, quit, appRunning, fatal, accepted, inHand, sawLatch, interrupted>>

(* End of file on stdin. *)
RequestQuit ==
  /\ quit' = TRUE
  /\ UNCHANGED <<queueVars, client, owner, appRunning, fatal, historyVars>>

(* The user closes the application window. *)
AppCloses ==
  /\ appRunning' = FALSE
  /\ UNCHANGED <<queueVars, client, owner, quit, fatal, historyVars>>

ClientStep(c) == WaitReturns(c) \/ WaitExpires(c) \/ ApplyOutOfBand(c) \/ CompleteOutOfBand(c)

-----------------------------------------------------------------------------
(* Owner thread: the event loop *)

(* The loop looks for a way out, then polls: a quit that arrives in between *)
(* is seen after one more request.                                         *)
LoopContinues_IgnoresQuit ==
  /\ At("loop")
  /\ appRunning
  /\ Goto("polling")
  /\ UNCHANGED <<queueVars, client, quit, appRunning, fatal, historyVars>>
LoopContinues ==
  /\ At("loop")
  /\ ~quit /\ appRunning
  /\ Goto("polling")
  /\ UNCHANGED <<queueVars, client, quit, appRunning, fatal, historyVars>>

LeaveLoop ==
  /\ At("loop")
  /\ quit \/ ~appRunning
  /\ Goto("closing")
  /\ UNCHANGED <<queueVars, client, quit, appRunning, fatal, historyVars>>

(* A reset claimed under the latch brings its own hold.                     *)
TakeRequest ==
  /\ At("polling")
  /\ Queue!Claim
  /\ Goto("begin")
  /\ sawLatch' = estopped
  /\ inHand' = IF estopped /\ IsReset(Head(pending)) THEN [inHand EXCEPT !["hold"] = IdleTicks]
               ELSE inHand
  /\ UNCHANGED <<client, quit, appRunning, fatal, accepted, outcome, interrupted>>

(* claim times out on an empty queue. *)
PollTimesOut ==
  /\ At("polling")
  /\ pending = <<>>
  /\ Goto("polled")
  /\ UNCHANGED <<queueVars, client, quit, appRunning, fatal, historyVars>>

(* The loop reads the latch once before a batch of idle ticks. *)
AfterPoll ==
  /\ At("polled")
  /\ owner' = IF estopped THEN [pc |-> "loop", left |-> 0]
                          ELSE [pc |-> "idle", left |-> IdleTicks]
  /\ UNCHANGED <<queueVars, client, quit, appRunning, fatal, historyVars>>

IdleTick ==
  /\ At("idle")
  /\ Spend("idle")
  /\ owner' = [pc |-> IF owner.left = 1 THEN "loop" ELSE "idle",
               left |-> owner.left - 1]
  /\ UNCHANGED <<queueVars, client, quit, appRunning, fatal, accepted, outcome, sawLatch, interrupted>>

-----------------------------------------------------------------------------
(* Owner thread: _dispatch *)

BeginMotion ==
  /\ At("begin")
  /\ active.op = "motion"
  /\ owner' \in {[pc |-> "check", left |-> MotionTicks],
                 [pc |-> "respond", left |-> 0]}    \* parsing or planning failed
  /\ UNCHANGED <<queueVars, client, quit, appRunning, fatal, historyVars>>

(* Preflight fails, or the motion is cancelled before it overrides the      *)
(* controller, or the override is in place and its ticks begin.            *)
BeginHybrid ==
  /\ At("begin")
  /\ active.op = "hybrid"
  /\ \/ owner' = [pc |-> "respond", left |-> 0]
     \/ /\ ~Queue!ShouldCancel(active.id)
        /\ owner' = [pc |-> "check", left |-> MotionTicks]
  /\ UNCHANGED <<queueVars, client, quit, appRunning, fatal, historyVars>>

BeginMutate_LooksNoMore ==
  /\ At("begin")
  /\ active.op = "mutate"
  /\ Goto("apply")
  /\ UNCHANGED <<queueVars, client, quit, appRunning, fatal, historyVars>>
BeginMutate ==
  /\ At("begin")
  /\ active.op = "mutate"
  /\ Goto(IF estopped THEN "respond" ELSE "apply")
  /\ UNCHANGED <<queueVars, client, quit, appRunning, fatal, historyVars>>

BeginRestore ==
  /\ At("begin")
  /\ active.op = "restore"
  /\ Goto("apply")
  /\ UNCHANGED <<queueVars, client, quit, appRunning, fatal, historyVars>>

BeginReset ==
  /\ At("begin")
  /\ \/ active.op = "reset" /\ Queue!CancelPending
     \/ active.op = "reset_keep" /\ UNCHANGED queueVars
  /\ ObserveAnswers
  /\ Goto("apply")
  /\ UNCHANGED <<client, quit, appRunning, fatal, accepted, inHand, sawLatch, interrupted>>

BeginQuery_NeverCompletes ==
  /\ At("begin")
  /\ active.op = "query"
  /\ Goto("loop")
  /\ UNCHANGED <<queueVars, client, quit, appRunning, fatal, historyVars>>
BeginQuery ==
  /\ At("begin")
  /\ active.op = "query"
  /\ Goto("respond")
  /\ UNCHANGED <<queueVars, client, quit, appRunning, fatal, historyVars>>

(* Where a motion goes when its ticks are over: a hybrid motion first ramps *)
(* its efforts down.                                                       *)
EndOfTicks == IF active.op = "hybrid" THEN [pc |-> "ramp", left |-> RampTicks]
                                      ELSE [pc |-> "respond", left |-> 0]

(* The head of the executor's tick loop.  A timeline also ends when the     *)
(* application no longer runs, a tare does not: MotionCheck may end either. *)
StopsTicking == owner.left = 0 \/ Queue!ShouldCancel(active.id)

MotionCheck_Deaf ==
  /\ At("check")
  /\ \/ owner' = EndOfTicks
     \/ owner' = [owner EXCEPT !.pc = "tick"] /\ owner.left > 0
  /\ UNCHANGED <<queueVars, client, quit, appRunning, fatal, historyVars>>
MotionCheck_RunsOn ==
  /\ At("check")
  /\ \/ owner' = EndOfTicks
     \/ owner' = [owner EXCEPT !.pc = "tick"] /\ ~Queue!ShouldCancel(active.id)
  /\ UNCHANGED <<queueVars, client, quit, appRunning, fatal, historyVars>>
(* Sampling or observing the robot may fail instead, which ends it too. *)
MotionCheck ==
  /\ At("check")
  /\ \/ owner' = EndOfTicks
     \/ owner' = [owner EXCEPT !.pc = "tick"] /\ ~StopsTicking
  /\ UNCHANGED <<queueVars, client, quit, appRunning, fatal, historyVars>>

(* world.step; the post-step work may fail, which ends the motion. *)
MotionTick ==
  /\ At("tick")
  /\ Spend("tick")
  /\ owner' \in {[pc |-> "check", left |-> owner.left - 1], EndOfTicks}
  /\ UNCHANGED <<queueVars, client, quit, appRunning, fatal, accepted, outcome, sawLatch, interrupted>>

(* The ramp asks neither for cancellation nor for the latch; a failing tick *)
(* ends it early.                                                          *)
RampTick ==
  /\ At("ramp")
  /\ Spend("ramp")
  /\ \E left \in {0, owner.left - 1} :
       owner' = [pc |-> IF left = 0 THEN "handover" ELSE "ramp", left |-> left]
  /\ UNCHANGED <<queueVars, client, quit, appRunning, fatal, accepted, outcome, sawLatch, interrupted>>

(* Position control is restored, or the runtime is fatal. *)
Handover ==
  /\ At("handover")
  /\ Goto("respond")
  /\ \/ UNCHANGED <<quit, fatal>>
     \/ fatal' = TRUE /\ quit' = TRUE
  /\ UNCHANGED <<queueVars, client, appRunning, historyVars>>

(* An engine transaction commits, or rolls back, or cannot roll back and is *)
(* fatal.  A committed reset goes on to its hold, if it was asked for one.  *)
Committed ==
  IF IsReset(active) THEN {[pc |-> "hold", left |-> IdleTicks], [pc |-> "unlatch", left |-> 0]}
                     ELSE {[pc |-> "respond", left |-> 0]}

(* mark_runtime_fatal asks the object it was given for its way out: a mode  *)
(* switch marks MirrorRuntime, which requests quit; a reset or a restored   *)
(* state marks the scene resources, which can only close the application.   *)
SignalExit_Nowhere == UNCHANGED <<quit, appRunning>>
SignalExit ==
  \/ active.op = "mutate" /\ quit' = TRUE /\ UNCHANGED appRunning
  \/ appRunning' = FALSE /\ UNCHANGED quit

Apply ==
  /\ At("apply")
  /\ \/ owner' \in Committed /\ UNCHANGED <<quit, appRunning, fatal>>
     \/ Goto("respond") /\ UNCHANGED <<quit, appRunning, fatal>>
     \/ Goto("respond") /\ fatal' = TRUE /\ SignalExit
  /\ IF active.op = "mutate" THEN Spend("mutation") ELSE UNCHANGED inHand
  /\ UNCHANGED <<queueVars, client, accepted, outcome, sawLatch, interrupted>>

(* The ticks of the hold ask for no cancellation; the hold may fail.        *)
HoldTick ==
  /\ At("hold")
  /\ \/ /\ Spend("hold")
        /\ owner' = [pc |-> IF owner.left = 1 THEN "unlatch" ELSE "hold",
                     left |-> owner.left - 1]
     \/ /\ owner' = [pc |-> "respond", left |-> 0]
        /\ Spend("hold") \/ UNCHANGED inHand
     \/ /\ ~appRunning
        /\ owner' = [pc |-> "unlatch", left |-> 0]
        /\ UNCHANGED inHand
  /\ UNCHANGED <<queueVars, client, quit, appRunning, fatal, accepted, outcome, sawLatch, interrupted>>

(* runtime.reset clears the latch after the reset itself succeeded. *)
Unlatch ==
  /\ At("unlatch")
  /\ Queue!ClearEstop
  /\ Goto("respond")
  /\ inHand' = NoWork
  /\ UNCHANGED <<client, quit, appRunning, fatal, accepted, outcome, sawLatch, interrupted>>

Respond ==
  /\ At("respond")
  /\ Queue!Complete
  /\ ObserveAnswers
  /\ Goto("loop")
  /\ sawLatch' = FALSE
  /\ UNCHANGED <<client, quit, appRunning, fatal, accepted, inHand, interrupted>>

-----------------------------------------------------------------------------
(* Owner thread: the end *)

(* Between its override and its handover a hybrid motion turns every       *)
(* exception into its own failure.                                         *)
Shielded ==
  owner.pc \in {"check", "tick", "ramp", "handover"} /\ active.op = "hybrid"

(* KeyboardInterrupt in the loop, or a failing idle step: the exception     *)
(* leaves run_mirror through its finally clause.                           *)
Interrupt ==
  /\ owner.pc \notin {"closing", "closing_again", "stopped"}
  /\ ~Shielded
  /\ owner' = [pc |-> "closing", left |-> 0]
  /\ interrupted' = TRUE
  /\ UNCHANGED <<queueVars, client, quit, appRunning, fatal, accepted, outcome, inHand, sawLatch>>

(* controller.close; it reports failure when a request is still active. *)
CloseController ==
  /\ At("closing")
  /\ quit' = TRUE
  /\ Queue!Close
  /\ ObserveAnswers
  /\ Goto(IF active = NoRequest THEN "stopped" ELSE "closing_again")
  /\ UNCHANGED <<client, appRunning, fatal, accepted, inHand, sawLatch, interrupted>>

(* A second close finds the queue closed and reports success. *)
CloseControllerAgain ==
  /\ At("closing_again")
  /\ Goto("stopped")
  /\ UNCHANGED <<queueVars, client, quit, appRunning, fatal, historyVars>>

OwnerStep ==
  \/ LoopContinues \/ LeaveLoop \/ TakeRequest \/ PollTimesOut \/ AfterPoll \/ IdleTick
  \/ BeginMotion \/ BeginHybrid \/ BeginMutate \/ BeginRestore \/ BeginReset \/ BeginQuery
  \/ MotionCheck \/ MotionTick \/ RampTick \/ Handover \/ Apply \/ HoldTick \/ Unlatch \/ Respond
  \/ CloseController \/ CloseControllerAgain

-----------------------------------------------------------------------------
Init ==
  /\ Queue!Init
  /\ client = [c \in Clients |-> Idle]
  /\ owner = [pc |-> "loop", left |-> 0]
  /\ quit = FALSE
  /\ appRunning = TRUE
  /\ fatal = FALSE
  /\ accepted = 0
  /\ outcome = [t \in Tickets |-> "none"]
  /\ inHand = NoWork
  /\ sawLatch = FALSE
  /\ interrupted = FALSE

Next ==
  \/ \E c \in Clients, id \in RequestIds :
       \/ \E op \in Operations : SubmitRequest(c, id, op)
       \/ \E op \in OutOfBand : ReserveOutOfBand(c, id, op)
  \/ \E c \in Clients : ClientStep(c)
  \/ RequestQuit
  \/ AppCloses
  \/ OwnerStep
  \/ Interrupt

(* The owner thread runs whenever it can; an ingress thread inside a call   *)
(* returns from it, at the latest at its deadline.  Nobody has to send      *)
(* requests.                                                                *)
Fairness ==
  /\ WF_vars(OwnerStep)
  /\ \A c \in Clients : WF_vars(ClientStep(c))

Spec == Init /\ [][Next]_vars
FairSpec == Spec /\ Fairness

-----------------------------------------------------------------------------
(* Properties *)

OwnerPcs == {"loop", "polling", "polled", "idle", "begin", "check", "tick", "ramp",
             "handover", "apply", "hold", "unlatch", "respond", "closing", "closing_again", "stopped"}

ClientState ==
  {Idle}
    \cup [pc : {"waiting"}, id : RequestIds, ticket : Tickets]
    \cup [pc : {"reserved", "applied"}, id : RequestIds, op : OutOfBand]

(* Every variable keeps its shape; the ticks an owner still owes are those  *)
(* of one motion or one idle batch.                                         *)
TypeOK ==
  /\ Queue!TypeOK
  /\ client \in [Clients -> ClientState]
  /\ owner \in [pc : OwnerPcs, left : 0 .. MotionTicks + IdleTicks + RampTicks]
  /\ quit \in BOOLEAN /\ appRunning \in BOOLEAN /\ fatal \in BOOLEAN
  /\ accepted \in 0 .. MaxSubmissions
  /\ outcome \in [Tickets -> {"none", "executed", "cleared"}]
  /\ inHand \in [Work -> Int]
  /\ sawLatch \in BOOLEAN /\ interrupted \in BOOLEAN

(* The threads use the queue as MirrorAdmission says they may: every step   *)
(* of the service is one call into the queue or leaves it alone.            *)
UsesQueue == Queue!Spec

(* A request that was answered as cleared stays cleared: were it run all    *)
(* the same, its answer would change and the lifecycle be broken.          *)
FateOf(t) ==
  IF t > accepted THEN "unissued"
  ELSE IF outcome[t] = "cleared" THEN "cleared"
  ELSE IF active # NoRequest /\ active.ticket = t THEN "running"
  ELSE IF \E i \in DOMAIN pending : pending[i].ticket = t THEN "queued"
  ELSE outcome[t]

Lifecycle == INSTANCE RequestLifecycle WITH fate <- [t \in Tickets |-> FateOf(t)]

(* Every accepted request waits, runs once, alone and in order, or is       *)
(* cleared without running: cancel, deadline, estop, reset and close race   *)
(* with the owner's claim from other threads.                               *)
ImplementsLifecycle == Lifecycle!Spec

(* An operation holds the active slot exactly from claim to respond, unless *)
(* an exception tore the owner out of it.                                   *)
ActiveMatchesOwner ==
  ~interrupted =>
    (active # NoRequest
       <=> owner.pc \in {"begin", "check", "tick", "ramp", "handover", "apply",
                         "hold", "unlatch", "respond"})

(* Emergency stop and physics race on the latch: the owner reads it or the  *)
(* cancel flag, drops the lock and then steps.  Once the latch is set the   *)
(* engine gets no more than the owner had decided on before: the rest of    *)
(* one idle batch, or the one tick that had passed its check, and the ramp  *)
(* of the hybrid motion the estop found under its override.  Only a reset   *)
(* steps beyond that, and no more than its own hold.                       *)
EstopBoundsPhysics ==
  estopped => /\ inHand["idle"] >= 0
              /\ inHand["tick"] >= 0
              /\ inHand["ramp"] >= 0
              /\ inHand["hold"] >= 0

(* "A new state.set fails with runtime_estopped. A state transaction that   *)
(* started before the latch may finish" (mirror-json.md:773-775): the       *)
(* dispatch reads the latch, drops the lock and then writes, so under the   *)
(* latch the engine is still written once, by the request that had passed   *)
(* that check when the latch was set, and by no other state.set or          *)
(* control.set_*, were it admitted or claimed before the latch or not.      *)
EstopBoundsMutations == estopped => inHand["mutation"] >= 0

(* After a mutation that could not be rolled back no operation is claimed   *)
(* or carried on and no idle tick taken: the owner loop does not read       *)
(* fatal_error and must notice by quit or by the closed application.        *)
NothingBeginsAfterFatal ==
  [][ fatal => owner'.pc \notin {"polling", "polled", "idle", "begin", "check", "tick", "ramp",
                                 "hold", "apply"} ]_vars

(* When the owner has stopped, no thread is left waiting on a request that  *)
(* could still be run.                                                      *)
StoppedIsQuiet ==
  At("stopped") =>
    /\ closed /\ pending = <<>>
    /\ active = NoRequest \/ interrupted

(* Every accepted request is answered, unless an exception tore the owner   *)
(* out of its loop while the request was active.                            *)
AcceptedIsAnswered ==
  \A t \in Tickets : (accepted >= t) ~> (outcome[t] # "none" \/ interrupted)

(* A quit request ends the service, whatever the clients keep sending.      *)
QuitStops == quit ~> At("stopped")

-----------------------------------------------------------------------------
(* A statement of the documentation the code does not keep *)

(* "Emergency stop ... blocks new motion until reset" (docs/en/operations/   *)
(* constraints.md:30): the latch is only cleared by a reset that started    *)
(* when it was already set.                                                 *)
LatchOutlivesEarlierReset == [][estopped /\ ~estopped' => sawLatch]_vars

=============================================================================
