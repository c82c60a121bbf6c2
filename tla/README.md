# linker-sim-isaac: specifications, model checking and proofs

TLA+ models of the control logic of `src/linkerbot_sim`, the Isaac Sim based
robot simulator. A source path below is relative to `src/src/linkerbot_sim`
unless it starts with `src/`. The project covers what decides *when* something
happens and *whether* it may: admission of requests, the owner thread,
emergency stop, transactions over engine state, worker threads, deferred
physics updates, SAME_STEP tokens, start-up and teardown. Numbers (joint
vectors, trajectories, forces, pixels) and formats (JSON, YAML, files) are
abstracted to what the properties tell apart.

## 1. The system

The package has two products that share libraries. **Mirror** is an interactive
single-scene runtime: ingress threads (stdin, TCP, WebSocket) submit JSON
requests, one *owner thread* executes them, steps physics and renders.
**Kaleidoscope** is a vectorised GPU runtime for reinforcement learning, driven
synchronously by an environment or by skrl. Both run in an Isaac session over a
PhysX or a Newton runtime.

| component | state | operations | what is hard | what makes it correct |
|---|---|---|---|---|
| Admission queue, `mirror/interface/admission.py` | pending deque, active slot, bounded terminal history, reserved ids, cancel flags, closed, estop latch | submit, wait_response, claim, complete, cancel, cancel_current, cancel_pending, reserve/complete_immediate, estop, clear_estop, close | many threads, deadlines, ids used again, eviction | an id has one home; nothing leaves the queue unanswered; bounds; stop and close leave nothing to run |
| Controller and owner loop, `mirror/controller.py`, `mirror/app.py` | quit event, what the owner executes | submit_and_wait, process_next, dispatch, run_mirror, close | the latch and the cancel flag are read and then acted on without the lock; exceptions; quit | requests follow a simple lifecycle; bounded physics after estop; everything accepted is answered; the loop ends |
| Mutations, `snapshots/transactions.py`, `mirror/control_mode.py`, `snapshots/mirror_adapter.py`, `mirror/reset_runtime.py` | drives and controller settings of each robot, scene content, mode and generation, fatal errors, tares | set_mode, restore, reset, tare, hybrid motion | any engine write may fail half-way, so may its compensation | all, nothing, or fatal; robots and runtime agree on the mode; no stale tare |
| Camera frame publisher, `sensors/camera/recorder.py` | bounded queue, stop event, last error, worker, sink | publish (four overflow policies), close (drain or discard), worker loop | worker failure, close and publish interleave; timeouts and retries | drain loses nothing; a blocked producer is released; the sink is not closed under the worker |
| Transports, `mirror/interface/transport.py` | listener, connections, workers, peers | hub start, rollback, close; accept, read, handle | accept races close; partial start; late binds; idle peers | what the hub let go of is silent; a retried close ends |
| Mirror runtime and shutdown, `mirror/runtime.py`, `mirror/bootstrap.py` | phases completed, resources closed, attached ingress | compose, attach_ingress, close in phases | partial failure and retry | the session outlives every product resource |
| Isaac session and physics owner, `isaac/session.py`, `isaac/lifecycle.py`, `isaac/physics/manager.py` | process-wide owner, counted backend registration, teardown stages done | launch, create, install, teardown | retry after partial failure, two sessions in a process | one owner; registrations balanced; nothing closed twice |
| Kaleidoscope runtime, `kaleidoscope/runtime.py` and the views, ports, state API, mode coordinator under it | mode, port profiles, targets, references, reset flags, SAME_STEP token, fail-stop | step, tokenised step, reset, set_state, snapshot, mode switch, close | masked writes to all rows, device writes fail half-way, tokens | engine follows the buffers; position target is its reference; finished rows are reset before physics moves again |
| skrl adapter, `training/skrl/env.py` | the token it holds | step, reset | an exception between step and completion | as above |
| Newton runtime, `isaac/physics/newton/manager.py`, `kaleidoscope/newton_ports.py` | dirty worlds, aliased device masks, drive history, graphs per collision phase, clock | writes, flush, step, restore, reset, model change, close | aliases refilled before the flush; order of flush and restore; replayed graphs | a flush derives everything that is out of date; contacts are fresh; history as written |
| State telemetry, `telemetry/` | bounded stream, worker | publish, wait_next, close | single consumer, discard | not modelled |
| Rendering and timing, `mirror/rendering.py`, `mirror/timing.py`, camera observer | due times, captures in flight | service_gui, after_physics_step, rebase | real-valued schedules | not modelled |
| Planning collision registry, `mirror/collision` | attachments, allowances, generations | attach, restore, mark_dirty | stale generations | not modelled |
| Planning, controllers, configuration, assets, snapshot files, loggers, PhysX backends | | | numerics and data | not modelled |

Interaction in Mirror: ingress thread -> `submit_and_wait` -> admission queue
-> `process_next` on the owner -> motion, state, snapshot, reset and mode
services -> controllers and engine. Cancel, estop and quit run *on the ingress
thread* and reach the owner through the queue's flags and the quit event. A
mutation that cannot be rolled back marks an object fatal and tries to make the
loop end: `MirrorRuntime` through its quit request, the scene resources
through the application. The owner samples cameras after a step and hands
frames to the publisher's queue. Shutdown runs on the owner thread: transports
and controller first, then outputs and planners, then views, then the session,
which takes the physics runtime, the backend registration, the imported files
and the App down.

Interaction in Kaleidoscope: the caller (an environment or the skrl adapter)
-> `KaleidoscopeRuntime` -> mode coordinator, state API and task -> tensor views
-> engine ports -> PhysX or Newton. With Newton a write only records what it
touched; the next forward or step brings kinematics and followers up to date.

## 2. Modules

| module | models | built on |
|---|---|---|
| `MirrorAdmission` | `MirrorAdmissionQueue`, one action per method | |
| `RequestLifecycle` | what an accepted request may expect (abstract) | |
| `MirrorService` | ingress threads, owner loop and dispatch on one queue; implements `RequestLifecycle` | INSTANCE `MirrorAdmission`, `RequestLifecycle` |
| `AtomicMutation` | what a mutation promises (abstract) | |
| `MirrorMutations` | transactions, mode switch, restore, reset, tare, hybrid override; implements `AtomicMutation` | INSTANCE `AtomicMutation` |
| `FrameStream` | what becomes of the frames given to a publisher (abstract) | |
| `FramePublisher` | `CameraFramePublisher`: owner thread and worker; implements `FrameStream` | INSTANCE `FrameStream` |
| `KaleidoscopeRuntime` | the vectorised runtime with its views, ports, task, state API, mode coordinator, and the skrl adapter as its caller | |
| `NewtonRuntime` | the Newton manager with the writes of both products | |
| `SessionLifecycle` | sessions of a process: launch, composition, phased close, staged teardown | |
| `MirrorTransports` | hub, endpoints, connection threads, peers | |
| `MirrorAdmission_proof`, `MirrorService_proof`, `MirrorMutations_proof`, `FramePublisher_proof`, `KaleidoscopeRuntime_proof`, `NewtonRuntime_proof`, `SessionLifecycle_proof`, `MirrorTransports_proof` | theorems about each, section 4 | the module, TLAPS |
| `MCAdmission`, `MCService`, `MCKaleidoscope` | symmetry for TLC | |
| `MCNewton`, `MCTransports` | values of constants for TLC: collision cadences, orders of endpoints | |

**MirrorAdmission.** Every method holds the condition lock from its first read
to its last write, so a method is one action, and a method that raises is an
action that is not enabled. The duplicated pieces of the code are one operator
each: `Store` is `_store_terminal` with its eviction (`Retain`), `Withdraw` the
removal that `cancel` and an expired wait share, `Drain` the loop of `estop`,
`cancel_pending` and `close`. `ticket` and `executed` are history: a ticket
names a submission although its id may be used again after eviction.

**MirrorService.** A step is what a thread does between two points where another
one can act: one call into the queue, one physics tick, one engine transaction.
`owner.pc` is the place in `run_mirror` / `_dispatch`, `owner.left` the ticks
left there. The loop's check of quit and application (`app.py:64`) and the claim
behind it (`app.py:74`) are two steps, `LoopContinues` and then `TakeRequest` or
`PollTimesOut` from `polling`: a quit set in between still lets one request be
taken and run. `inHand` is history: per kind of work (idle ticks, motion ticks,
ramp, reset hold, mutations) what the owner had decided on when the latch was
set, less what it has done since. Operations are classes: `motion` stands for
every `motion.*` and `control.tare_wrench`, `hybrid` for the hybrid motion with
its uncancellable ramp, `mutate` for the operations that check the latch on
dispatch, `restore` for `snapshot.set`, which by the protocol's documentation is
allowed while estopped (`src/docs/en/reference/mirror-json.md:776-779`).
`AppCloses` stands for a closed window as well as for `should_stop` and
`max_iterations`. Engine transactions are one step here; `MirrorMutations` opens
them up.

**MirrorMutations.** Operations run one at a time, as embedders call
`MirrorController.dispatch` on the owner thread
(`src/docs/en/reference/python-api.md`, "Embedded Protocol Dispatch"). An
operation is a plan of engine writes; each may work, raise before it wrote
anything, or raise half-way (`Torn`), and each compensation may too. `drive` is
what the engine does, `settings` what the joint controller believes, `content`
the poses of robots, objects and planning attachments. `fatal` is the *set* of
objects marked fatal, because the code marks `MirrorRuntime` in some operations
and the scene resources in others.

**FramePublisher.** Owner and worker interleave at every access to what they
share. `publish` reads the stop event and puts later; `close` is discard,
restart of a worker, join, close of the sink, each its own step, and may be
called again after it returned False or the sink raised.

**KaleidoscopeRuntime.** One thread calls; what interleaves is its calls, in any
legal order, with writes that fail. A row is an environment: `target` and
`reference` are the canonical buffers, `driven` what each port's engine follows,
`profile` the mode each port is set to, `needsReset` the rows that wait for a
reset. There are two ways to step. The native one refuses while a row waits. The
training path issues a token, steps, and owes the reset of the rows that
finished before the token is given back; the adapter that calls it may be
interrupted in between. `masksTargets` tells Newton's port writers, which obey
the mask of finished rows, from PhysX's, which write every row of a command. A
mode switch goes through the ports one by one and back through those it changed
when a write fails; a compensation that fails too breaks the runtime. A snapshot
is taken of one row. An action that accumulates moves the references in place
and may raise before anything is dispatched (`ActionRaises`): the runtime stays
healthy and the references are not what they were. Generation counters are left
out: the value they protect is kept instead. Issuing a token does not look at
`needsReset`, although the comment at `kaleidoscope/runtime.py:376-378` speaks
of a generation protocol that guarantees the reset; it is the adapter's
discipline that keeps `FinishedRowsAreReset`.

**NewtonRuntime.** `sim` is the state of the simulation, a record: which worlds
the host marked dirty (`host`, `project`), which device masks are registered as
aliases (`rows`, `masks`), and, as ghost truth, which worlds' kinematics or
followers really are out of date (`stale`, `loose`). Writes are of three fields:
selected joints, which leave followers to be projected; a full state; a body
pose. A Kaleidoscope write registers its mask by reference, not its content, and
the next write of the same field refills that mask; what saves the earlier write
is that every operation ends with a forward. A tick runs its substeps, detecting
collisions every `interval`; on CUDA it replays a graph recorded for the phase
it starts in. A tick that raises in the middle (`SimulateHalfWay`) has moved the
state and aged the contacts while the phase stays; Kaleidoscope is then broken
and Mirror goes on. `behind` is history: it says that this happened at another
phase than zero and no tick has started at zero since. `history` is what the
compliant drive follows next. A failed initialisation is left out;
`commit_initial_state` is modelled although nothing in the package calls it. The
reset of all worlds restores the drive's baseline and then flushes its own joint
write, which derives the history again from the positions it wrote; the model
has both writes in the code's order.

**SessionLifecycle.** One thread per session, interleaved at the locks and
calls of the teardown; `at` is the place in the code. A call may raise,
`MaxFailures` times in all. `done` are the stages the App's binding has recorded,
so that a retry skips them; `owner` and `registrations` are the process-wide
registry and counter; `live`, `completed` and `ingress` belong to the Mirror
runtime that owns the session. Rollback of a failed composition swallows errors
as the code does. A session whose physics close keeps raising keeps the owner by
design. All sessions are Newton sessions of the same execution.

**MirrorTransports.** The owner thread starts and closes the hub; each endpoint
has a thread and each TCP or WebSocket connection another. A wait that may time
out is a choice whenever what it waits for is not there. A worker's end and its
leaving the sets is one step, since nothing distinguishes a worker in between;
a peer acts on its connection only once it is served. A request is one line or
frame. The WebSocket server library is external and modelled by how the code
uses it: its close stops the listener. `buffered` is the text stream's buffer
over stdin, which `select` does not see. An answer that cannot be written to
stdout ends the stdin thread.

## 3. Runs

| run | question | bounds |
|---|---|---|
| `admission` | do the queue's invariants hold under any calls in any order? | 4 ids, 2 slots, 2 answers retained: ids are evicted and used again, the capacity boundary is hit with and without an active request |
| `service` | lifecycle, bounded physics and mutations after estop, fatal ends the service, nothing left when stopped | 2 clients, 3 ids, 2 accepted requests, capacity 2; 2 motion ticks, 2 ramp ticks, 2 idle ticks: a latch can land before, between and after the ticks of each, and a motion that did not look again would do a tick more than its bound |
| `service_live` | is every accepted request answered, does quit end the loop? | 2 ids, 2 requests, capacity 1 |
| `mutations` | atomic or fatal; modes agree; tares fresh | 2 robots, 2 modes, 2 poses, 1 switch, 1 tare, 2 resets: every write of every plan fails in every way, and a second robot is there to be left behind |
| `frames` | frames in order and one at a time, nothing lost under drain, nobody blocked for ever, sink used alone | 4 frames through a queue of 2, all 8 policy pairs: the queue fills, drains and fills again |
| `kaleidoscope` | does the engine follow the buffers, the position target its reference although actions raise, and are finished rows reset before physics moves? | 2 rows, 2 robots, 2 values, 3 modes, a snapshot of one row, 2 children to close: one row finishes while the other does not, and a port is left to be rolled back |
| `newton` | does a flush derive all that is out of date, are contacts fresh, does a restored history survive? | 1 world for Mirror, 2 for Kaleidoscope; substeps/interval 1/2, 2/3 and 3/2, ticks that raise at every substep: ticks that do not detect, that detect at changing substeps, and that detect more than once |
| `sessions` | one owner, balanced registrations, nothing native closed under a product, retried closes end | 2 sessions, 1 hub, 2 calls that raise: a stage fails, and fails again on the retry, while the other session goes on |
| `transports` | is what the hub let go of silent, does a retried close end? | orders stdin+websocket and tcp+websocket, 2 peers, 1 connection at a time, 2 lines: an endpoint fails behind a started one, a peer waits for the place of another |
| `estop_reset`, `undone_rows`, `idle_connection` | three statements of documentation, comments or tests the code does not keep, below | the smallest instances that show them; `idle_connection` has the TCP endpoint alone, one client and no stdin |

Bounds are constants, named in the modules that use them: `Tickets` (accepted
submissions), `MotionTicks`, `IdleTicks`, `RampTicks`, `MaxSwitches`,
`MaxTares`, `MaxResets`, `MaxFrames`, `MaxFailures`, `MaxLines`. A second
request is enough for one to be active while the other is pending; a third id
for an out-of-band operation beside them. `KaleidoscopeRuntime` and
`NewtonRuntime` have no counters to bound.

Symmetry is used where a run has only safety properties: of ids in `admission`,
of clients and ids in `service` (not in `service_live`'s liveness), and of rows
in `kaleidoscope`. `sessions` and `transports` check liveness and use none.

### What the properties say

* `MirrorAdmission`: `OneHome` (of ids, and of the cancel flags, which live with
  the running request), `EstopHolds`, `NoAnswerLost`.
* `MirrorService`: `ImplementsLifecycle` is the refinement of `RequestLifecycle`;
  `EstopBoundsPhysics` bounds what the engine still gets after a latch, for each
  kind of tick by itself: the rest of an idle batch, the motion tick past its
  check, the ramp of the hybrid motion found, the hold of the reset found;
  `EstopBoundsMutations` says the same of writes: the dispatch reads the latch and
  writes after it dropped the lock, so the request past that check still writes,
  and no other; `ActiveMatchesOwner` and `StoppedIsQuiet` relate queue and owner
  over exceptions; `NothingBeginsAfterFatal` is an action property: the owner
  never reads `fatal_error` and must notice by quit or the closed application.
* `MirrorMutations`: `IsAtomic` is the refinement of `AtomicMutation`;
  `ModeAgrees` and `TareIsFresh` relate robots, runtime and world at rest.
* `FramePublisher`: `ImplementsStream` is the refinement of `FrameStream`, with
  the queue, both threads and the policies hidden; `DrainIsComplete`,
  `BlockLosesNothing`, `SinkUsedAlone`; `BlockedProducerIsReleased` and
  `WorkerEnds` are liveness.
* `KaleidoscopeRuntime`: `EngineFollowsBuffers` holds between operations of a
  runtime that still answers; `PositionPairHolds` is an action property: a step
  leaves a row's position target and reference equal, unless an action raised in
  it, or they had been parted by one and the target is left where it was;
  `FinishedRowsAreReset` is an action property of both ways to step.
  `EngineFollowsBuffers` exempts Newton's ports outside position mode, where the
  finding `undone_rows` makes it false.
* `NewtonRuntime`: `FlushDerivesEverything` compares the books with the truth
  in every state; `HistoryAsWritten` looks ahead to the flush of the next tick;
  `ContactsAreFresh` bounds the age of contacts in any substep of any whole tick,
  but for those after a tick that failed half-way (`behind`), where the code does
  not bound it.
* `SessionLifecycle`: `OneOwner`, `RegistrationsBalanced`,
  `SessionOutlivesProduct` over all interleavings and retries; `BegunCloseEnds`.
* `MirrorTransports`: `StoppedIsSilent` after any start, rollback or close;
  `CloseEnds`.

### Deadlock

`CHECK_DEADLOCK FALSE` appears where the system may stop: the service when its
owner has stopped, the mutations when both objects are fatal, the publisher
when all frames were published and it is closed, a Kaleidoscope or Newton
runtime that is closed or broken, sessions that ended, a hub that is down.
`admission` checks for deadlock.

### Fairness

* `MirrorService`: weak fairness of the owner thread as a whole (it is a loop
  whose blocking calls have timeouts, and engine calls are assumed to return) and
  of each client inside a call (a wait ends at its deadline). Nothing obliges a
  client to send, or a user to quit.
* `FramePublisher`: weak fairness of each thread inside a call; sink writes are
  assumed to end. The publisher's timed put and the worker's timed get are what
  makes this fair: neither blocks without looking at the stop event again.
* `SessionLifecycle`: weak fairness of a close that has got past the ingress
  (`Begun`), and of nothing else. It stands for a caller that calls close again
  while it reports something alive, which is what the report is for; the command
  line does not retry. A native close that never returns is not modelled.
* `MirrorTransports`: weak fairness of the owner thread while the hub is being
  closed (again with a caller that retries), of each endpoint's thread and of
  each worker. Peers owe nothing: they may stay silent and connected for ever,
  and no wait has to expire. A binding of an address ends.

### Where code and documentation differ

Three violation runs are the findings of `PROJECT.json`:

* `estop_reset`: `mirror/controller.py:341` clears the latch after a reset
  whatever happened meanwhile, so an emergency stop that arrives during a reset
  is cleared by it. `src/docs/en/operations/constraints.md:30`: "Emergency stop
  freezes idle physics and blocks new motion until reset".
* `undone_rows`: `kaleidoscope/isaac_views.py:539` writes the targets of velocity
  and effort mode for every row of the command a token's completion sends, so
  an unfinished row loses its target. `kaleidoscope/tasks/tblock_push_v1.py:279`
  and `kaleidoscope/runtime.py:712` say that such rows keep every field.
* `idle_connection`: a TCP connection that was idle for one read timeout is
  dropped, because the file object over the socket refuses to read after a
  timeout, while `mirror/interface/transport.py:340` means to go on
  (`except TimeoutError: continue`); the request sent next is never read.
  `src/docs/en/reference/mirror-json.md:790`: "Each connection preserves
  request/response order", with no word of a connection that ends by being idle.

Smaller disagreements that were met while modelling, without a run of their own:

* A response may be evicted before its waiter has read it
  (`mirror/interface/admission.py:307`), against the class's docstring at `:56`:
  out-of-band requests store answers without taking a slot.
* An action that accumulates (`kaleidoscope/isaac_adapter.py:268`) moves
  `position_references` in place and may raise before the handler that makes a
  runtime fail-stop is entered (`kaleidoscope/runtime.py:600`): the caller may try
  again, and the same action then adds to what is already moved.
* A tick of Newton that raises between substeps leaves `_collision_phase` where it
  was (`isaac/physics/newton/manager.py:873-879`) while Mirror goes on: later
  substeps may use contacts older than the interval, until a tick starts at
  phase zero. `ContactsAreFresh` leaves these ticks out by name (`behind`).
* An exception between the step and the completion of a token
  (`training/skrl/env.py:100`) leaves the token outstanding on a healthy runtime,
  which then refuses every step and reset.
* The idle batch of `mirror/app.py:78` reads the latch once, so its remaining
  ticks follow an emergency stop; `EstopBoundsPhysics` bounds them by one batch.
* A fatal mode switch or hybrid restore stops `run_mirror`, but the fatal flag is
  kept on the object the caller passed (`snapshots/transactions.py:125`), so an
  embedder's timelines, resets and restores, which ask the other object, still
  go on (`src/docs/en/operations/constraints.md:34`).
* A frame put while the camera worker fails is accepted by a publisher nobody
  serves (`sensors/camera/recorder.py:453` against `:386`).
* The rollback of a Newton restore (`snapshots/mirror_adapter.py:230`) restores
  robots after the solver, which leaves a projection pending that replaces the
  drive history the rollback restored. `HistoryAsWritten` therefore expects
  nothing after a restore that was undone.
* An ingress hub attached after a close that failed in a later phase belongs to
  a phase that is complete (`mirror/runtime.py:124`), and no retry closes it.
  `SessionOutlivesProduct` leaves such hubs out by name (`late`).
* A retry of a close that failed in the App's own teardown calls
  `before_session_close` again, when the native App may already be closed,
  against the docstring at `mirror/runtime.py:335`.
* `release_imported_asset_files` is process-wide: the teardown of one session
  releases the files another one imported. `Released` speaks only of a
  session's own.
* `_best_effort_rollback` (`mirror/bootstrap.py:98`) swallows every error, so a
  composition that failed may leave the session half closed with nobody told.
* `select` looks at the descriptor while `readline` reads through a buffer
  (`mirror/interface/transport.py:190`): of two lines that arrive together the
  second waits for a third (no property covers it), and a line without its end
  blocks the thread past `close`.
* The WebSocket library's shutdown closes the listener only; handlers go on
  until their peers leave, while
  `src/docs/en/getting-started/mirror-quickstart.md:107-109` says that no
  session is destroyed while a child resource owns a worker. `StoppedIsSilent`
  claims the silence of TCP workers only.

## 4. Proofs

TLAPS checks the theorems below for every value of the constants that satisfies
the named assumptions. Each component has one inductive invariant, a theorem
that it holds, and corollaries for the properties the runs check.

* **Admission** (`CapacityAssumption`, `RequestAssumption`).
  `AdmissionInvariant`: `Inv` is the conjunction of the queue's invariants and is
  inductive as it stands: that no id has two homes needs the type of the
  sequences, and that `Bounded` holds after a completion needs the one home of
  the active request. The lemmas follow the data: what `Retain` and `RemoveAt`
  keep of a sequence and of its ids, that storing fresh answers keeps ids
  distinct, that `Drain` answers all of `pending`, that `Withdraw` keeps `Inv`;
  then one step per action. `AdmissionOneHome`, `AdmissionTyped`,
  `AdmissionEstop`, `AdmissionNoAnswerLost` are the checked
  properties; `AdmissionBounded` and `AdmissionClose` add that the queue keeps
  its bounds and that a closed queue has nothing to run.
* **Service** (`ServiceAssumption`, `QueueAssumption`). Every step of the service
  is one call into the queue or leaves it alone (`ServiceUsesQueue`), so the
  queue's proved invariant is carried over and not proved again. What is added
  is about the owner: which places of its loop go with an active request, and,
  for `EstopBounds` and `EstopStopsMutations`, how much of each kind of work the
  place it is in may still do (`LateBudget`; the properties themselves are not
  inductive: they say nothing of the ticks to come). `ActiveHasOwner`,
  `StoppedOwnerIsQuiet` and `FatalEndsTheLoop` follow.
* **The service implements the lifecycle**, `ServiceImplementsLifecycle`. The
  fate of a request is read off the queue and the answers seen. `IssueOrder`:
  requests wait in the order of their acceptance. `Unanswered`: what is pending
  or active has no answer yet. `AnswersObserved`: a retained answer is the one
  its request got; this needs that no answer is evicted in the step that stores
  it, which is what `TerminalCapacity >= Capacity` buys. From the refinement
  alone follow `RequestsServedInOrder` and `AnswersAreFinal`: no request overtakes
  an earlier one that was not withdrawn, and no answer is revised.
* **Mutations** (`MutationAssumption`). `ModesAgree` and `TaresAreFresh` speak of
  rest, so `Inv` says what is true on the way: while an operation goes forward,
  whatever its plan has not written yet is still ahead in the plan
  (`SwitchHalf`, `RestoreHalf`, `ResetHalf`, `HybridHalf`); whatever differs
  from the state it began in is in the undo list, or a mark was passed, or a
  compensation raised (`Recoverable`). An empty plan is then a finished
  mutation and an empty undo list one that did not happen, or a fatal one: this
  is also the refinement, `MutationsAreAtomic`.
* **Frames** (`FrameAssumption`). `FramesInvariant`, `FramesTyped`,
  `DrainCompletes`, `BlockKeepsFrames`, `SinkHasOneUser`. The checked invariants
  other than `TypeOK` are not inductive. `IInv` adds where each frame is (a queued
  one in the queue, a taken one in the worker's hand), that a loss has a cause
  (policy or failure), that without a failure only `close` stops the publisher,
  and on the publishing thread, so that the worker ends behind the last frame,
  that the sink is closed after the join, and that `publish` has a frame in hand.
* **The publisher implements the stream**, `PublisherIsStream`. `InOrder` is the
  invariant this needs: the queue holds queued frames in the order of publish,
  the frames to come are those from `next` on, and the one in the worker's hand
  is the one that was taken. With
  it every step is one of the moves of one frame (`StreamMove`) and each such
  move is a step of `FrameStream`. Of the stream alone it is shown that the sink
  sees the frames in order and that a decided fate is final; the publisher
  inherits both (`SinkSeesOrder`, `FatesAreFinal`).
* **Kaleidoscope** (`RobotsAssumption`, `ValuesAssumption`, `ModesAssumption`,
  `NoneAssumption`). `RuntimeInvariant` follows a mode switch through the ports:
  those before the place it is at are in the new mode and the others in the old,
  forward and backward, and what the undo list holds is what the ports had.
  `RuntimeTyped`, `PortsFollow`, `FinishedRowsWait`. `PairsHold` needs of the
  invariant only that a stepped token leaves position targets and references
  equal, since its completion writes both from one blend.
  `UndoneRowsGoOn` marks the limit of the finding `undone_rows`: what a token's
  completion takes from an unfinished row is its target outside position mode,
  and what the port drives there only on an engine without a mask.
* **Newton** (`WorldsAssumption`, `CadencesAssumption`). `BooksCorrect`: the
  dirty worlds and the registered masks cover every world that is out of date,
  no mask stays registered between operations, and Kaleidoscope has nothing
  pending there. `FlushDerives` and
  `HistoryKept` follow, for any number of worlds. `ClockworkRight` then adds the
  clock of the collisions: between operations either a write is pending, so that
  the next substep detects, or the contacts are no older than the phase
  (`Fresh`). That a tick keeps it is arithmetic: a substep detects when its count
  is a multiple of the interval, the age in a substep is its distance from the
  last such count, which exists as the largest element of a bounded set, and the
  remainder of the next phase is unique. A captured graph is always the one of
  the phase it is replayed in, so replay and eager run are one argument. A tick
  that fails half-way keeps its types and gives the clock up, unless it was at
  phase zero, until a tick starts there.
  `RuntimeTyped` and `ContactsFresh` follow, for every cadence.
* **Sessions** (`OwnerAssumption`, `SessionsAssumption`, `FailuresAssumption`).
  First what one session's place says of its App, runtime and stages, then the
  registration count, by adding or removing one element of a finite set.
  `SessionsTyped`, `OwnerUnique`, `RegistrationsCounted`, `ProductClosedFirst`,
  `ClosedIsReleased` (the safety half of `BegunCloseEnds`).
* **Transports** (`OrdersAssumption`, `CapacityAssumption`, `LinesAssumption`).
  `TransportsInvariant` adds to the types where the owner is in the hub
  (`HubPlace`, `Registered`), that an open listener has a thread
  (`OpenIsServed`, `Accepting`), and that a worker the snapshot of a TCP close
  missed has yet to look at the stop event before it reads (`JoinsAll`), so that
  an endpoint let go of is quiet (`LetGo`). `TransportsTyped`, `LetGoIsSilent`.

**Variants: the safety half of liveness.** Liveness itself stays with TLC, but for
four of the six liveness properties the measure they rest on is defined and
proved to be one: an action property that says which steps reduce it and that no
step of anybody else raises it.

| theorem | behind | measure | reduced by |
|---|---|---|---|
| `OwnerComesBack` | `QuitStops` | `Rest`: steps of the owner back to its loop, and from there to its end | every step of the owner, and an exception, except a loop check that goes on; a way out once signalled stays. The request a quit between check and poll still lets in is counted |
| `StoppedWorkerProgresses` | `WorkerEnds` | `Ahead`: frames queued, a put half-way, the worker's place | every step of a worker whose stop event is set |
| `BegunCloseProgresses` | `BegunCloseEnds` | `CallsLeft`: phases and stages of the pass, one more pass per error met or still possible | every call of a begun close, those that raise included |
| `StoppedThreadsWindDown` | `CloseEnds` | `ThreadLeft`, `ConnLeft`: places to the end of a thread | every move of a stopped endpoint's thread and of a TCP connection |

What they do not show is that the step is taken at all: that is the fairness of
section 3, and that it is enabled.

Only model-checked: liveness under fairness (`AcceptedIsAnswered`, `QuitStops`,
`BlockedProducerIsReleased`, `WorkerEnds`, `BegunCloseEnds`, `CloseEnds`), which
is outside what TLAPS proves here. Every invariant, action property and
refinement that a passing run checks is also a theorem. The three violations are
refuted by TLC. No module has a RECURSIVE operator.

## 5. Assumptions and what is not modelled

* Engine calls, planning, sink writes and native closes return or raise; they do
  not hang.
* Exit signals of a fatal mutation (`request_quit`, `app.close`) work;
  `_best_effort_call` swallows their failures.
* `publish` and `close` of the camera publisher, and every call of Kaleidoscope
  and Newton, are made by one thread, as the products do.
* Python statements that touch one attribute are atomic (CPython).

Not modelled, with the reason:

* State telemetry: a bounded stream to one consumer that may drop any snapshot
  by design; its output is a visualisation.
* Rendering, cameras and timing: sequential code over real-valued clocks. Their
  hand-over of frames to a worker is `FramePublisher`.
* Planning collision registry: attachments are part of the world in
  `MirrorMutations`; allowances, generations and providers are left out.
* Hybrid parameters: a checked replacement of numbers by one call on the owner
  thread.
* PhysX backends and tensor views: adapters of a native simulator. A write is a
  step that works, raises before it wrote or raises half-way.
* Planning and cuRobo, joint and hybrid controllers, trajectory retiming,
  Newton's model construction, constraints and audits, rewards and
  observations: real arithmetic.
* Configuration, assets and robot import, snapshot schema and files, protocol
  parsing and encoding, loggers: data and output, checked before the first
  state change, with no concurrency.
* PhysX sessions, the provenance and exclusivity checks of a launch, and the
  smoke scripts.

Most of the package's lines are in these parts, so the models cover a small
share of the source and most of its concurrency, failure handling and ordering.
What could be added next: the telemetry stream with its publisher, the
generations of the collision registry, and the sampling schedule of cameras over
integer time.
