---------------------------- MODULE NewtonRuntime ----------------------------
(***************************************************************************)
(* isaac/physics/newton/manager.py: the owner of the Newton model, and the *)
(* products that write to it.  A write to the state only records which     *)
(* worlds it touched; the kinematics, the follower joints and the history  *)
(* of the compliant drive are brought up to date by one flush at the next  *)
(* forward, step, render or commit.  Collision is detected every few       *)
(* substeps, and CUDA replays a graph recorded per collision phase.        *)
(*                                                                         *)
(* Joint and body values are abstracted to what must still be derived from *)
(* them; the history of a drive to where it came from.  One product owns   *)
(* the runtime: Mirror with one world and writes naming their worlds, or   *)
(* Kaleidoscope on CUDA with device masks the next write of the same field *)
(* refills.                                                                *)
(***************************************************************************)
EXTENDS Naturals, FiniteSetsExt

CONSTANTS
  Worlds,    \* the worlds of Kaleidoscope
  MirrorWorld,
  Cadences,  \* [substeps, interval]: of a tick, and between two collision detections
  None       \* no expectation, no graph

ASSUME WorldsAssumption == MirrorWorld \in Worlds
ASSUME CadencesAssumption ==
  /\ Cadences # {}
  /\ \A c \in Cadences : c.substeps \in Nat \ {0} /\ c.interval \in Nat \ {0}

VARIABLES
  product,   \* "mirror" or "kaleidoscope"
  cadence,   \* the product's substeps per tick and collision interval
  graphs,    \* _graphs: collision phase -> the phase its graph was recorded in
  graphState,\* _graph_state
  life,      \* "created", "ready" or "closed"
  broken,    \* a fail-stop of the product: nothing more is written or stepped
  sim,       \* the state of the simulation, below
  clock,     \* _sim_time: zero or later
  used,      \* history: the age of the oldest contacts the last whole tick used, in substeps
  behind,    \* history: a tick that failed half-way left the phase behind its contacts
  expected   \* history: world -> what its drive must follow when the next tick starts

vars == <<product, cadence, graphs, graphState, life, broken, sim, clock, used, behind, expected>>

Fields == {"joint", "full", "body"}
Masks == Fields \cup {"done"}
Histories == {"positions", "moved", "saved"}
Owned(s) == DOMAIN s.history

(* A write of selected joints leaves the followers to be projected; a full
   state and a body pose are the solver's own result and are kept as written. *)
NeedsProjection(field) == field = "joint"

(* host, project: _dirty_worlds and _projection_worlds.  rows: the entries
   of _device_dirty_rows, each a field and the mask it aliases.  stale and
   loose are the truth: worlds whose kinematics or followers are out of date. *)
Selected(s) == s.host \cup UNION {s.masks[r.mask] : r \in s.rows}
ToProject(s) ==
  s.project \cup UNION {s.masks[r.mask] : r \in {x \in s.rows : NeedsProjection(x.field)}}

SetHistory(s, worlds, value) ==
  [s EXCEPT !.history = [w \in Owned(s) |-> IF w \in worlds THEN value ELSE s.history[w]]]

Written(s, field, worlds) ==
  [s EXCEPT !.stale = @ \cup worlds,
            !.loose = IF field = "joint" THEN @ \cup worlds ELSE @,
            !.age = cadence.interval]

(* on_newton_view_write, for a state field. *)
HostWrite(s, field, worlds) ==
  [Written(s, field, worlds) EXCEPT
     !.host = @ \cup worlds,
     !.project = IF NeedsProjection(field) THEN @ \cup worlds ELSE @]

(* The same, for a write whose worlds only the device knows. *)
DeviceWrite(s, field, mask, worlds) ==
  [Written(s, field, worlds) EXCEPT
     !.rows = @ \cup {[field |-> field, mask |-> mask]},
     !.masks[mask] = worlds]

Projected_LeavesRequest(s) ==
  [SetHistory(s, ToProject(s), "positions") EXCEPT
     !.host = {}, !.rows = {},
     !.stale = IF s.host = Owned(s) THEN {} ELSE @ \ Selected(s),
     !.loose = @ \ ToProject(s)]

(* What a flush with something to do derives and clears. *)
Projected(s) ==
  [SetHistory(s, ToProject(s), "positions") EXCEPT
     !.host = {}, !.project = {}, !.rows = {},
     !.stale = IF s.host = Owned(s) THEN {} ELSE @ \ Selected(s),
     !.loose = @ \ ToProject(s)]

Pending(s) == s.host # {} \/ s.rows # {}

(* _flush_cold_state_updates. *)
Flush(s) == IF Pending(s) THEN [Projected(s) EXCEPT !.phase = 0] ELSE s

(* forward: with nothing pending it derives the kinematics of every world. *)
Forwarded(s) == IF Pending(s) THEN Flush(s) ELSE [s EXCEPT !.stale = {}]

SolverRestored_NoFlush(s, history) == [s EXCEPT !.phase = 0, !.history = history]

(* set_ and reset_solver_integration_state_host: the positions written before
   are flushed first, or the flush would overwrite the restored history. *)
SolverRestored(s, history) ==
  [Flush([s EXCEPT !.phase = 0]) EXCEPT !.history = history]

-----------------------------------------------------------------------------
(* The age of the contacts substep j of a tick uses, when the tick detects
   collisions at the substeps its branches were recorded or run for. *)
ContactAge(s, branch, j) ==
  LET detected == {d \in 0 .. j : (branch + d) % cadence.interval = 0}
  IN  IF detected = {} THEN s.age + j ELSE j - Max(detected)

Substeps == 0 .. cadence.substeps - 1

Capped(n) == IF n > cadence.interval THEN cadence.interval ELSE n

NoGraphs == [p \in 0 .. cadence.interval - 1 |-> None]
NoExpectation == [w \in Owned(sim) |-> None]
Expect(worlds, value) ==
  expected' = [w \in Owned(sim) |-> IF w \in worlds THEN value ELSE expected[w]]

Init ==
  /\ product \in {"mirror", "kaleidoscope"}
  /\ cadence \in Cadences
  /\ graphState \in {"disabled", "pending"}
  /\ graphs = [p \in 0 .. cadence.interval - 1 |-> None]
  /\ LET worlds == IF product = "mirror" THEN {MirrorWorld} ELSE Worlds
     IN  /\ sim = [host |-> {}, project |-> {}, rows |-> {}, masks |-> [m \in Masks |-> {}],
                   stale |-> {}, loose |-> {}, phase |-> 0, age |-> cadence.interval,
                   history |-> [w \in worlds |-> "positions"]]
         /\ expected = [w \in worlds |-> None]
  /\ life = "created" /\ broken = FALSE
  /\ clock = "zero" /\ used = 0 /\ behind = FALSE

Ready == life = "ready" /\ ~broken

(* initialize_worlds projects every world before the drive exists. *)
InitializeWorlds ==
  /\ life = "created"
  /\ life' = "ready"
  /\ UNCHANGED <<product, cadence, graphs, graphState, broken, sim, clock, used, behind, expected>>

(* A tick that raises is the end of Kaleidoscope; Mirror answers and goes on. *)
TickRaises ==
  /\ broken' = (product = "kaleidoscope")
  /\ UNCHANGED clock

(* _simulate to its end, with the collision branches of one phase, and what
   step does after it: the phase moves, the solver's state is packed, which may
   raise, and the time moves.  A tick that starts at phase zero detects first,
   whatever happened before. *)
Simulate(s, branch) ==
  /\ used' = Max({Capped(ContactAge(s, branch, j)) : j \in Substeps})
  /\ sim' = [SetHistory(s, Owned(s), "moved") EXCEPT
               !.phase = (s.phase + cadence.substeps) % cadence.interval,
               !.age = Capped(ContactAge(s, branch, cadence.substeps - 1) + 1)]
  /\ behind' = (behind /\ s.phase # 0)
  /\ (clock' = "later" /\ UNCHANGED broken) \/ TickRaises

(* _simulate raises, before it moved anything, or in substep j before or after
   the solver moved the state: the phase stays. *)
SimulateHalfWay(s, branch) ==
  /\ \/ sim' = s
     \/ \E j \in Substeps, solved \in {0, 1} :
          sim' = [SetHistory(s, Owned(s), "moved") EXCEPT
                    !.age = Capped(ContactAge(s, branch, j) + solved)]
  /\ behind' = (behind \/ s.phase # 0)
  /\ TickRaises
  /\ UNCHANGED used

Tick(s, branch) == Simulate(s, branch) \/ SimulateHalfWay(s, branch)

GraphSlot_Shared(phase) == 0

(* The entry of _graphs a tick looks up and records. *)
GraphSlot(phase) == phase

UsesGraphs == graphState \in {"pending", "captured"}

(* step: a missing graph is captured, which executes nothing, and launched
   once; a failed capture gives up on graphs and simulates once. *)
Step ==
  /\ Ready
  /\ LET s == Flush(sim)
         slot == GraphSlot(s.phase)
     IN  \/ /\ UsesGraphs /\ graphs[slot] # None
            /\ Tick(s, graphs[slot])
            /\ UNCHANGED <<graphs, graphState>>
         \/ /\ UsesGraphs /\ graphs[slot] = None
            /\ Tick(s, s.phase)
            /\ \/ /\ graphs' = [graphs EXCEPT ![slot] = s.phase]
                  /\ graphState' = "captured"
               \/ /\ graphs' = NoGraphs
                  /\ graphState' = "eager_fallback"
         \/ /\ ~UsesGraphs
            /\ Tick(s, s.phase)
            /\ UNCHANGED <<graphs, graphState>>
  /\ expected' = NoExpectation
  /\ UNCHANGED <<product, cadence, life>>

(* reset: the history put back first is overwritten by the flush. *)
Reset ==
  /\ Ready
  /\ LET restored == SetHistory(sim, Owned(sim), "saved")
     IN  sim' = Flush(HostWrite(restored, "joint", Owned(sim)))
  /\ clock' = "zero"
  /\ Expect(Owned(sim), "positions")
  /\ UNCHANGED <<product, cadence, graphs, graphState, life, broken, used, behind>>

(* commit_initial_state: the baseline is copied from flushed state. *)
CommitInitialState ==
  /\ Ready
  /\ clock = "zero"
  /\ sim' = Flush(sim)
  /\ UNCHANGED <<product, cadence, graphs, graphState, life, broken, clock, used, behind, expected>>

Forward ==
  /\ Ready
  /\ sim' = Forwarded(sim)
  /\ UNCHANGED <<product, cadence, graphs, graphState, life, broken, clock, used, behind, expected>>

(* pre_render publishes the bodies of a flushed state. *)
Render ==
  /\ Ready
  /\ sim' = Flush(sim)
  /\ UNCHANGED <<product, cadence, graphs, graphState, life, broken, clock, used, behind, expected>>

(* A change of the model makes every recorded graph useless. *)
DropGraphs ==
  /\ graphs' = NoGraphs
  /\ graphState' = IF graphState = "disabled" THEN "disabled" ELSE "pending"

SetGravity ==
  /\ Ready
  /\ DropGraphs
  /\ UNCHANGED <<product, cadence, life, broken, sim, clock, used, behind, expected>>

(* A write of gains, limits or drive types. *)
ModelWrite ==
  /\ Ready
  /\ DropGraphs
  /\ sim' = [sim EXCEPT !.phase = 0]
  /\ UNCHANGED <<product, cadence, life, broken, clock, used, behind, expected>>

-----------------------------------------------------------------------------
(* Mirror: one world, named by every write; a flush comes with the next use. *)
Mirror == Ready /\ product = "mirror"

(* A robot or a chain is put somewhere ("joint"), or a rigid object ("body"). *)
MirrorWrite ==
  /\ Mirror
  /\ \E field \in {"joint", "body"} :
       /\ sim' = HostWrite(sim, field, Owned(sim))
       /\ IF field = "joint" THEN Expect(Owned(sim), "positions") ELSE UNCHANGED expected
  /\ UNCHANGED <<product, cadence, graphs, graphState, life, broken, clock, used, behind>>

RobotsWritten(s) == HostWrite(s, "joint", Owned(s))
ObjectsWritten(s, field) == HostWrite(RobotsWritten(s), field, Owned(s))
History(value) == [w \in Owned(sim) |-> value]

(* set_mirror_snapshot: robots, objects, then the solver, from the payload of
   a Newton snapshot or from the baseline.  The caches reset last cannot be
   put back: a failure there is fatal. *)
MirrorRestore ==
  /\ Mirror
  /\ \E field \in {"joint", "body"}, value \in {"saved", "positions"} :
       /\ sim' = SolverRestored(ObjectsWritten(sim, field), History(value))
       /\ IF value = "saved" THEN clock' \in {"zero", "later"} ELSE clock' = "zero"
       /\ expected' = History(value)
  /\ broken' \in BOOLEAN
  /\ UNCHANGED <<product, cadence, graphs, graphState, life, used, behind>>

(* The restore fails while it writes the robots, the objects, or the solver,
   and what it had begun is undone in reverse order. *)
RobotsUndone == sim' = RobotsWritten(RobotsWritten(sim))
ObjectsUndone(field) == sim' = RobotsWritten(ObjectsWritten(ObjectsWritten(sim, field), field))
SolverUndone(field, value) ==
  LET failed == SolverRestored(ObjectsWritten(sim, field), History(value))
      undone == SolverRestored(failed, sim.history)
  IN  sim' = RobotsWritten(ObjectsWritten(undone, field))

MirrorRestoreUndone ==
  /\ Mirror
  /\ \/ RobotsUndone
     \/ \E field \in {"joint", "body"} : ObjectsUndone(field)
     \/ \E field \in {"joint", "body"}, value \in {"saved", "positions"} :
          SolverUndone(field, value)
  /\ broken' = FALSE
  /\ expected' = NoExpectation
  /\ UNCHANGED <<product, cadence, graphs, graphState, life, clock, used, behind>>

-----------------------------------------------------------------------------
(* Kaleidoscope: rows on the device; every operation ends with a forward.  An
   operation that fails half way leaves the runtime fail-stop. *)
Kaleidoscope == Ready /\ product = "kaleidoscope"

(* write_reset, for the finished rows of a SAME_STEP token or for rows a
   caller names; the solver port resets the drive after its own forward. *)
ResetRows ==
  /\ Kaleidoscope
  /\ \E rows \in SUBSET Worlds, sameStep \in BOOLEAN :
       LET mask(field) == IF sameStep THEN "done" ELSE field
           bodies == DeviceWrite(DeviceWrite(sim, "joint", mask("joint"), rows),
                                 "body", mask("body"), rows)
           solver == SetHistory(Forwarded([bodies EXCEPT !.phase = 0]), rows, "positions")
       IN  /\ sameStep \/ rows # {}
           /\ sim' = Forwarded(solver)
           /\ Expect(rows, "positions")
  /\ UNCHANGED <<product, cadence, graphs, graphState, life, broken, clock, used, behind>>

FieldsWritten(s, fields, rows) ==
  LET full == IF "full" \in fields THEN DeviceWrite(s, "full", "full", rows) ELSE s
  IN  IF "body" \in fields THEN DeviceWrite(full, "body", "body", rows) ELSE full

(* _write_drive forwards what was written before it. *)
DriveWritten(s, rows) == SetHistory(Forwarded(s), rows, "saved")

(* The fields of a state payload, those before and those after the drive's. *)
PayloadWritten(s, before, after, rows) ==
  FieldsWritten(DriveWritten(FieldsWritten(s, before, rows), rows), after, rows)

PlainFields == SUBSET {"full", "body"}

WriteState_NoForward ==
  /\ Kaleidoscope
  /\ \E rows \in SUBSET Worlds \ {{}}, fields \in PlainFields :
       sim' = [FieldsWritten(sim, fields, rows) EXCEPT !.phase = 0]
  /\ UNCHANGED <<product, cadence, graphs, graphState, life, broken, clock, used, behind, expected>>

(* set_state, restore and clone: the full joint state, the object, the solver
   and the drive, each there or not, then the forward.  Only the solver's write
   touches the phase by itself. *)
WriteState ==
  /\ Kaleidoscope
  /\ \E rows \in SUBSET Worlds \ {{}}, before, after \in PlainFields, solver \in BOOLEAN :
       LET from == IF solver THEN [sim EXCEPT !.phase = 0] ELSE sim
       IN  /\ before \cap after = {}
           /\ \/ /\ sim' = Forwarded(PayloadWritten(from, before, after, rows))
                 /\ Expect(rows, "saved")
              \/ /\ after = {}
                 /\ sim' = Forwarded(FieldsWritten(from, before, rows))
                 /\ UNCHANGED expected
  /\ UNCHANGED <<product, cadence, graphs, graphState, life, broken, clock, used, behind>>

ProductFails ==
  /\ Ready
  /\ broken' = TRUE
  /\ UNCHANGED <<product, cadence, graphs, graphState, life, sim, clock, used, behind, expected>>

(* close clears the books whatever fails on the way, once. *)
Close ==
  /\ life # "closed"
  /\ life' = "closed"
  /\ graphs' = NoGraphs
  /\ sim' = [sim EXCEPT !.host = {}, !.project = {}, !.rows = {}]
  /\ UNCHANGED <<product, cadence, graphState, broken, clock, used, behind, expected>>

Next ==
  \/ InitializeWorlds \/ Step \/ Reset \/ CommitInitialState \/ Forward \/ Render
  \/ SetGravity \/ ModelWrite
  \/ MirrorWrite \/ MirrorRestore \/ MirrorRestoreUndone
  \/ ResetRows \/ WriteState
  \/ ProductFails \/ Close

Spec == Init /\ [][Next]_vars

-----------------------------------------------------------------------------
Phases == 0 .. cadence.interval - 1

TypeOK ==
  /\ product \in {"mirror", "kaleidoscope"} /\ cadence \in Cadences
  /\ life \in {"created", "ready", "closed"} /\ broken \in BOOLEAN
  /\ graphs \in [Phases -> Phases \cup {None}]
  /\ graphState \in {"disabled", "pending", "captured", "eager_fallback"}
  /\ sim.host \subseteq Owned(sim) /\ sim.project \subseteq sim.host
  /\ sim.rows \subseteq [field : Fields, mask : Masks]
  /\ sim.masks \in [Masks -> SUBSET Worlds]
  /\ sim.stale \subseteq Owned(sim) /\ sim.loose \subseteq sim.stale
  /\ sim.phase \in Phases /\ sim.age \in 0 .. cadence.interval
  /\ sim.history \in [Owned(sim) -> Histories]
  /\ clock \in {"zero", "later"} /\ used \in 0 .. cadence.interval /\ behind \in BOOLEAN
  /\ expected \in [Owned(sim) -> Histories \cup {None}]

(* The flush that starts a tick, a render or a commit leaves no world whose
   kinematics or followers are out of date, whatever masks were refilled in
   between: _flush_cold_state_updates knows of every write. *)
FlushDerivesEverything == Ready => Flush(sim).stale = {} /\ Flush(sim).loose = {}

(* No substep of a whole tick ever solves with contacts older than the
   collision interval, nor with contacts of a geometry that was since written
   over, whether it is run eagerly or replayed from a graph.  Left out are the
   ticks after one that failed half-way at another phase than zero: its substeps
   aged the contacts and the phase does not know, until a tick starts at zero. *)
ContactsAreFresh == behind \/ used < cadence.interval

(* The drive history an operation restored or reset is still there when the
   next tick starts: no later flush of an earlier write replaces it. *)
HistoryAsWritten ==
  Ready => \A w \in Owned(sim) :
             expected[w] # None => Flush(sim).history[w] = expected[w]
=============================================================================
