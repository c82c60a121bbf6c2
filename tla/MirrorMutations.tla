--------------------------- MODULE MirrorMutations ---------------------------
(***************************************************************************)
(* What the operations of one Mirror runtime do to the engine, one         *)
(* operation at a time, as MirrorController.dispatch runs them on the      *)
(* owner thread: the control-mode switch (mirror/control_mode.py), the     *)
(* restore of a snapshot or a state (snapshots/mirror_adapter.py), the     *)
(* reset (mirror/reset_runtime.py, the resetter of scene_assembly.py),     *)
(* timelines, wrench tares and hybrid motions, over the compensating       *)
(* transaction of snapshots/transactions.py.                               *)
(*                                                                         *)
(* Every write to the engine may raise half-way, and so may the write that *)
(* is to undo it.  A fatal error is kept on the object the transaction was *)
(* opened for: MirrorRuntime for a mode switch and for a hybrid motion,    *)
(* the scene resources for everything else.                                *)
(***************************************************************************)
EXTENDS Integers, Sequences, FiniteSets

CONSTANTS
  NumRobots,
  Modes,              \* control modes the profiles support
  Poses,              \* what a robot or an object can be posed as
  Home,               \* the configured initial pose
  Torn, Default, Hybrid, NoSnapshot,
  MaxSwitches, MaxTares, MaxResets      \* bounds of generation, tares and resets

ASSUME MutationAssumption ==
  /\ NumRobots \in Nat \ {0}
  /\ "position" \in Modes
  /\ Home \in Poses
  /\ Torn \notin Modes \cup Poses /\ Default \notin Modes /\ Hybrid \notin Modes
  /\ Torn # Default /\ Torn # Hybrid /\ Default # Hybrid
  /\ {MaxSwitches, MaxTares, MaxResets} \subseteq Nat

Robots == 1 .. NumRobots
Owners == {"runtime", "resources"}

(* Objects stands for the scene objects and the Newton solver state restored *)
(* right after them.  Attachments are posed like the rest: Home is "nothing *)
(* carried".                                                               *)
Objects == <<"objects", 0>>
Attachments == <<"attachments", 0>>
Body(r) == <<"robot", r>>
Parts == {Body(r) : r \in Robots} \cup {Objects, Attachments}

VARIABLES
  drive,       \* the control mode the engine drives each robot in
  settings,    \* JointController.settings
  content,     \* what the engine holds for each part of the scene
  activeMode, generation,     \* MirrorControlModeService
  fatal,       \* the objects whose fatal_error is set
  tare,        \* tare generation of each robot, 0 when it has none
  nextTare,
  snapshot,    \* a snapshot the client holds
  txn,         \* the operation in progress
  resets,      \* history: how often the world was reset
  taredAt      \* history: the reset after which each tare was taken

engineVars == <<drive, settings, content>>
modeVars == <<activeMode, generation>>
tareVars == <<tare, nextTare, taredAt>>
vars == <<engineVars, modeVars, fatal, tareVars, snapshot, txn, resets>>

World == [drive |-> drive, settings |-> settings, content |-> content]

AtRest == txn.pc = "rest"
RestingFrom(w) == [pc |-> "rest", op |-> "none", owner |-> "runtime", todo |-> <<>>,
                   undo |-> <<>>, marked |-> FALSE, broken |-> FALSE, saved |-> w, arg |-> 0]

-----------------------------------------------------------------------------
(* The forward steps of the transactions, in the order the code takes them *)

DriveStep(r, mode) == [kind |-> "drive", at |-> r, to |-> mode]
PartStep(part, pose) == [kind |-> "part", at |-> part, to |-> pose]
Mark == [kind |-> "mark", at |-> 0, to |-> 0]
WorldReset == [kind |-> "world", at |-> 0, to |-> 0]
ConfigureStep(r) == [kind |-> "configure", at |-> r, to |-> 0]
Flush == [kind |-> "flush", at |-> 0, to |-> 0]  \* observers, clocks, collision cache

SwitchPlan(mode) == [r \in Robots |-> DriveStep(r, mode)]

RestorePlan(pose) ==
  [r \in Robots |-> PartStep(Body(r), pose[Body(r)])]
    \o <<PartStep(Objects, pose[Objects]), PartStep(Attachments, pose[Attachments])>>
    \o <<Mark, Flush, Mark, Flush>>

(* Newton poses nothing before the reset of its model. *)
ResetPlans ==
  LET home == <<PartStep(Objects, Home)>> \o [r \in Robots |-> PartStep(Body(r), Home)]
      rest == <<Mark, WorldReset>> \o [r \in Robots |-> ConfigureStep(r)] \o <<Flush>>
  IN  {home \o rest, rest}

Reversible(s) == s.kind \in {"drive", "part"}

-----------------------------------------------------------------------------
(* transactions.py: mutation_transaction *)

BeginTransaction(op, owner, plan, arg) ==
  /\ AtRest
  /\ owner \notin fatal               \* require_runtime_mutable
  /\ txn' = [RestingFrom(World) EXCEPT !.pc = "forward", !.op = op, !.owner = owner,
                                       !.todo = plan, !.arg = arg]
  /\ UNCHANGED <<engineVars, modeVars, fatal, tareVars, snapshot, resets>>

Advance(undo) == txn' = [txn EXCEPT !.todo = Tail(@), !.undo = undo]

(* add_rollback comes first, the write after it. *)
ForwardWrite ==
  /\ txn.pc = "forward" /\ txn.todo # <<>>
  /\ LET s == Head(txn.todo) IN
       /\ Reversible(s)
       /\ IF s.kind = "drive"
            THEN /\ drive' = [drive EXCEPT ![s.at] = s.to]
                 /\ settings' = [settings EXCEPT ![s.at] = s.to]
                 /\ UNCHANGED content
            ELSE /\ content' = [content EXCEPT ![s.at] = s.to]
                 /\ UNCHANGED <<drive, settings>>
       /\ Advance(<<s>> \o txn.undo)
  /\ UNCHANGED <<modeVars, fatal, tareVars, snapshot, resets>>

MarkIrreversible ==
  /\ txn.pc = "forward" /\ txn.todo # <<>>
  /\ Head(txn.todo).kind = "mark"
  /\ txn' = [txn EXCEPT !.todo = Tail(@), !.marked = TRUE]
  /\ UNCHANGED <<engineVars, modeVars, fatal, tareVars, snapshot, resets>>

(* World.reset returns the engine to its initial state and its drives to    *)
(* their defaults.                                                         *)
ResetWorld_DropsSettings ==
  /\ txn.pc = "forward" /\ txn.todo # <<>>
  /\ Head(txn.todo).kind = "world"
  /\ content' = [p \in Parts |-> IF p = Attachments THEN content[p] ELSE Home]
  /\ drive' = [r \in Robots |-> Default]
  /\ settings' = [r \in Robots |-> Default]
  /\ resets' = resets + 1
  /\ Advance(txn.undo)
  /\ UNCHANGED <<modeVars, fatal, tareVars, snapshot>>
ResetWorld ==
  /\ txn.pc = "forward" /\ txn.todo # <<>>
  /\ Head(txn.todo).kind = "world"
  /\ content' = [p \in Parts |-> IF p = Attachments THEN content[p] ELSE Home]
  /\ drive' = [r \in Robots |-> Default]
  /\ resets' = resets + 1
  /\ Advance(txn.undo)
  /\ UNCHANGED <<settings, modeVars, fatal, tareVars, snapshot>>

(* _reset_prepared_robot: configure_runtime applies the current settings. *)
ConfigureRobot_FromProfile ==
  /\ txn.pc = "forward" /\ txn.todo # <<>>
  /\ Head(txn.todo).kind = "configure"
  /\ drive' = [drive EXCEPT ![Head(txn.todo).at] = "position"]
  /\ Advance(txn.undo)
  /\ UNCHANGED <<settings, content, modeVars, fatal, tareVars, snapshot, resets>>
ConfigureRobot ==
  /\ txn.pc = "forward" /\ txn.todo # <<>>
  /\ Head(txn.todo).kind = "configure"
  /\ LET r == Head(txn.todo).at IN drive' = [drive EXCEPT ![r] = settings[r]]
  /\ Advance(txn.undo)
  /\ UNCHANGED <<settings, content, modeVars, fatal, tareVars, snapshot, resets>>

FlushCaches ==
  /\ txn.pc = "forward" /\ txn.todo # <<>>
  /\ Head(txn.todo).kind = "flush"
  /\ Advance(txn.undo)
  /\ UNCHANGED <<engineVars, modeVars, fatal, tareVars, snapshot, resets>>

(* What a write to a drive leaves when it raises: the engine half written,  *)
(* or everything written and the settings too, when only the neutral target *)
(* that follows was refused.                                               *)
DriveWriteRaises(r, mode) ==
  /\ \/ drive' = [drive EXCEPT ![r] = Torn] /\ UNCHANGED settings
     \/ /\ drive' = [drive EXCEPT ![r] = mode]
        /\ settings' = [settings EXCEPT ![r] = mode]
  /\ UNCHANGED content

ForwardRaises ==
  /\ txn.pc = "forward" /\ txn.todo # <<>>
  /\ LET s == Head(txn.todo) IN
       /\ s.kind # "mark"
       /\ txn' = [txn EXCEPT !.pc = "rollback", !.todo = <<>>,
                             !.undo = IF Reversible(s) THEN <<s>> \o @ ELSE @]
       /\ CASE s.kind = "drive" -> DriveWriteRaises(s.at, s.to) /\ UNCHANGED resets
            [] s.kind = "part" -> /\ content' = [content EXCEPT ![s.at] = Torn]
                                  /\ UNCHANGED <<drive, settings, resets>>
            [] s.kind = "world" -> /\ drive' = [r \in Robots |-> Torn]
                                   /\ content' = [p \in Parts |-> IF p = Attachments THEN content[p] ELSE Torn]
                                   /\ resets' = resets + 1
                                   /\ UNCHANGED settings
            [] s.kind = "configure" -> /\ drive' = [drive EXCEPT ![s.at] = Torn]
                                       /\ UNCHANGED <<settings, content, resets>>
            [] s.kind = "flush" -> UNCHANGED <<engineVars, resets>>
  /\ UNCHANGED <<modeVars, fatal, tareVars, snapshot>>

(* A compensating action restores the value that was read before the first  *)
(* write; when it raises, the earlier ones still run.                      *)
RollbackStep ==
  /\ txn.pc = "rollback" /\ txn.undo # <<>>
  /\ LET s == Head(txn.undo) IN
       \/ /\ IF s.kind = "drive"
               THEN /\ drive' = [drive EXCEPT ![s.at] = txn.saved.drive[s.at]]
                    /\ settings' = [settings EXCEPT ![s.at] = txn.saved.settings[s.at]]
                    /\ UNCHANGED content
               ELSE /\ content' = [content EXCEPT ![s.at] = txn.saved.content[s.at]]
                    /\ UNCHANGED <<drive, settings>>
          /\ txn' = [txn EXCEPT !.undo = Tail(@)]
       \/ /\ IF s.kind = "drive"
               THEN DriveWriteRaises(s.at, txn.saved.settings[s.at])
               ELSE /\ content' = [content EXCEPT ![s.at] = Torn]
                    /\ UNCHANGED <<drive, settings>>
          /\ txn' = [txn EXCEPT !.undo = Tail(@), !.broken = TRUE]
  /\ UNCHANGED <<modeVars, fatal, tareVars, snapshot, resets>>

Rest == txn' = RestingFrom([drive |-> drive', settings |-> settings', content |-> content'])

EndRollback_IgnoresMarks ==
  /\ txn.pc = "rollback" /\ txn.undo = <<>>
  /\ fatal' = IF txn.broken THEN fatal \cup {txn.owner} ELSE fatal
  /\ UNCHANGED <<engineVars, modeVars, tareVars, snapshot, resets>>
  /\ Rest
EndRollback ==
  /\ txn.pc = "rollback" /\ txn.undo = <<>>
  /\ fatal' = IF txn.broken \/ txn.marked THEN fatal \cup {txn.owner} ELSE fatal
  /\ UNCHANGED <<engineVars, modeVars, tareVars, snapshot, resets>>
  /\ Rest

-----------------------------------------------------------------------------
(* The operations *)

(* control.set_mode; a switch to the active mode writes nothing.  expected  *)
(* is the generation the client read, or -1 when it gives none.             *)
BeginSetMode(mode, expected) ==
  /\ generation < MaxSwitches
  /\ expected \in {-1, generation}
  /\ mode # activeMode
  /\ BeginTransaction("set_mode", "runtime", SwitchPlan(mode), mode)

CommitSetMode ==
  /\ txn.pc = "forward" /\ txn.todo = <<>> /\ txn.op = "set_mode"
  /\ activeMode' = txn.arg
  /\ generation' = generation + 1
  /\ UNCHANGED <<engineVars, fatal, tareVars, snapshot, resets>>
  /\ Rest

CaptureSnapshot ==
  /\ AtRest
  /\ \A p \in Parts : content[p] # Torn      \* a torn part has no name here
  /\ snapshot' = [mode |-> activeMode, content |-> content]
  /\ UNCHANGED <<engineVars, modeVars, fatal, tareVars, txn, resets>>

(* state.set and snapshot.set: the snapshot must be of the active mode. *)
BeginRestore ==
  /\ snapshot # NoSnapshot
  /\ snapshot.mode = activeMode
  /\ BeginTransaction("restore", "resources", RestorePlan(snapshot.content), 0)

CommitRestore ==
  /\ txn.pc = "forward" /\ txn.todo = <<>> /\ txn.op = "restore"
  /\ UNCHANGED <<engineVars, modeVars, fatal, tareVars, snapshot, resets>>
  /\ Rest

(* runtime.reset *)
BeginReset ==
  /\ resets < MaxResets
  /\ \E plan \in ResetPlans : BeginTransaction("reset", "resources", plan, 0)

(* After its transaction the resetter drops the attachments and the tares;  *)
(* the hold that may follow moves nothing away from home.                   *)
CommitReset_KeepsTares ==
  /\ txn.pc = "forward" /\ txn.todo = <<>> /\ txn.op = "reset"
  /\ content' = [content EXCEPT ![Attachments] = Home]
  /\ UNCHANGED <<drive, settings, modeVars, fatal, tareVars, snapshot, resets>>
  /\ Rest
CommitReset ==
  /\ txn.pc = "forward" /\ txn.todo = <<>> /\ txn.op = "reset"
  /\ content' = [content EXCEPT ![Attachments] = Home]
  /\ tare' = [r \in Robots |-> 0]
  /\ UNCHANGED <<drive, settings, modeVars, fatal, nextTare, taredAt, snapshot, resets>>
  /\ Rest

(* attach_planning_object and detach_planning_object *)
Attach ==
  /\ AtRest
  /\ "runtime" \notin fatal
  /\ \E pose \in Poses : content' = [content EXCEPT ![Attachments] = pose]
  /\ UNCHANGED <<drive, settings, modeVars, fatal, tareVars, snapshot, resets>>
  /\ Rest

(* Every robot and what it touches ends up wherever the motion took it. *)
Moved == \E pose \in Poses :
  content' = [p \in Parts |-> IF p = Attachments THEN content[p] ELSE pose]

(* motion.*: execute_robot_timeline, to its end or until it stops or fails. *)
Motion ==
  /\ AtRest
  /\ "resources" \notin fatal
  /\ Moved
  /\ UNCHANGED <<drive, settings, modeVars, fatal, tareVars, snapshot, resets>>
  /\ Rest

(* control.tare_wrench, completed *)
TareWrench(r) ==
  /\ AtRest
  /\ nextTare <= MaxTares
  /\ "runtime" \notin fatal
  /\ activeMode = "position" /\ settings[r] = "position"
  /\ Moved
  /\ tare' = [tare EXCEPT ![r] = nextTare]
  /\ taredAt' = [taredAt EXCEPT ![nextTare] = resets]
  /\ nextTare' = nextTare + 1
  /\ UNCHANGED <<drive, settings, modeVars, fatal, snapshot, resets>>
  /\ Rest

(* motion.hybrid_force_position, from its preflight to its override; wanted *)
(* is the tare generation the request names.  No fatal_error is asked for.  *)
BeginHybrid(r, wanted) ==
  /\ AtRest
  /\ activeMode = "position" /\ settings[r] = "position"
  /\ tare[r] # 0 /\ tare[r] = wanted
  /\ \/ /\ drive' = [drive EXCEPT ![r] = Hybrid]
        /\ settings' = [settings EXCEPT ![r] = Hybrid]
        /\ UNCHANGED content
     \/ DriveWriteRaises(r, Hybrid)
  /\ txn' = [RestingFrom(World) EXCEPT !.pc = "hybrid", !.op = "hybrid", !.arg = r]
  /\ UNCHANGED <<modeVars, fatal, tareVars, snapshot, resets>>

HybridTicks ==
  /\ txn.pc = "hybrid"
  /\ Moved
  /\ txn' = [txn EXCEPT !.pc = "handover"]
  /\ UNCHANGED <<drive, settings, modeVars, fatal, tareVars, snapshot, resets>>

(* _cleanup_override: whatever ended the ticks, position control is given   *)
(* back, or the runtime is fatal.                                          *)
Handover ==
  /\ txn.pc \in {"hybrid", "handover"}
  /\ LET r == txn.arg IN
       \/ /\ drive' = [drive EXCEPT ![r] = txn.saved.settings[r]]
          /\ settings' = [settings EXCEPT ![r] = txn.saved.settings[r]]
          /\ UNCHANGED <<content, fatal>>
       \/ /\ \/ UNCHANGED engineVars
             \/ DriveWriteRaises(r, txn.saved.settings[r])
          /\ fatal' = fatal \cup {"runtime"}
  /\ UNCHANGED <<modeVars, tareVars, snapshot, resets>>
  /\ Rest

-----------------------------------------------------------------------------
Init ==
  /\ activeMode \in Modes
  /\ generation = 0
  /\ drive = [r \in Robots |-> activeMode]
  /\ settings = [r \in Robots |-> activeMode]
  /\ content = [p \in Parts |-> Home]
  /\ fatal = {}
  /\ tare = [r \in Robots |-> 0]
  /\ nextTare = 1
  /\ snapshot = NoSnapshot
  /\ txn = RestingFrom(World)
  /\ resets = 0
  /\ taredAt = [g \in 1 .. MaxTares |-> 0]

Transaction ==
  \/ ForwardWrite \/ MarkIrreversible \/ ResetWorld \/ ConfigureRobot \/ FlushCaches
  \/ ForwardRaises \/ RollbackStep \/ EndRollback

Next ==
  \/ Transaction
  \/ \E mode \in Modes, expected \in -1 .. MaxSwitches : BeginSetMode(mode, expected)
  \/ CommitSetMode
  \/ CaptureSnapshot \/ BeginRestore \/ CommitRestore
  \/ BeginReset \/ CommitReset
  \/ Attach \/ Motion
  \/ \E r \in Robots : TareWrench(r)
  \/ \E r \in Robots, wanted \in 1 .. MaxTares : BeginHybrid(r, wanted)
  \/ HybridTicks \/ Handover

Spec == Init /\ [][Next]_vars

-----------------------------------------------------------------------------
(* Properties *)

Worlds == [drive : [Robots -> Modes \cup {Hybrid, Default, Torn}],
           settings : [Robots -> Modes \cup {Hybrid}],
           content : [Parts -> Poses \cup {Torn}]]

(* Every variable keeps its shape: in particular the settings of a robot    *)
(* are always those of a mode, whatever became of its drive.                *)
TypeOK ==
  /\ World \in Worlds
  /\ activeMode \in Modes /\ generation \in 0 .. MaxSwitches
  /\ fatal \subseteq Owners
  /\ nextTare \in 1 .. MaxTares + 1
  /\ tare \in [Robots -> 0 .. nextTare - 1]
  /\ taredAt \in [1 .. MaxTares -> 0 .. MaxResets]
  /\ resets \in 0 .. MaxResets
  /\ snapshot # NoSnapshot => snapshot.mode \in Modes /\ snapshot.content \in [Parts -> Poses]
  /\ txn.pc \in {"rest", "forward", "rollback", "hybrid", "handover"}
  /\ txn.owner \in Owners
  /\ txn.saved \in Worlds

(* Between operations every robot is driven in the mode the runtime says it *)
(* is in, and its settings are those of that mode, although a switch writes *)
(* the robots one by one, a reset rewrites the drives from the settings     *)
(* without knowing the mode, and a hybrid motion overrides one of them.     *)
ModeAgrees ==
  AtRest /\ fatal = {} =>
    \A r \in Robots : drive[r] = activeMode /\ settings[r] = activeMode

(* A tare is never older than the last reset of the world, so a hybrid      *)
(* motion cannot use a wrench offset from before a reset.                   *)
TareIsFresh ==
  AtRest /\ "resources" \notin fatal =>
    \A r \in Robots : tare[r] # 0 => taredAt[tare[r]] = resets

Atomic == INSTANCE AtomicMutation WITH
  drive <- txn.saved.drive, content <- txn.saved.content, mode <- activeMode

(* A mutation that fails half-way, at any of its writes and with any of its *)
(* compensations failing too, has no effect at all or breaks its owner.     *)
IsAtomic == Atomic!Spec

=============================================================================
