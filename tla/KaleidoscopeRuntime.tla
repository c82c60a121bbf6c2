------------------------- MODULE KaleidoscopeRuntime -------------------------
(***************************************************************************)
(* kaleidoscope/runtime.py with the control-mode coordinator, the state    *)
(* API, the tensor views and the task it drives: one thread, a vector of   *)
(* environments, and two ways to advance them.  Native step refuses to     *)
(* move an environment that waits for its reset; the training path steps   *)
(* under a SAME_STEP token and resets the finished rows before the token   *)
(* is given back.                                                          *)
(*                                                                         *)
(* A target is kept per row.  What the canonical buffers hold for all      *)
(* robots is one value; what an engine port drives is that value's columns *)
(* for its robot, so a port agrees with the buffers when the values are    *)
(* equal.  Joint positions are not kept: they are whatever the engine      *)
(* reads back.  Any write to the engine may fail half way.                 *)
(***************************************************************************)
EXTENDS Naturals

CONSTANTS
  Envs,        \* the rows
  NumRobots,   \* ports, in the order of the control bindings
  Values,      \* joint positions, velocities and efforts
  Zero,        \* the neutral velocity or effort
  Supported,   \* the modes the configured action supports
  Children,    \* what close closes before the session
  None,        \* no snapshot, no mode switch
  Session,     \* the IsaacSession
  Torn         \* the content of an engine buffer after a failed write

ASSUME RobotsAssumption == NumRobots \in Nat
ASSUME ValuesAssumption == Zero \in Values /\ Torn \notin Values
ASSUME ModesAssumption ==
  /\ Supported \subseteq {"position", "velocity", "effort"}
  /\ "position" \in Supported

Robots == 1 .. NumRobots

VARIABLES
  mode,        \* the coordinator's active mode
  masksTargets,\* the engine's target writers obey the SAME_STEP mask (Newton) or not (PhysX)
  profile,     \* robot -> the control runtime its port applies
  driven,      \* robot -> row -> the target the engine drives
  target,      \* row -> views.control_targets
  reference,   \* row -> views.position_references
  needsReset,  \* rows waiting for a reset
  token,       \* SAME_STEP: "none", "issued" or "stepped"
  owed,        \* _outstanding_done, which only a stepped token reads: the rows it has to reset
  switch,      \* the mode switch under way
  broken,      \* failed, fatal or poisoned: the runtime must be recreated
  closing,     \* teardown has started
  released,    \* what close has closed
  snapshot,    \* a snapshot of one row held by the caller
  unreset      \* history: rows a token's step finished and nothing has reset since

engine == <<profile, driven>>
buffers == <<target, reference, needsReset>>
teardown == <<closing, released>>
vars == <<mode, masksTargets, profile, driven, target, reference, needsReset, token, owed,
          switch, broken, closing, released, snapshot, unreset>>

Rows(v) == [e \in Envs |-> v]
Snapshots == [mode : Supported, target : Values, reference : Values, due : BOOLEAN]
Switches == [to : Supported, robot : 0 .. NumRobots + 1, back : BOOLEAN, lost : BOOLEAN,
             q : [Envs -> Values]]

ASSUME NoneAssumption == None \notin Snapshots \cup Switches

(* The target a mode holds a robot still with at positions q. *)
Neutral(m, q) == IF m = "position" THEN q ELSE Rows(Zero)

Usable == ~closing /\ ~broken
Idle == switch = None
NoTransaction == token = "none"

(* Mutations look only at the health of the runtime. *)
MayMutate_IgnoresTransaction == Usable /\ Idle

(* An operation that mutates outside a SAME_STEP transaction. *)
MayMutate == Usable /\ Idle /\ NoTransaction

Init ==
  /\ mode = "position"
  /\ masksTargets \in BOOLEAN
  /\ reference \in [Envs -> Values]
  /\ target = reference
  /\ profile = [r \in Robots |-> "position"]
  /\ driven = [r \in Robots |-> target]
  /\ needsReset = {} /\ owed = {} /\ unreset = {}
  /\ token = "none"
  /\ switch = None /\ snapshot = None
  /\ broken = FALSE /\ closing = FALSE /\ released = {}

-----------------------------------------------------------------------------
(* A write to the engine stopped half way: nobody knows what the ports      *)
(* drive, and the runtime is fail-stop from here on.                        *)
EngineFails ==
  /\ driven' = [r \in Robots |-> Rows(Torn)]
  /\ broken' = TRUE
  /\ UNCHANGED <<mode, masksTargets, profile, target, reference, needsReset, token, owed,
                 switch, closing, released, snapshot, unreset>>

(* The core of both steps: the action's targets are dispatched to every port,
   the reference is committed, and the task finds the rows that are done. *)
StepCore(done) ==
  /\ \E t \in [Envs -> Values] :
       /\ target' = t
       /\ driven' = [r \in Robots |-> t]
       /\ IF mode = "position" THEN reference' = t ELSE reference' \in [Envs -> Values]
  /\ needsReset' = done
  /\ UNCHANGED <<mode, masksTargets, profile, switch, broken, closing, released, snapshot>>

(* The action accumulates on views.position_references in place, and it, or
   the check of what it returned, raises before the first dispatch: outside
   the handler that would make the runtime fail-stop. *)
ActionRaises ==
  /\ reference' \in [Envs -> Values]
  /\ UNCHANGED <<mode, masksTargets, engine, target, needsReset, token, owed, switch, broken,
                 teardown, snapshot, unreset>>

Step ==
  /\ MayMutate
  /\ needsReset = {}
  /\ \/ /\ \E done \in SUBSET Envs : StepCore(done)
        /\ UNCHANGED <<token, owed, unreset>>
     \/ ActionRaises
     \/ EngineFails

IssueToken ==
  /\ MayMutate
  /\ token' = "issued"
  /\ UNCHANGED <<mode, masksTargets, engine, buffers, owed, switch, broken, teardown,
                 snapshot, unreset>>

TokenizedStep ==
  /\ Usable /\ Idle
  /\ token = "issued"
  /\ \/ /\ \E done \in SUBSET Envs :
             /\ StepCore(done)
             /\ owed' = done
             /\ unreset' = done
        /\ token' = "stepped"
     \/ ActionRaises
     \/ EngineFails

(* A reset of rows: each gets new joints, its reference and a neutral target. *)
ResetTargets(rows, fresh) ==
  /\ reference' = [e \in Envs |-> IF e \in rows THEN fresh[e] ELSE reference[e]]
  /\ target' = [e \in Envs |-> IF e \in rows THEN Neutral(mode, fresh)[e] ELSE target[e]]
  /\ driven' = [r \in Robots |->
                 [e \in Envs |-> IF e \in rows THEN Neutral(mode, fresh)[e] ELSE driven[r][e]]]

(* reset, reset_idx and restore_reset_description. *)
ResetRows ==
  /\ MayMutate
  /\ \/ /\ \E rows \in SUBSET Envs \ {{}}, fresh \in [Envs -> Values] :
             /\ ResetTargets(rows, fresh)
             /\ needsReset' = needsReset \ rows
             /\ unreset' = unreset \ rows
        /\ UNCHANGED <<mode, masksTargets, profile, token, owed, switch, broken, teardown, snapshot>>
     \/ EngineFails

(* The fixed N-row command of a SAME_STEP reset: rows that are not owed keep
   their joints and reference, and views.write_reset writes all N targets;
   only an engine that takes the mask leaves the other rows' targets alone. *)
MaskedResetTargets(fresh) ==
  LET q == [e \in Envs |-> IF e \in owed THEN fresh[e] ELSE reference[e]]
  IN  /\ reference' = q
      /\ target' = Neutral(mode, q)
      /\ driven' = [r \in Robots |->
                     [e \in Envs |-> IF masksTargets /\ e \notin owed
                                     THEN driven[r][e] ELSE Neutral(mode, q)[e]]]

CompleteReset ==
  /\ Usable /\ Idle
  /\ token = "stepped"
  /\ \/ /\ \E fresh \in [Envs -> Values] : MaskedResetTargets(fresh)
        /\ needsReset' = needsReset \ owed
        /\ unreset' = unreset \ owed
        /\ token' = "none" /\ owed' = {}
        /\ UNCHANGED <<mode, masksTargets, profile, switch, broken, teardown, snapshot>>
     \/ EngineFails

-----------------------------------------------------------------------------
(* A state write of one of the pair does not supply the other. *)
WriteState_Unpaired(rows, fields, t, q, due) ==
  LET Into(old, new, name) == [e \in Envs |-> IF name \in fields /\ e \in rows THEN new ELSE old[e]]
  IN  /\ target' = Into(target, t, "target")
      /\ reference' = Into(reference, q, "reference")
      /\ driven' = [r \in Robots |-> Into(driven[r], t, "target")]
      /\ UNCHANGED <<mode, masksTargets, profile, needsReset, token, owed, switch, broken,
                     teardown, snapshot, unreset>>

(* The state API: engine writers first, then the canonical rows. *)
WriteState(rows, fields, t, q, due) ==
  LET sent == fields \cap {"target", "reference"}
      \* in position mode the two must match, or the missing one is supplied
      paired == IF mode = "position" /\ sent # {} THEN {"target", "reference"} ELSE sent
      tt == IF mode = "position" /\ "target" \notin sent THEN q ELSE t
      qq == IF mode = "position" /\ "reference" \notin sent THEN t ELSE q
      Into(old, new, name) == [e \in Envs |-> IF name \in paired /\ e \in rows THEN new ELSE old[e]]
  IN  /\ mode = "position" /\ sent = {"target", "reference"} => t = q
      /\ target' = Into(target, tt, "target")
      /\ reference' = Into(reference, qq, "reference")
      /\ driven' = [r \in Robots |-> Into(driven[r], tt, "target")]
      /\ needsReset' = IF "needsReset" \notin fields THEN needsReset
                       ELSE IF due THEN needsReset \cup rows ELSE needsReset \ rows
      /\ unreset' = unreset
      /\ UNCHANGED <<mode, masksTargets, profile, token, owed, switch, broken, teardown, snapshot>>

AllFields == {"target", "reference", "needsReset"}

SetState ==
  /\ MayMutate
  /\ \/ \E rows \in SUBSET Envs \ {{}}, fields \in SUBSET AllFields \ {{}},
           t \in Values, q \in Values, due \in BOOLEAN :
          WriteState(rows, fields, t, q, due)
     \/ EngineFails

(* snapshot is allowed inside a SAME_STEP transaction. *)
TakeSnapshot ==
  /\ Usable /\ Idle
  /\ \E e \in Envs :
       snapshot' = [mode |-> mode, target |-> target[e], reference |-> reference[e],
                    due |-> e \in needsReset]
  /\ UNCHANGED <<mode, masksTargets, engine, buffers, token, owed, switch, broken, teardown, unreset>>

RestoreSnapshot ==
  /\ MayMutate
  /\ snapshot # None /\ snapshot.mode = mode
  /\ \/ \E e \in Envs :
          WriteState({e}, AllFields, snapshot.target, snapshot.reference, snapshot.due)
     \/ EngineFails

CloneState ==
  /\ MayMutate
  /\ \/ \E e, f \in Envs :
          /\ e # f
          /\ WriteState({f}, AllFields, target[e], reference[e], e \in needsReset)
     \/ EngineFails

-----------------------------------------------------------------------------
(* set_mode, one port at a time. *)
BeginSwitch(m) ==
  /\ MayMutate
  /\ m \in Supported \ {mode}
  /\ \E q \in [Envs -> Values] :
       switch' = [to |-> m, robot |-> 1, back |-> FALSE, lost |-> FALSE, q |-> q]
  /\ UNCHANGED <<mode, masksTargets, engine, buffers, token, owed, broken, teardown, snapshot, unreset>>

KeepAllButSwitch ==
  UNCHANGED <<mode, masksTargets, buffers, token, owed, broken, teardown, snapshot, unreset>>

Switching(back) == Usable /\ switch # None /\ switch.back = back

SwitchRobot ==
  /\ Switching(FALSE) /\ switch.robot \in Robots
  /\ profile' = [profile EXCEPT ![switch.robot] = switch.to]
  /\ driven' = [driven EXCEPT ![switch.robot] = Neutral(switch.to, switch.q)]
  /\ switch' = [switch EXCEPT !.robot = @ + 1]
  /\ KeepAllButSwitch

(* The switch forgets the port whose write failed when it rolls back. *)
SwitchRobotFails_SkipsItself ==
  /\ Switching(FALSE) /\ switch.robot \in Robots
  /\ \E p \in Supported : profile' = [profile EXCEPT ![switch.robot] = p]
  /\ driven' = [driven EXCEPT ![switch.robot] = Rows(Torn)]
  /\ switch' = [switch EXCEPT !.back = TRUE, !.robot = @ - 1]
  /\ KeepAllButSwitch

(* One of the port's writes raises: this port and those before it roll back. *)
SwitchRobotFails ==
  /\ Switching(FALSE) /\ switch.robot \in Robots
  /\ \E p \in Supported : profile' = [profile EXCEPT ![switch.robot] = p]
  /\ driven' = [driven EXCEPT ![switch.robot] = Rows(Torn)]
  /\ switch' = [switch EXCEPT !.back = TRUE]
  /\ KeepAllButSwitch

SynchronizeFails ==
  /\ Switching(FALSE) /\ switch.robot = NumRobots + 1
  /\ switch' = [switch EXCEPT !.back = TRUE, !.robot = NumRobots]
  /\ UNCHANGED engine
  /\ KeepAllButSwitch

CommitSwitch ==
  /\ Switching(FALSE) /\ switch.robot = NumRobots + 1
  /\ mode' = switch.to
  /\ reference' = switch.q
  /\ target' = Neutral(switch.to, switch.q)
  /\ switch' = None
  /\ UNCHANGED <<masksTargets, engine, needsReset, token, owed, broken, teardown, snapshot, unreset>>

(* A switch that failed is over: the rollback counts past the first port. *)
RollbackRobot_Overruns ==
  /\ Switching(TRUE)
  /\ profile' = [profile EXCEPT ![switch.robot] = mode]
  /\ driven' = [driven EXCEPT ![switch.robot] = target]
  /\ switch' = [switch EXCEPT !.robot = @ - 1]
  /\ KeepAllButSwitch

(* The old mode and the old target, in reverse order; every port is tried. *)
RollbackRobot ==
  /\ Switching(TRUE) /\ switch.robot \in Robots
  /\ profile' = [profile EXCEPT ![switch.robot] = mode]
  /\ driven' = [driven EXCEPT ![switch.robot] = target]
  /\ switch' = [switch EXCEPT !.robot = @ - 1]
  /\ KeepAllButSwitch

RollbackRobotFails ==
  /\ Switching(TRUE) /\ switch.robot \in Robots
  /\ driven' = [driven EXCEPT ![switch.robot] = Rows(Torn)]
  /\ switch' = [switch EXCEPT !.robot = @ - 1, !.lost = TRUE]
  /\ UNCHANGED profile
  /\ KeepAllButSwitch

EndRollback ==
  /\ Switching(TRUE) /\ switch.robot = 0
  /\ broken' = switch.lost
  /\ switch' = None
  /\ UNCHANGED <<mode, masksTargets, engine, buffers, token, owed, teardown, snapshot, unreset>>

SwitchStep ==
  \/ SwitchRobot \/ SwitchRobotFails \/ SynchronizeFails \/ CommitSwitch
  \/ RollbackRobot \/ RollbackRobotFails \/ EndRollback

-----------------------------------------------------------------------------
(* render writes the viewport, not the engine; an error is fail-stop. *)
RenderFails ==
  /\ Usable /\ Idle
  /\ broken' = TRUE
  /\ UNCHANGED <<mode, masksTargets, engine, buffers, token, owed, switch, teardown, snapshot, unreset>>

(* close tries every child that is left, and the session when all are closed;
   it needs no healthy runtime and no finished transaction. *)
Close ==
  /\ Idle
  /\ Session \notin released
  /\ closing' = TRUE
  /\ \E ok \in SUBSET (Children \ released) :
       LET left == Children \ (released \cup ok)
       IN  released' \in {released \cup ok} \cup
                         (IF left = {} THEN {released \cup ok \cup {Session}} ELSE {})
  /\ UNCHANGED <<mode, masksTargets, engine, buffers, token, owed, switch, broken, snapshot, unreset>>

Next ==
  \/ Step \/ IssueToken \/ TokenizedStep \/ CompleteReset
  \/ ResetRows \/ SetState \/ TakeSnapshot \/ RestoreSnapshot \/ CloneState
  \/ \E m \in Supported : BeginSwitch(m)
  \/ SwitchStep \/ RenderFails \/ Close

Spec == Init /\ [][Next]_vars

-----------------------------------------------------------------------------
(* Every variable keeps its shape. *)
TypeOK ==
  /\ mode \in Supported
  /\ masksTargets \in BOOLEAN
  /\ profile \in [Robots -> Supported]
  /\ driven \in [Robots -> [Envs -> Values \cup {Torn}]]
  /\ target \in [Envs -> Values]
  /\ reference \in [Envs -> Values]
  /\ needsReset \subseteq Envs
  /\ token \in {"none", "issued", "stepped"}
  /\ owed \subseteq Envs
  /\ switch \in Switches \cup {None}
  /\ broken \in BOOLEAN
  /\ closing \in BOOLEAN
  /\ released \subseteq Children \cup {Session}
  /\ snapshot \in Snapshots \cup {None}
  /\ unreset \subseteq Envs

(* Between operations a runtime that still answers has every port in the    *)
(* mode it says it is in, and driving what the canonical buffers say it     *)
(* drives: a failed switch that was rolled back, a state write and a reset  *)
(* leave no port behind.  Left out is what MaskedResetTargets leaves on an  *)
(* engine that masks: see UndoneRowsKeepTarget.                             *)
EngineFollowsBuffers ==
  Usable /\ Idle =>
    \A r \in Robots :
      /\ profile[r] = mode
      /\ mode = "position" \/ ~masksTargets => driven[r] = target

(* In position mode a row's target and the reference its next action        *)
(* accumulates on agree after every step that is taken, whatever is         *)
(* switched, reset, restored, cloned or written field by field: only an     *)
(* action that raised parts them (runtime.py:600), and until they are       *)
(* brought together again the row's target does not move.                   *)
PositionPairHolds ==
  [][mode' = "position" =>
       \A e \in Envs :
         \/ target'[e] = reference'[e]
         \/ target'[e] = target[e] /\ (target[e] # reference[e] \/ ActionRaises)]_vars

(* A row that a token's step finished is reset before physics moves again,  *)
(* under either entry and whatever the caller does between the step and the *)
(* completion (runtime.py:416, training/skrl/env.py:100).                   *)
FinishedRowsAreReset ==
  [][Step \/ TokenizedStep => unreset = {} \/ broken']_vars

(* tasks/tblock_push_v1.py:279: completing a token resets the rows that are *)
(* done and keeps every field of the others.                                *)
UndoneRowsKeepTarget ==
  [][token = "stepped" /\ token' = "none" =>
       \A e \in Envs \ owed : target'[e] = target[e] /\ reference'[e] = reference[e]]_vars
=============================================================================
