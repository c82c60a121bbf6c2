---------------------- MODULE KaleidoscopeRuntime_proof ----------------------
(***************************************************************************)
(* Proofs about KaleidoscopeRuntime, for every number of robots and rows.  *)
(* What the ports hold between operations says nothing of a switch under   *)
(* way, so the inductive invariant follows the switch through its ports:   *)
(* forward, the ports before it hold the new mode and those from it on the *)
(* old; backward, the ports behind it are restored unless one was lost.    *)
(***************************************************************************)
EXTENDS KaleidoscopeRuntime, TLAPS

(* A port that does what the buffers say. *)
Follows(r) ==
  /\ profile[r] = mode
  /\ mode = "position" \/ ~masksTargets => driven[r] = target

(* A port that was already switched. *)
Switched(r) ==
  /\ profile[r] = switch.to
  /\ driven[r] = Neutral(switch.to, switch.q)

(* An action that raises parts target and reference, but the step of a     *)
(* token brings them together, and nothing parts them before its reset.    *)
Paired == token = "stepped" /\ mode = "position" => target = reference

IdlePorts == ~broken /\ switch = None => \A r \in Robots : Follows(r)

ForwardPorts ==
  ~broken /\ switch # None /\ ~switch.back =>
    /\ switch.robot > 0
    /\ \A r \in Robots : IF r < switch.robot THEN Switched(r) ELSE Follows(r)

BackwardPorts ==
  ~broken /\ switch # None /\ switch.back =>
    /\ switch.robot <= NumRobots
    /\ ~switch.lost => \A r \in Robots : r > switch.robot => Follows(r)

Owing == token # "stepped" => unreset = {} /\ owed = {}

Covered == unreset \subseteq owed

IInv == TypeOK /\ Paired /\ IdlePorts /\ ForwardPorts /\ BackwardPorts /\ Owing /\ Covered

-----------------------------------------------------------------------------
(* Neutral targets are rows of values. *)
LEMMA NeutralTyped ==
  ASSUME NEW m, NEW q \in [Envs -> Values]
  PROVE  Neutral(m, q) \in [Envs -> Values]
BY ValuesAssumption DEF Neutral, Rows

(* The runtime starts with its ports and buffers in agreement. *)
LEMMA InitHolds == Init => IInv
<1>1. SUFFICES ASSUME Init PROVE IInv
  OBVIOUS
<1>2. TypeOK
  BY <1>1, ModesAssumption DEF Init, TypeOK
<1>3. Paired /\ Owing /\ Covered
  BY <1>1 DEF Init, Paired, Owing, Covered
<1>4. IdlePorts /\ ForwardPorts /\ BackwardPorts
  BY <1>1 DEF Init, IdlePorts, ForwardPorts, BackwardPorts, Follows
<1> QED BY <1>2, <1>3, <1>4 DEF IInv

(* A failed write changes nothing but the ports' targets, and breaks. *)
LEMMA EngineFailsKeeps == IInv /\ EngineFails => IInv'
<1>1. SUFFICES ASSUME IInv, EngineFails PROVE IInv'
  OBVIOUS
<1>2. TypeOK'
  BY <1>1, ValuesAssumption DEF IInv, TypeOK, EngineFails, Rows
<1>3. (Paired /\ Owing /\ Covered)'
  BY <1>1 DEF IInv, EngineFails, Paired, Owing, Covered
<1>4. (IdlePorts /\ ForwardPorts /\ BackwardPorts)'
  BY <1>1 DEF EngineFails, IdlePorts, ForwardPorts, BackwardPorts
<1> QED BY <1>2, <1>3, <1>4 DEF IInv

(* An action that raises moves nothing but the reference. *)
LEMMA ActionRaisesKeeps ==
  ASSUME IInv, token # "stepped", ActionRaises
  PROVE  IInv'
<1>1. TypeOK'
  BY DEF IInv, TypeOK, ActionRaises, engine, teardown
<1>2. (Paired /\ Owing /\ Covered)'
  BY DEF IInv, ActionRaises, Paired, Owing, Covered
<1>3. (IdlePorts /\ ForwardPorts /\ BackwardPorts)'
  BY DEF IInv, ActionRaises, IdlePorts, ForwardPorts, BackwardPorts, Follows, Switched, engine
<1> QED BY <1>1, <1>2, <1>3 DEF IInv

(* An operation between switches that leaves every port following. *)
LEMMA IdleStep ==
  ASSUME IInv, switch = None, switch' = None, TypeOK', Paired', Owing', Covered',
         ~broken => \A r \in Robots : Follows(r)',
         broken' = broken
  PROVE  IInv'
BY DEF IInv, IdlePorts, ForwardPorts, BackwardPorts

(* Dispatching one target to every port. *)
LEMMA StepCoreKeeps ==
  ASSUME IInv, Usable, Idle, NEW done \in SUBSET Envs, StepCore(done)
  PROVE  /\ \A r \in Robots : Follows(r)'
         /\ Paired'
         /\ target' \in [Envs -> Values] /\ reference' \in [Envs -> Values]
         /\ driven' \in [Robots -> [Envs -> Values \cup {Torn}]]
         /\ needsReset' \subseteq Envs
<1>1. PICK t \in [Envs -> Values] :
         /\ target' = t
         /\ driven' = [r \in Robots |-> t]
         /\ IF mode = "position" THEN reference' = t ELSE reference' \in [Envs -> Values]
  BY DEF StepCore
<1>2. \A r \in Robots : profile[r] = mode
  BY DEF IInv, IdlePorts, Follows, Usable, Idle
<1>3. /\ target' \in [Envs -> Values] /\ reference' \in [Envs -> Values]
      /\ driven' \in [Robots -> [Envs -> Values \cup {Torn}]]
  BY <1>1
<1>4. \A r \in Robots : Follows(r)'
  BY <1>1, <1>2 DEF StepCore, Follows
<1> QED BY <1>1, <1>3, <1>4 DEF StepCore, Paired

LEMMA StepKeeps == IInv /\ Step => IInv'
<1>1. SUFFICES ASSUME IInv, Step PROVE IInv'
  OBVIOUS
<1>2. CASE EngineFails
  BY <1>1, <1>2, EngineFailsKeeps
<1>3. ASSUME NEW done \in SUBSET Envs, StepCore(done), UNCHANGED <<token, owed, unreset>>
      PROVE  IInv'
  <2>1. Usable /\ Idle
    BY <1>1 DEF Step, MayMutate
  <2>2. /\ \A r \in Robots : Follows(r)'
        /\ Paired'
        /\ target' \in [Envs -> Values] /\ reference' \in [Envs -> Values]
        /\ driven' \in [Robots -> [Envs -> Values \cup {Torn}]]
        /\ needsReset' \subseteq Envs
    BY <1>1, <1>3, <2>1, StepCoreKeeps
  <2>3. TypeOK'
    BY <1>1, <1>3, <2>2 DEF IInv, TypeOK, StepCore
  <2>4. Owing' /\ Covered'
    BY <1>1, <1>3 DEF IInv, Owing, Covered
  <2> QED BY <1>1, <1>3, <2>1, <2>2, <2>3, <2>4, IdleStep DEF Idle, StepCore
<1>4. CASE ActionRaises
  BY <1>1, <1>4, ActionRaisesKeeps DEF Step, MayMutate, NoTransaction
<1> QED BY <1>1, <1>2, <1>3, <1>4 DEF Step

LEMMA TokenizedStepKeeps == IInv /\ TokenizedStep => IInv'
<1>1. SUFFICES ASSUME IInv, TokenizedStep PROVE IInv'
  OBVIOUS
<1>2. CASE EngineFails
  BY <1>1, <1>2, EngineFailsKeeps
<1>3. ASSUME NEW done \in SUBSET Envs, StepCore(done), owed' = done, unreset' = done,
             token' = "stepped"
      PROVE  IInv'
  <2>1. Usable /\ Idle
    BY <1>1 DEF TokenizedStep
  <2>2. /\ \A r \in Robots : Follows(r)'
        /\ Paired'
        /\ target' \in [Envs -> Values] /\ reference' \in [Envs -> Values]
        /\ driven' \in [Robots -> [Envs -> Values \cup {Torn}]]
        /\ needsReset' \subseteq Envs
    BY <1>1, <1>3, <2>1, StepCoreKeeps
  <2>3. TypeOK'
    BY <1>1, <1>3, <2>2 DEF IInv, TypeOK, StepCore
  <2>4. Owing' /\ Covered'
    BY <1>3 DEF Owing, Covered
  <2> QED BY <1>1, <1>3, <2>1, <2>2, <2>3, <2>4, IdleStep DEF Idle, StepCore
<1>4. CASE ActionRaises
  BY <1>1, <1>4, ActionRaisesKeeps DEF TokenizedStep
<1> QED BY <1>1, <1>2, <1>3, <1>4 DEF TokenizedStep

LEMMA IssueTokenKeeps == IInv /\ IssueToken => IInv'
<1>1. SUFFICES ASSUME IInv, IssueToken PROVE IInv'
  OBVIOUS
<1>2. TypeOK'
  BY <1>1 DEF IInv, TypeOK, IssueToken, engine, buffers, teardown
<1>3. (Paired /\ Owing /\ Covered)'
  BY <1>1 DEF IInv, IssueToken, Paired, Owing, Covered, MayMutate, NoTransaction
<1>4. \A r \in Robots : ~broken => Follows(r)'
  BY <1>1 DEF IInv, IssueToken, IdlePorts, Follows, MayMutate, Idle, engine, buffers
<1> QED BY <1>1, <1>2, <1>3, <1>4, IdleStep DEF IssueToken, MayMutate, Idle

LEMMA ResetRowsKeeps == IInv /\ ResetRows => IInv'
<1>1. SUFFICES ASSUME IInv, ResetRows PROVE IInv'
  OBVIOUS
<1>2. CASE EngineFails
  BY <1>1, <1>2, EngineFailsKeeps
<1>3. ASSUME NEW rows \in SUBSET Envs \ {{}}, NEW fresh \in [Envs -> Values],
             ResetTargets(rows, fresh), needsReset' = needsReset \ rows,
             unreset' = unreset \ rows,
             UNCHANGED <<mode, masksTargets, profile, token, owed, switch, broken, teardown, snapshot>>
      PROVE  IInv'
  <2>1. /\ Usable /\ Idle
        /\ \A r \in Robots : Follows(r)
    BY <1>1 DEF ResetRows, MayMutate, IInv, IdlePorts, Usable, Idle
  <2>2. Neutral(mode, fresh) \in [Envs -> Values]
    BY NeutralTyped
  <2>3. TypeOK'
    BY <1>1, <1>3, <2>2 DEF IInv, TypeOK, ResetTargets, teardown
  <2>4. Paired'
    BY <1>1, <1>3 DEF Paired, ResetRows, MayMutate, NoTransaction
  <2>5. Owing' /\ Covered'
    BY <1>1, <1>3 DEF IInv, Owing, Covered
  <2>6. \A r \in Robots : Follows(r)'
    BY <1>1, <1>3, <2>1 DEF Follows, ResetTargets, IInv, TypeOK
  <2> QED BY <1>1, <1>3, <2>1, <2>3, <2>4, <2>5, <2>6, IdleStep DEF Idle
<1> QED BY <1>1, <1>2, <1>3 DEF ResetRows

LEMMA CompleteResetKeeps == IInv /\ CompleteReset => IInv'
<1>1. SUFFICES ASSUME IInv, CompleteReset PROVE IInv'
  OBVIOUS
<1>2. CASE EngineFails
  BY <1>1, <1>2, EngineFailsKeeps
<1>3. ASSUME NEW fresh \in [Envs -> Values], MaskedResetTargets(fresh),
             needsReset' = needsReset \ owed, unreset' = unreset \ owed,
             token' = "none", owed' = {},
             UNCHANGED <<mode, masksTargets, profile, switch, broken, teardown, snapshot>>
      PROVE  IInv'
  <2> DEFINE q == [e \in Envs |-> IF e \in owed THEN fresh[e] ELSE reference[e]]
  <2>1. /\ Usable /\ Idle
        /\ \A r \in Robots : Follows(r)
    BY <1>1 DEF CompleteReset, IInv, IdlePorts, Usable, Idle
  <2>2. q \in [Envs -> Values]
    BY <1>1 DEF IInv, TypeOK
  <2>3. Neutral(mode, q) \in [Envs -> Values]
    BY <2>2, NeutralTyped
  <2>4. /\ reference' = q /\ target' = Neutral(mode, q)
        /\ driven' = [r \in Robots |->
                       [e \in Envs |-> IF masksTargets /\ e \notin owed
                                       THEN driven[r][e] ELSE Neutral(mode, q)[e]]]
    BY <1>3 DEF MaskedResetTargets
  <2>5. TypeOK'
    BY <1>1, <1>3, <2>2, <2>3, <2>4 DEF IInv, TypeOK, teardown
  <2>6. Paired'
    BY <1>3 DEF Paired
  <2>7. Owing' /\ Covered'
    BY <1>1, <1>3 DEF IInv, Owing, Covered
  <2>8. \A r \in Robots : Follows(r)'
    <3>1. SUFFICES ASSUME NEW r \in Robots, mode = "position" \/ ~masksTargets
                   PROVE  driven'[r] = target'
      BY <1>3, <2>1 DEF Follows
    <3>2. CASE ~masksTargets
      BY <2>3, <2>4, <3>2
    <3>3. CASE masksTargets /\ mode = "position"
      <4>1. driven[r] = reference
        BY <1>1, <2>1, <3>3 DEF IInv, Paired, Follows, CompleteReset
      <4>2. Neutral(mode, q) = q
        BY <3>3 DEF Neutral
      <4> QED BY <2>2, <2>4, <4>1, <4>2, <3>3
    <3> QED BY <3>1, <3>2, <3>3
  <2> QED BY <1>1, <1>3, <2>1, <2>5, <2>6, <2>7, <2>8, IdleStep DEF Idle
<1> QED BY <1>1, <1>2, <1>3 DEF CompleteReset

(* The three users of the state API write through WriteState. *)
LEMMA WriteStateKeeps ==
  ASSUME IInv, MayMutate, NEW rows \in SUBSET Envs, NEW fields \in SUBSET AllFields,
         NEW t \in Values, NEW q \in Values, NEW due \in BOOLEAN,
         WriteState(rows, fields, t, q, due)
  PROVE  IInv'
<1> DEFINE sent == fields \cap {"target", "reference"}
           paired == IF mode = "position" /\ sent # {} THEN {"target", "reference"} ELSE sent
           tt == IF mode = "position" /\ "target" \notin sent THEN q ELSE t
           qq == IF mode = "position" /\ "reference" \notin sent THEN t ELSE q
           Into(old, new, name) == [e \in Envs |-> IF name \in paired /\ e \in rows
                                                   THEN new ELSE old[e]]
<1>1. /\ mode = "position" /\ sent = {"target", "reference"} => t = q
      /\ target' = Into(target, tt, "target")
      /\ reference' = Into(reference, qq, "reference")
      /\ driven' = [r \in Robots |-> Into(driven[r], tt, "target")]
      /\ needsReset' = IF "needsReset" \notin fields THEN needsReset
                       ELSE IF due THEN needsReset \cup rows ELSE needsReset \ rows
      /\ unreset' = unreset
      /\ UNCHANGED <<mode, masksTargets, profile, token, owed, switch, broken, teardown, snapshot>>
  BY DEF WriteState
<1>2. tt \in Values /\ qq \in Values
  OBVIOUS
<1>3. TypeOK'
  BY <1>1, <1>2 DEF IInv, TypeOK, teardown
<1>4. Paired'
  BY <1>1 DEF Paired, MayMutate, NoTransaction
<1>5. Owing' /\ Covered'
  BY <1>1 DEF IInv, Owing, Covered
<1>6. Idle /\ Usable /\ \A r \in Robots : Follows(r)
  BY DEF MayMutate, IInv, IdlePorts, Usable, Idle
<1>7. \A r \in Robots : Follows(r)'
  BY <1>1, <1>6 DEF Follows, IInv, TypeOK
<1> QED BY <1>1, <1>3, <1>4, <1>5, <1>6, <1>7, IdleStep DEF Idle

LEMMA StateApiKeeps == IInv /\ (SetState \/ RestoreSnapshot \/ CloneState) => IInv'
<1>1. SUFFICES ASSUME IInv, SetState \/ RestoreSnapshot \/ CloneState PROVE IInv'
  OBVIOUS
<1>2. CASE EngineFails
  BY <1>1, <1>2, EngineFailsKeeps
<1>3. CASE SetState /\ ~EngineFails
  BY <1>1, <1>3, WriteStateKeeps DEF SetState
<1>4. CASE RestoreSnapshot /\ ~EngineFails
  <2>1. /\ snapshot.target \in Values /\ snapshot.reference \in Values
        /\ snapshot.due \in BOOLEAN
    BY <1>1, <1>4 DEF RestoreSnapshot, IInv, TypeOK, Snapshots
  <2>2. PICK e \in Envs :
           WriteState({e}, AllFields, snapshot.target, snapshot.reference, snapshot.due)
    BY <1>4 DEF RestoreSnapshot
  <2>3. MayMutate /\ {e} \in SUBSET Envs /\ AllFields \in SUBSET AllFields
    BY <1>4 DEF RestoreSnapshot
  <2> QED BY <1>1, <2>1, <2>2, <2>3, WriteStateKeeps
<1>5. CASE CloneState /\ ~EngineFails
  <2>1. PICK e \in Envs, f \in Envs :
           WriteState({f}, AllFields, target[e], reference[e], e \in needsReset)
    BY <1>5 DEF CloneState
  <2>2. target[e] \in Values /\ reference[e] \in Values /\ (e \in needsReset) \in BOOLEAN
    BY <1>1 DEF IInv, TypeOK
  <2>3. MayMutate /\ {f} \in SUBSET Envs /\ AllFields \in SUBSET AllFields
    BY <1>5 DEF CloneState
  <2> QED BY <1>1, <2>1, <2>2, <2>3, WriteStateKeeps
<1> QED BY <1>1, <1>2, <1>3, <1>4, <1>5

LEMMA TakeSnapshotKeeps == IInv /\ TakeSnapshot => IInv'
<1>1. SUFFICES ASSUME IInv, TakeSnapshot PROVE IInv'
  OBVIOUS
<1>2. TypeOK'
  BY <1>1 DEF IInv, TypeOK, TakeSnapshot, Snapshots, engine, buffers, teardown
<1>3. (Paired /\ Owing /\ Covered)'
  BY <1>1 DEF IInv, TakeSnapshot, Paired, Owing, Covered, buffers
<1>4. \A r \in Robots : ~broken => Follows(r)'
  BY <1>1 DEF IInv, TakeSnapshot, IdlePorts, Follows, Idle, engine, buffers
<1> QED BY <1>1, <1>2, <1>3, <1>4, IdleStep DEF TakeSnapshot, Idle

-----------------------------------------------------------------------------
(* A record is no null value. *)
LEMMA SwitchIsRecord ==
  ASSUME TypeOK, switch # None
  PROVE  /\ switch \in Switches
         /\ switch.to \in Supported /\ switch.q \in [Envs -> Values]
         /\ switch.robot \in 0 .. NumRobots + 1
         /\ switch.back \in BOOLEAN /\ switch.lost \in BOOLEAN
BY DEF TypeOK, Switches

LEMMA SwitchesAreNotNone == ASSUME NEW s \in Switches PROVE s # None
BY NoneAssumption

(* What a switch under way leaves alone. *)
LEMMA SwitchTyped ==
  ASSUME IInv, switch # None, switch' \in Switches \cup {None},
         profile' \in [Robots -> Supported],
         driven' \in [Robots -> [Envs -> Values \cup {Torn}]], KeepAllButSwitch
  PROVE  TypeOK' /\ Paired' /\ Owing' /\ Covered'
BY DEF IInv, TypeOK, Paired, Owing, Covered, KeepAllButSwitch, buffers, teardown

LEMMA BeginSwitchKeeps == ASSUME IInv, NEW m \in Supported, BeginSwitch(m) PROVE IInv'
<1>1. PICK q \in [Envs -> Values] :
         switch' = [to |-> m, robot |-> 1, back |-> FALSE, lost |-> FALSE, q |-> q]
  BY DEF BeginSwitch
<1>2. switch' \in Switches
  BY <1>1, RobotsAssumption DEF Switches
<1>3. TypeOK'
  BY <1>2 DEF IInv, TypeOK, BeginSwitch, engine, buffers, teardown
<1>4. (Paired /\ Owing /\ Covered)'
  BY DEF IInv, BeginSwitch, Paired, Owing, Covered, buffers
<1>5. ~broken => \A r \in Robots : Follows(r)'
  BY DEF IInv, BeginSwitch, IdlePorts, Follows, MayMutate, Idle, engine, buffers
<1>6. ForwardPorts' /\ BackwardPorts'
  BY <1>1, <1>5 DEF ForwardPorts, BackwardPorts, BeginSwitch, Robots, MayMutate, Usable
<1>7. IdlePorts'
  BY <1>5 DEF IdlePorts, BeginSwitch
<1> QED BY <1>3, <1>4, <1>6, <1>7 DEF IInv

(* A port moves to the new mode, or its write fails and the way back begins. *)
LEMMA ForwardKeeps == IInv /\ (SwitchRobot \/ SwitchRobotFails \/ SynchronizeFails) => IInv'
<1>1. SUFFICES ASSUME IInv, SwitchRobot \/ SwitchRobotFails \/ SynchronizeFails PROVE IInv'
  OBVIOUS
<1>2. /\ switch # None /\ ~switch.back /\ ~broken /\ switch \in Switches
      /\ switch.to \in Supported /\ switch.q \in [Envs -> Values]
      /\ switch.robot \in 0 .. NumRobots + 1 /\ switch.lost \in BOOLEAN
  <2>1. switch # None /\ ~switch.back /\ ~broken
    BY <1>1 DEF SwitchRobot, SwitchRobotFails, SynchronizeFails, Switching, Usable
  <2> QED BY <1>1, <2>1, SwitchIsRecord DEF IInv
<1>3. \A r \in Robots : IF r < switch.robot THEN Switched(r) ELSE Follows(r)
  BY <1>1, <1>2 DEF IInv, ForwardPorts
<1>4. Neutral(switch.to, switch.q) \in [Envs -> Values] /\ Rows(Torn) \in [Envs -> {Torn}]
  BY <1>2, NeutralTyped DEF Rows
<1>5. KeepAllButSwitch /\ broken' = broken /\ mode' = mode /\ masksTargets' = masksTargets
      /\ target' = target
  BY <1>1 DEF SwitchRobot, SwitchRobotFails, SynchronizeFails, KeepAllButSwitch, buffers
<1>6. CASE SwitchRobot
  <2>1. /\ profile' = [profile EXCEPT ![switch.robot] = switch.to]
        /\ driven' = [driven EXCEPT ![switch.robot] = Neutral(switch.to, switch.q)]
        /\ switch' = [switch EXCEPT !.robot = @ + 1]
        /\ switch.robot \in Robots
    BY <1>6 DEF SwitchRobot
  <2>2. switch' \in Switches /\ switch'.to = switch.to /\ switch'.q = switch.q
        /\ switch'.back = FALSE /\ switch'.robot = switch.robot + 1
    BY <1>2, <2>1, RobotsAssumption DEF Switches, Robots
  <2>3. TypeOK' /\ Paired' /\ Owing' /\ Covered'
    <3>1. /\ profile' \in [Robots -> Supported]
          /\ driven' \in [Robots -> [Envs -> Values \cup {Torn}]]
      BY <1>1, <1>2, <1>4, <2>1 DEF IInv, TypeOK
    <3> QED BY <1>1, <1>2, <1>5, <2>2, <3>1, SwitchTyped
  <2>4. ASSUME NEW r \in Robots
        PROVE  IF r < switch'.robot THEN Switched(r)' ELSE Follows(r)'
    <3>1. CASE r = switch.robot
      BY <1>1, <2>1, <2>2, <3>1 DEF Switched, IInv, TypeOK, Robots
    <3>2. CASE r # switch.robot
      <4>1. profile'[r] = profile[r] /\ driven'[r] = driven[r]
        BY <1>1, <2>1, <3>2 DEF IInv, TypeOK
      <4>2. r < switch'.robot <=> r < switch.robot
        BY <2>1, <2>2, <3>2 DEF Robots
      <4> QED BY <1>3, <1>5, <2>2, <4>1, <4>2 DEF Switched, Follows
    <3> QED BY <3>1, <3>2
  <2>5. ForwardPorts' /\ BackwardPorts' /\ IdlePorts'
    <3>1. switch' # None
      BY <2>2, SwitchesAreNotNone
    <3>2. switch'.robot > 0
      BY <2>1, <2>2 DEF Robots
    <3> QED BY <2>2, <2>4, <3>1, <3>2 DEF ForwardPorts, BackwardPorts, IdlePorts
  <2> QED BY <2>3, <2>5 DEF IInv
<1>7. CASE SwitchRobotFails \/ SynchronizeFails
  <2>1. switch' \in Switches /\ switch'.back = TRUE /\ switch'.robot \in 0 .. NumRobots
        /\ \A r \in Robots : r > switch'.robot => r > switch.robot
    <3>1. CASE SwitchRobotFails
      <4>1. switch' = [switch EXCEPT !.back = TRUE] /\ switch.robot \in Robots
        BY <3>1 DEF SwitchRobotFails
      <4>2. switch' \in Switches /\ switch'.back = TRUE /\ switch'.robot = switch.robot
        BY <1>2, <4>1 DEF Switches
      <4> QED BY <4>1, <4>2, RobotsAssumption DEF Robots
    <3>2. CASE SynchronizeFails
      <4>1. switch' = [switch EXCEPT !.back = TRUE, !.robot = NumRobots]
            /\ switch.robot = NumRobots + 1
        BY <3>2 DEF SynchronizeFails
      <4>2. switch' \in Switches /\ switch'.back = TRUE /\ switch'.robot = NumRobots
        <5>1. NumRobots \in 0 .. NumRobots + 1
          BY RobotsAssumption
        <5> QED BY <1>2, <4>1, <5>1 DEF Switches
      <4>3. \A r \in Robots : ~(r > NumRobots)
        BY RobotsAssumption DEF Robots
      <4> QED BY <4>1, <4>2, <4>3, RobotsAssumption
    <3> QED BY <1>7, <3>1, <3>2
  <2>2. /\ profile' \in [Robots -> Supported]
        /\ driven' \in [Robots -> [Envs -> Values \cup {Torn}]]
        /\ \A r \in Robots : r > switch.robot => profile'[r] = profile[r] /\ driven'[r] = driven[r]
    <3>1. CASE SwitchRobotFails
      <4>1. PICK p \in Supported : profile' = [profile EXCEPT ![switch.robot] = p]
        BY <3>1 DEF SwitchRobotFails
      <4>2. driven' = [driven EXCEPT ![switch.robot] = Rows(Torn)] /\ switch.robot \in Robots
        BY <3>1 DEF SwitchRobotFails
      <4> QED BY <1>1, <1>4, <4>1, <4>2 DEF IInv, TypeOK, Robots
    <3>2. CASE SynchronizeFails
      BY <1>1, <3>2 DEF SynchronizeFails, IInv, TypeOK, engine
    <3> QED BY <1>7, <3>1, <3>2
  <2>3. TypeOK' /\ Paired' /\ Owing' /\ Covered'
    BY <1>1, <1>2, <1>5, <2>1, <2>2, SwitchTyped
  <2>4. \A r \in Robots : r > switch'.robot => Follows(r)'
    <3>1. SUFFICES ASSUME NEW r \in Robots, r > switch.robot PROVE Follows(r)'
      BY <2>1
    <3>2. Follows(r)
      BY <1>2, <1>3, <3>1 DEF Robots
    <3> QED BY <1>5, <2>2, <3>1, <3>2 DEF Follows
  <2>5. switch' # None
    BY <2>1, SwitchesAreNotNone
  <2>6. ForwardPorts' /\ BackwardPorts' /\ IdlePorts'
    BY <2>1, <2>4, <2>5 DEF ForwardPorts, BackwardPorts, IdlePorts, Robots
  <2> QED BY <2>3, <2>6 DEF IInv
<1> QED BY <1>1, <1>6, <1>7

LEMMA CommitSwitchKeeps == IInv /\ CommitSwitch => IInv'
<1>1. SUFFICES ASSUME IInv, CommitSwitch PROVE IInv'
  OBVIOUS
<1>2. /\ switch # None /\ ~switch.back /\ ~broken /\ switch.robot = NumRobots + 1
      /\ switch.to \in Supported /\ switch.q \in [Envs -> Values]
  <2>1. switch # None /\ ~switch.back /\ ~broken /\ switch.robot = NumRobots + 1
    BY <1>1 DEF CommitSwitch, Switching, Usable
  <2> QED BY <1>1, <2>1, SwitchIsRecord DEF IInv
<1>3. \A r \in Robots : Switched(r)
  BY <1>1, <1>2, RobotsAssumption DEF IInv, ForwardPorts, Robots
<1>4. Neutral(switch.to, switch.q) \in [Envs -> Values]
  BY <1>2, NeutralTyped
<1>5. TypeOK'
  BY <1>1, <1>2, <1>4 DEF IInv, TypeOK, CommitSwitch, engine, teardown
<1>6. Paired' /\ Owing' /\ Covered'
  BY <1>1 DEF IInv, Paired, Owing, Covered, CommitSwitch, Neutral
<1>7. IdlePorts' /\ ForwardPorts' /\ BackwardPorts'
  BY <1>1, <1>3 DEF IdlePorts, ForwardPorts, BackwardPorts, CommitSwitch, Switched, Follows, engine
<1> QED BY <1>5, <1>6, <1>7 DEF IInv

LEMMA RollbackKeeps == IInv /\ (RollbackRobot \/ RollbackRobotFails) => IInv'
<1>1. SUFFICES ASSUME IInv, RollbackRobot \/ RollbackRobotFails PROVE IInv'
  OBVIOUS
<1>2. /\ switch # None /\ switch.back /\ ~broken /\ switch.robot \in Robots
      /\ switch \in Switches /\ switch.to \in Supported /\ switch.q \in [Envs -> Values] /\ switch.lost \in BOOLEAN
  <2>1. switch # None /\ switch.back /\ ~broken /\ switch.robot \in Robots
    BY <1>1 DEF RollbackRobot, RollbackRobotFails, Switching, Usable
  <2> QED BY <1>1, <2>1, SwitchIsRecord DEF IInv
<1>3. ~switch.lost => \A r \in Robots : r > switch.robot => Follows(r)
  BY <1>1, <1>2 DEF IInv, BackwardPorts
<1>4. KeepAllButSwitch /\ broken' = broken /\ mode' = mode /\ masksTargets' = masksTargets
      /\ target' = target
  BY <1>1 DEF RollbackRobot, RollbackRobotFails, KeepAllButSwitch, buffers
<1>5. switch' \in Switches /\ switch'.back = TRUE /\ switch'.robot = switch.robot - 1
  <2>1. CASE RollbackRobot
    BY <1>2, <2>1, RobotsAssumption DEF Switches, Robots, RollbackRobot
  <2>2. CASE RollbackRobotFails
    <3>1. switch' = [switch EXCEPT !.robot = switch.robot - 1, !.lost = TRUE]
      BY <2>2 DEF RollbackRobotFails
    <3>2. switch.robot - 1 \in 0 .. NumRobots + 1
      BY <1>2, RobotsAssumption DEF Robots
    <3> QED BY <1>2, <3>1, <3>2 DEF Switches
  <2> QED BY <1>1, <2>1, <2>2
<1>6. /\ profile' \in [Robots -> Supported]
      /\ driven' \in [Robots -> [Envs -> Values \cup {Torn}]]
      /\ \A r \in Robots : r # switch.robot => profile'[r] = profile[r] /\ driven'[r] = driven[r]
  <2>1. CASE RollbackRobot
    BY <1>1, <1>2, <2>1 DEF IInv, TypeOK, RollbackRobot
  <2>2. CASE RollbackRobotFails
    <3>1. Rows(Torn) \in [Envs -> Values \cup {Torn}]
      BY DEF Rows
    <3>2. /\ driven' = [driven EXCEPT ![switch.robot] = Rows(Torn)]
          /\ profile' = profile
      BY <2>2 DEF RollbackRobotFails
    <3>3. /\ profile \in [Robots -> Supported]
          /\ driven \in [Robots -> [Envs -> Values \cup {Torn}]]
      BY <1>1 DEF IInv, TypeOK
    <3> QED BY <1>2, <3>1, <3>2, <3>3
  <2> QED BY <1>1, <2>1, <2>2
<1>7. TypeOK' /\ Paired' /\ Owing' /\ Covered'
  BY <1>1, <1>2, <1>4, <1>5, <1>6, SwitchTyped
<1>8. ASSUME ~switch'.lost, NEW r \in Robots, r > switch'.robot PROVE Follows(r)'
  <2>1. ~switch.lost /\ RollbackRobot
    <3>1. RollbackRobotFails => switch'.lost
      BY <1>2 DEF RollbackRobotFails, Switches
    <3>2. RollbackRobot => switch'.lost = switch.lost
      BY <1>2 DEF RollbackRobot, Switches
    <3> QED BY <1>1, <1>8, <3>1, <3>2
  <2>2. CASE r = switch.robot
    BY <1>1, <1>4, <2>1, <2>2 DEF RollbackRobot, Follows, IInv, TypeOK
  <2>3. CASE r # switch.robot
    <3>1. r > switch.robot
      BY <1>2, <1>5, <1>8, <2>3 DEF Robots
    <3> QED BY <1>3, <1>4, <1>6, <2>1, <2>3, <3>1 DEF Follows
  <2> QED BY <2>2, <2>3
<1>9. switch' # None
  BY <1>5, SwitchesAreNotNone
<1>10. ForwardPorts' /\ BackwardPorts' /\ IdlePorts'
  BY <1>2, <1>5, <1>8, <1>9, RobotsAssumption DEF ForwardPorts, BackwardPorts, IdlePorts, Robots
<1> QED BY <1>7, <1>10 DEF IInv

LEMMA EndRollbackKeeps == IInv /\ EndRollback => IInv'
<1>1. SUFFICES ASSUME IInv, EndRollback PROVE IInv'
  OBVIOUS
<1>2. switch # None /\ switch.back /\ ~broken /\ switch.robot = 0
  BY <1>1 DEF EndRollback, Switching, Usable
<1>3. switch.lost \in BOOLEAN
  BY <1>1, <1>2, SwitchIsRecord DEF IInv
<1>4. TypeOK'
  BY <1>1, <1>3 DEF IInv, TypeOK, EndRollback, engine, buffers, teardown
<1>5. Paired' /\ Owing' /\ Covered'
  BY <1>1 DEF IInv, Paired, Owing, Covered, EndRollback, buffers
<1>6. ~switch.lost => \A r \in Robots : Follows(r)
  BY <1>1, <1>2 DEF IInv, BackwardPorts, Robots
<1>7. IdlePorts' /\ ForwardPorts' /\ BackwardPorts'
  BY <1>1, <1>3, <1>6 DEF IdlePorts, ForwardPorts, BackwardPorts, EndRollback, Follows, engine, buffers
<1> QED BY <1>4, <1>5, <1>7 DEF IInv

LEMMA RestKeeps == IInv /\ (RenderFails \/ Close \/ UNCHANGED vars) => IInv'
<1>1. SUFFICES ASSUME IInv, RenderFails \/ Close \/ UNCHANGED vars PROVE IInv'
  OBVIOUS
<1>2. CASE RenderFails
  <2>1. TypeOK'
    BY <1>1, <1>2 DEF IInv, TypeOK, RenderFails, engine, buffers, teardown
  <2>2. Paired' /\ Owing' /\ Covered' /\ IdlePorts' /\ ForwardPorts' /\ BackwardPorts'
    BY <1>1, <1>2 DEF IInv, Paired, Owing, Covered, IdlePorts, ForwardPorts, BackwardPorts, RenderFails, buffers
  <2> QED BY <2>1, <2>2 DEF IInv
<1>3. CASE Close
  <2>1. released' \subseteq Children \cup {Session}
    BY <1>1, <1>3 DEF IInv, TypeOK, Close
  <2>2. TypeOK'
    BY <1>1, <1>3, <2>1 DEF IInv, TypeOK, Close, engine, buffers
  <2>3. Paired' /\ Owing' /\ Covered'
    BY <1>1, <1>3 DEF IInv, Paired, Owing, Covered, Close, buffers
  <2>4. IdlePorts' /\ ForwardPorts' /\ BackwardPorts'
    BY <1>1, <1>3 DEF IInv, IdlePorts, ForwardPorts, BackwardPorts, Follows, Switched, Close, engine, buffers
  <2> QED BY <2>2, <2>3, <2>4 DEF IInv
<1>4. CASE UNCHANGED vars
  <2>1. TypeOK'
    BY <1>1, <1>4 DEF IInv, TypeOK, vars
  <2>2. Paired' /\ Owing' /\ Covered'
    BY <1>1, <1>4 DEF IInv, Paired, Owing, Covered, vars
  <2>3. IdlePorts' /\ ForwardPorts' /\ BackwardPorts'
    BY <1>1, <1>4 DEF IInv, IdlePorts, ForwardPorts, BackwardPorts, Follows, Switched, vars
  <2> QED BY <2>1, <2>2, <2>3 DEF IInv
<1> QED BY <1>1, <1>2, <1>3, <1>4

LEMMA NextKeeps == IInv /\ [Next]_vars => IInv'
<1>1. IInv /\ SwitchStep => IInv'
  BY ForwardKeeps, CommitSwitchKeeps, RollbackKeeps, EndRollbackKeeps DEF SwitchStep
<1>2. IInv /\ (\E m \in Supported : BeginSwitch(m)) => IInv'
  BY BeginSwitchKeeps
<1> QED BY <1>1, <1>2, StepKeeps, TokenizedStepKeeps, IssueTokenKeeps, ResetRowsKeeps,
           CompleteResetKeeps, StateApiKeeps, TakeSnapshotKeeps, RestKeeps DEF Next

-----------------------------------------------------------------------------
(* The inductive invariant of the Kaleidoscope runtime. *)
THEOREM RuntimeInvariant == Spec => []IInv
<1>1. Init => IInv
  BY InitHolds
<1>2. IInv /\ [Next]_vars => IInv'
  BY NextKeeps
<1> QED BY <1>1, <1>2, PTL DEF Spec

(* Every variable keeps its shape. *)
THEOREM RuntimeTyped == Spec => []TypeOK
<1>1. IInv => TypeOK
  BY DEF IInv
<1> QED BY <1>1, RuntimeInvariant, PTL

(* A runtime that still answers has every port in its mode and, but for a   *)
(* masked engine outside position mode, on its canonical target: whichever  *)
(* writes of a switch, a reset or a state write failed, for any number of   *)
(* robots (control_mode.py:252-276).                                        *)
THEOREM PortsFollow == Spec => []EngineFollowsBuffers
<1>1. IInv => EngineFollowsBuffers
  BY DEF IInv, EngineFollowsBuffers, IdlePorts, Follows, Usable, Idle
<1> QED BY <1>1, RuntimeInvariant, PTL

(* In position mode only an action that raised parts a row's target from    *)
(* its reference, and a parted row's target stays where it is until the two *)
(* are brought together: whichever rows and fields an operation names.      *)
THEOREM PairsHold == Spec => PositionPairHolds
<1> DEFINE Holds(e) ==
      \/ target'[e] = reference'[e]
      \/ target'[e] = target[e] /\ (target[e] # reference[e] \/ ActionRaises)
<1>1. ASSUME IInv, Next, mode' = "position", NEW e \in Envs
      PROVE  Holds(e)
  <2>1. CASE UNCHANGED <<target, reference>>
    BY <2>1
  <2>2. CASE ActionRaises
    BY <2>2 DEF ActionRaises
  <2>3. ASSUME NEW done \in SUBSET Envs, StepCore(done) PROVE Holds(e)
    BY <1>1, <2>3 DEF StepCore
  <2>4. ASSUME NEW rows \in SUBSET Envs, NEW fresh \in [Envs -> Values],
               ResetTargets(rows, fresh), mode' = mode
        PROVE  Holds(e)
    BY <1>1, <2>4 DEF ResetTargets, Neutral
  <2>5. ASSUME NEW fresh \in [Envs -> Values], MaskedResetTargets(fresh), mode' = mode
        PROVE  Holds(e)
    BY <1>1, <2>5 DEF MaskedResetTargets, Neutral
  <2>6. ASSUME NEW rows \in SUBSET Envs, NEW fields, NEW t, NEW q, NEW due,
               WriteState(rows, fields, t, q, due)
        PROVE  Holds(e)
    BY <1>1, <2>6 DEF WriteState
  <2>7. CASE CommitSwitch
    BY <1>1, <2>7 DEF CommitSwitch, Neutral
  <2>8. CASE Step \/ TokenizedStep
    BY <2>1, <2>2, <2>3, <2>8 DEF Step, TokenizedStep, EngineFails
  <2>9. CASE ResetRows \/ CompleteReset
    BY <2>1, <2>4, <2>5, <2>9 DEF ResetRows, CompleteReset, EngineFails
  <2>10. CASE SetState \/ RestoreSnapshot \/ CloneState
    BY <2>1, <2>6, <2>10 DEF SetState, RestoreSnapshot, CloneState, EngineFails
  <2>11. CASE IssueToken \/ TakeSnapshot \/ RenderFails \/ Close
    BY <2>1, <2>11 DEF IssueToken, TakeSnapshot, RenderFails, Close, buffers
  <2>12. CASE SwitchStep
    BY <2>1, <2>7, <2>12 DEF SwitchStep, SwitchRobot, SwitchRobotFails, SynchronizeFails,
       RollbackRobot, RollbackRobotFails, EndRollback, KeepAllButSwitch, buffers
  <2>13. ASSUME NEW m \in Supported, BeginSwitch(m) PROVE Holds(e)
    BY <2>1, <2>13 DEF BeginSwitch, buffers
  <2> QED
    BY <1>1, <2>8, <2>9, <2>10, <2>11, <2>12, <2>13 DEF Next
<1>2. IInv /\ [Next]_vars => [mode' = "position" => \A e \in Envs : Holds(e)]_vars
  BY <1>1
<1> QED
  BY <1>2, RuntimeInvariant, PTL DEF Spec, PositionPairHolds

(* No physics step is taken over a row whose SAME_STEP reset is owed. *)
THEOREM FinishedRowsWait == Spec => FinishedRowsAreReset
<1>1. IInv => (Step \/ TokenizedStep => unreset = {} \/ broken')
  BY DEF IInv, Owing, Step, TokenizedStep, MayMutate, NoTransaction
<1> QED BY <1>1, RuntimeInvariant, PTL DEF FinishedRowsAreReset

-----------------------------------------------------------------------------
(* How far the statement that UndoneRowsKeepTarget refutes does hold. *)

(* Completing a token keeps the reference of a row that is not owed; what a *)
(* port drives in that row unless the engine takes no mask and the mode is  *)
(* not position; and in position mode its target.                          *)
UndoneRowsKeepRest ==
  [][token = "stepped" /\ token' = "none" =>
       \A e \in Envs \ owed :
         /\ reference'[e] = reference[e]
         /\ mode = "position" => target'[e] = target[e]
         /\ mode = "position" \/ masksTargets =>
              \A r \in Robots : driven'[r][e] = driven[r][e] ]_vars

LEMMA OnlyCompletionEndsToken ==
  ASSUME Next, token = "stepped", token' = "none"
  PROVE  CompleteReset
<1>1. CASE SwitchStep
  BY <1>1 DEF SwitchStep, SwitchRobot, SwitchRobotFails, SynchronizeFails, CommitSwitch,
     RollbackRobot, RollbackRobotFails, EndRollback, KeepAllButSwitch
<1>2. CASE SetState \/ RestoreSnapshot \/ CloneState
  BY <1>2 DEF SetState, RestoreSnapshot, CloneState, MayMutate, NoTransaction
<1>3. CASE Step \/ IssueToken \/ TokenizedStep \/ ResetRows \/ TakeSnapshot \/ RenderFails \/ Close
  BY <1>3 DEF Step, IssueToken, TokenizedStep, ResetRows, TakeSnapshot, RenderFails, Close,
     MayMutate, NoTransaction, EngineFails
<1>4. ASSUME NEW m \in Supported, BeginSwitch(m) PROVE CompleteReset
  BY <1>4 DEF BeginSwitch, MayMutate, NoTransaction
<1> QED
  BY <1>1, <1>2, <1>3, <1>4 DEF Next

(* The rows a token did not finish go on as they were, but for the target    *)
(* outside position mode, which the run undone_rows shows zeroed.           *)
THEOREM UndoneRowsGoOn == Spec => UndoneRowsKeepRest
<1> DEFINE Kept(e) ==
      /\ reference'[e] = reference[e]
      /\ mode = "position" => target'[e] = target[e]
      /\ mode = "position" \/ masksTargets =>
           \A r \in Robots : driven'[r][e] = driven[r][e]
<1>1. ASSUME IInv, Next, token = "stepped", token' = "none", NEW e \in Envs \ owed
      PROVE  Kept(e)
  <2>1. CompleteReset /\ Usable /\ Idle /\ token' # token
    BY <1>1, OnlyCompletionEndsToken DEF CompleteReset
  <2>2. PICK fresh \in [Envs -> Values] : MaskedResetTargets(fresh)
    BY <2>1 DEF CompleteReset, EngineFails
  <2> DEFINE q == [f \in Envs |-> IF f \in owed THEN fresh[f] ELSE reference[f]]
  <2>3. /\ reference' = q /\ target' = Neutral(mode, q)
        /\ driven' = [r \in Robots |->
                       [f \in Envs |-> IF masksTargets /\ f \notin owed
                                       THEN driven[r][f] ELSE Neutral(mode, q)[f]]]
    BY <2>2 DEF MaskedResetTargets
  <2>4. q[e] = reference[e]
    BY <1>1
  <2>5. mode = "position" =>
          /\ Neutral(mode, q) = q /\ target = reference
          /\ \A r \in Robots : driven[r] = target
    BY <1>1, <2>1 DEF IInv, Paired, IdlePorts, Follows, Neutral, Usable, Idle
  <2> HIDE DEF q
  <2> QED
    BY <1>1, <2>3, <2>4, <2>5
<1>2. IInv /\ [Next]_vars =>
        [token = "stepped" /\ token' = "none" => \A e \in Envs \ owed : Kept(e)]_vars
  BY <1>1
<1> QED
  BY <1>2, RuntimeInvariant, PTL DEF Spec, UndoneRowsKeepRest
=============================================================================
