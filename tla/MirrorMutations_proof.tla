------------------------ MODULE MirrorMutations_proof ------------------------
(***************************************************************************)
(* The invariants of MirrorMutations and its refinement of AtomicMutation, *)
(* for every number of robots, modes and poses and every bound.            *)
(*                                                                         *)
(* The argument follows one operation from its begin to its end.  While it *)
(* goes forward, whatever its plan has not written yet is still ahead in   *)
(* the plan (SwitchHalf, RestoreHalf, ResetHalf), so an empty plan means   *)
(* a finished mutation.  Whatever differs from the state it began in can   *)
(* be undone, or a mark was passed, or a compensation raised               *)
(* (Recoverable), so an empty undo list means that nothing happened, or    *)
(* that the owner is to become fatal.                                      *)
(***************************************************************************)
EXTENDS MirrorMutations, SequenceTheorems, TLAPS

Kinds == {"drive", "part", "mark", "world", "configure", "flush"}

(* Every step a plan may contain. *)
Steps ==
  {DriveStep(r, m) : r \in Robots, m \in Modes} \cup
  {PartStep(p, x) : p \in Parts, x \in Poses} \cup
  {ConfigureStep(r) : r \in Robots} \cup {Mark, WorldReset, Flush}

TxnTyped ==
  txn \in [pc : {"rest", "forward", "rollback", "hybrid", "handover"},
           op : {"none", "set_mode", "restore", "reset", "hybrid"},
           owner : Owners, todo : Seq(Steps), undo : Seq(Steps),
           marked : BOOLEAN, broken : BOOLEAN, saved : Worlds, arg : Modes \cup Nat]

(* The sequences of steps: what is in them, and in which order. *)
Has(steps, kind, x) ==
  \E i \in 1 .. Len(steps) : steps[i].kind = kind /\ steps[i].at = x
Only(steps, kinds) == \A i \in 1 .. Len(steps) : steps[i].kind \in kinds
To(steps, kind, pose) ==
  \A i \in 1 .. Len(steps) : steps[i].kind = kind => steps[i].to = pose[steps[i].at]

MarkAhead(steps, marked) ==
  \A i \in 1 .. Len(steps) :
    steps[i].kind \in {"world", "configure", "flush"} =>
      marked \/ \E j \in 1 .. i - 1 : steps[j].kind = "mark"

(* The world is reset once, before any robot is configured. *)
WorldAhead(steps) ==
  \E k \in 1 .. Len(steps) :
    /\ steps[k].kind = "world"
    /\ \A i \in 1 .. k - 1 : steps[i].kind \in {"part", "mark"}
    /\ \A i \in k + 1 .. Len(steps) : steps[i].kind \in {"configure", "flush"}
    /\ \A r \in Robots :
         \E i \in k + 1 .. Len(steps) : steps[i].kind = "configure" /\ steps[i].at = r

InTransaction == txn.pc \in {"forward", "rollback"}
Forward(op) == txn.pc = "forward" /\ txn.op = op

-----------------------------------------------------------------------------
(* The inductive invariant *)

SavedAtRest == AtRest => txn.saved = World /\ txn.op = "none"

(* The state an operation of a healthy runtime began in agrees with the mode. *)
Agreeing ==
  fatal = {} => \A r \in Robots : txn.saved.drive[r] = activeMode
                                  /\ txn.saved.settings[r] = activeMode

Working ==
  InTransaction =>
    /\ txn.op \in {"set_mode", "restore", "reset"}
    /\ txn.owner = (IF txn.op = "set_mode" THEN "runtime" ELSE "resources")
    /\ txn.owner \notin fatal
    /\ Only(txn.undo, {"drive", "part"})
    /\ txn.pc = "forward" => ~txn.broken

Undoable(r) == Has(txn.undo, "drive", r)
Unchanged(r) == drive[r] = txn.saved.drive[r] /\ settings[r] = txn.saved.settings[r]

Recoverable ==
  InTransaction /\ ~txn.marked /\ ~txn.broken =>
    /\ \A r \in Robots : Unchanged(r) \/ Undoable(r)
    /\ \A p \in Parts : content[p] = txn.saved.content[p] \/ Has(txn.undo, "part", p)

MarkFirst == txn.pc = "forward" => MarkAhead(txn.todo, txn.marked)

SwitchHalf ==
  Forward("set_mode") =>
    /\ txn.arg \in Modes \ {activeMode} /\ generation < MaxSwitches
    /\ content = txn.saved.content
    /\ Only(txn.todo, {"drive"})
    /\ To(txn.todo, "drive", [r \in Robots |-> txn.arg])
    /\ \A r \in Robots : \/ drive[r] = txn.arg /\ settings[r] = txn.arg
                         \/ Has(txn.todo, "drive", r)

RestoreHalf ==
  Forward("restore") =>
    /\ snapshot # NoSnapshot /\ snapshot.mode = activeMode
    /\ drive = txn.saved.drive /\ settings = txn.saved.settings
    /\ Only(txn.todo, {"part", "mark", "flush"})
    /\ To(txn.todo, "part", snapshot.content)
    /\ \A p \in Parts : content[p] = snapshot.content[p] \/ Has(txn.todo, "part", p)

ResetHalf ==
  Forward("reset") =>
    /\ settings = txn.saved.settings
    /\ \/ WorldAhead(txn.todo) /\ resets < MaxResets
       \/ /\ Only(txn.todo, {"configure", "flush"})
          /\ \A p \in Parts \ {Attachments} : content[p] = Home
          /\ \A r \in Robots : drive[r] = settings[r] \/ Has(txn.todo, "configure", r)

(* A hybrid motion overrides one robot and moves what is not attached. *)
HybridHalf ==
  txn.pc \in {"hybrid", "handover"} =>
    /\ txn.op = "hybrid" /\ txn.arg \in Robots
    /\ \A r \in Robots \ {txn.arg} : Unchanged(r)
    /\ \/ content = txn.saved.content
       \/ \E pose \in Poses :
            content = [p \in Parts |-> IF p = Attachments THEN txn.saved.content[p] ELSE pose]

(* A reset makes the tares stale when it resets the world; they are dropped
   at its end, and its owner is fatal when it does not get there. *)
Fresh ==
  "resources" \notin fatal /\ ~(txn.op = "reset" /\ txn.marked) =>
    \A r \in Robots : tare[r] # 0 => taredAt[tare[r]] = resets

Inv ==
  /\ TypeOK /\ TxnTyped
  /\ SavedAtRest /\ Agreeing /\ Working /\ Recoverable /\ MarkFirst
  /\ SwitchHalf /\ RestoreHalf /\ ResetHalf /\ HybridHalf /\ Fresh

-----------------------------------------------------------------------------
(* Steps and sequences of steps *)

LEMMA PartsFacts ==
  /\ Objects \in Parts /\ Attachments \in Parts /\ Objects # Attachments
  /\ \A r \in Robots : Body(r) \in Parts
  /\ \A p \in Parts : p = Objects \/ p = Attachments \/ \E r \in Robots : p = Body(r)
BY DEF Parts, Objects, Attachments, Body

LEMMA StepFacts ==
  ASSUME NEW s \in Steps
  PROVE  /\ s.kind \in Kinds
         /\ s.kind = "drive" => s.at \in Robots /\ s.to \in Modes
         /\ s.kind = "part" => s.at \in Parts /\ s.to \in Poses
         /\ s.kind = "configure" => s.at \in Robots
BY DEF Steps, Kinds, DriveStep, PartStep, ConfigureStep, Mark, WorldReset, Flush

LEMMA StepsMade ==
  /\ \A r \in Robots, m \in Modes :
       /\ DriveStep(r, m) \in Steps /\ DriveStep(r, m).kind = "drive"
       /\ DriveStep(r, m).at = r /\ DriveStep(r, m).to = m
  /\ \A p \in Parts, x \in Poses :
       /\ PartStep(p, x) \in Steps /\ PartStep(p, x).kind = "part"
       /\ PartStep(p, x).at = p /\ PartStep(p, x).to = x
  /\ \A r \in Robots :
       /\ ConfigureStep(r) \in Steps /\ ConfigureStep(r).kind = "configure"
       /\ ConfigureStep(r).at = r
  /\ Mark \in Steps /\ Mark.kind = "mark"
  /\ WorldReset \in Steps /\ WorldReset.kind = "world"
  /\ Flush \in Steps /\ Flush.kind = "flush"
<1>1. \A r \in Robots, m \in Modes : DriveStep(r, m) \in Steps
  BY DEF Steps
<1>2. \A p \in Parts, x \in Poses : PartStep(p, x) \in Steps
  BY DEF Steps
<1>3. \A r \in Robots : ConfigureStep(r) \in Steps
  BY DEF Steps
<1>4. {Mark, WorldReset, Flush} \subseteq Steps
  BY DEF Steps
<1> QED
  BY <1>1, <1>2, <1>3, <1>4 DEF DriveStep, PartStep, ConfigureStep, Mark, WorldReset, Flush

(* The rest of a plan keeps what was said of the whole. *)
LEMMA RestOfPlan ==
  ASSUME NEW steps \in Seq(Steps), steps # <<>>
  PROVE  /\ Head(steps) \in Steps /\ Tail(steps) \in Seq(Steps)
         /\ \A kinds : Only(steps, kinds) => Head(steps).kind \in kinds /\ Only(Tail(steps), kinds)
         /\ \A kind, pose : To(steps, kind, pose) =>
              /\ To(Tail(steps), kind, pose)
              /\ Head(steps).kind = kind => Head(steps).to = pose[Head(steps).at]
         /\ \A kind, x : Has(steps, kind, x) /\ ~(Head(steps).kind = kind /\ Head(steps).at = x)
              => Has(Tail(steps), kind, x)
<1>1. /\ Head(steps) \in Steps /\ Tail(steps) \in Seq(Steps) /\ Len(steps) \in Nat \ {0}
      /\ Len(Tail(steps)) = Len(steps) - 1 /\ Head(steps) = steps[1]
      /\ \A i \in 1 .. Len(Tail(steps)) : Tail(steps)[i] = steps[i + 1]
  BY HeadTailProperties, EmptySeq
<1>2. ASSUME NEW kinds, Only(steps, kinds)
      PROVE  Head(steps).kind \in kinds /\ Only(Tail(steps), kinds)
  BY <1>1, <1>2 DEF Only
<1>3. ASSUME NEW kind, NEW pose, To(steps, kind, pose)
      PROVE  /\ To(Tail(steps), kind, pose)
             /\ Head(steps).kind = kind => Head(steps).to = pose[Head(steps).at]
  BY <1>1, <1>3 DEF To
<1>4. ASSUME NEW kind, NEW x, Has(steps, kind, x), ~(Head(steps).kind = kind /\ Head(steps).at = x)
      PROVE  Has(Tail(steps), kind, x)
  <2>1. PICK i \in 1 .. Len(steps) : steps[i].kind = kind /\ steps[i].at = x
    BY <1>4 DEF Has
  <2>2. i # 1
    BY <1>1, <1>4, <2>1
  <2>3. i - 1 \in 1 .. Len(Tail(steps)) /\ Tail(steps)[i - 1] = steps[i]
    BY <1>1, <2>2
  <2> QED
    BY <2>1, <2>3 DEF Has
<1> QED
  BY <1>1, <1>2, <1>3, <1>4

LEMMA RestAfterMark ==
  ASSUME NEW steps \in Seq(Steps), steps # <<>>, NEW marked \in BOOLEAN, MarkAhead(steps, marked)
  PROVE  /\ MarkAhead(Tail(steps), marked \/ Head(steps).kind = "mark")
         /\ Head(steps).kind \in {"world", "configure", "flush"} => marked
<1>1. /\ Tail(steps) \in Seq(Steps) /\ Len(steps) \in Nat \ {0}
      /\ Len(Tail(steps)) = Len(steps) - 1 /\ Head(steps) = steps[1]
      /\ \A i \in 1 .. Len(Tail(steps)) : Tail(steps)[i] = steps[i + 1]
  BY HeadTailProperties, EmptySeq
<1>2. ASSUME NEW i \in 1 .. Len(Tail(steps)),
             Tail(steps)[i].kind \in {"world", "configure", "flush"},
             ~marked, Head(steps).kind # "mark"
      PROVE  \E j \in 1 .. i - 1 : Tail(steps)[j].kind = "mark"
  <2>1. i + 1 \in 1 .. Len(steps) /\ steps[i + 1].kind \in {"world", "configure", "flush"}
    BY <1>1, <1>2
  <2>2. PICK j \in 1 .. (i + 1) - 1 : steps[j].kind = "mark"
    BY <1>2, <2>1 DEF MarkAhead
  <2>3. j # 1
    BY <1>1, <1>2, <2>2
  <2>4. j - 1 \in 1 .. i - 1 /\ Tail(steps)[j - 1] = steps[j]
    BY <1>1, <2>2, <2>3
  <2> QED
    BY <2>2, <2>4
<1>3. Head(steps).kind \in {"world", "configure", "flush"} => marked
  BY <1>1 DEF MarkAhead
<1> QED
  BY <1>2, <1>3 DEF MarkAhead

LEMMA RestBeforeWorld ==
  ASSUME NEW steps \in Seq(Steps), steps # <<>>, WorldAhead(steps)
  PROVE  /\ Head(steps).kind \in {"part", "mark", "world"}
         /\ Head(steps).kind # "world" => WorldAhead(Tail(steps))
         /\ Head(steps).kind = "world" =>
              /\ Only(Tail(steps), {"configure", "flush"})
              /\ \A r \in Robots : Has(Tail(steps), "configure", r)
<1>1. /\ Tail(steps) \in Seq(Steps) /\ Len(steps) \in Nat \ {0}
      /\ Len(Tail(steps)) = Len(steps) - 1 /\ Head(steps) = steps[1]
      /\ \A i \in 1 .. Len(Tail(steps)) : Tail(steps)[i] = steps[i + 1]
  BY HeadTailProperties, EmptySeq
<1>2. PICK k \in 1 .. Len(steps) :
        /\ steps[k].kind = "world"
        /\ \A i \in 1 .. k - 1 : steps[i].kind \in {"part", "mark"}
        /\ \A i \in k + 1 .. Len(steps) : steps[i].kind \in {"configure", "flush"}
        /\ \A r \in Robots :
             \E i \in k + 1 .. Len(steps) : steps[i].kind = "configure" /\ steps[i].at = r
  BY DEF WorldAhead
<1>3. CASE k = 1
  <2>1. Head(steps).kind = "world"
    BY <1>1, <1>2, <1>3
  <2>2. Only(Tail(steps), {"configure", "flush"})
    BY <1>1, <1>2, <1>3 DEF Only
  <2>3. ASSUME NEW r \in Robots
        PROVE  Has(Tail(steps), "configure", r)
    <3>1. PICK i \in k + 1 .. Len(steps) : steps[i].kind = "configure" /\ steps[i].at = r
      BY <1>2
    <3>2. i - 1 \in 1 .. Len(Tail(steps)) /\ Tail(steps)[i - 1] = steps[i]
      BY <1>1, <1>3, <3>1
    <3> QED
      BY <3>1, <3>2 DEF Has
  <2> QED
    BY <2>1, <2>2, <2>3
<1>4. CASE k # 1
  <2>1. Head(steps).kind \in {"part", "mark"}
    BY <1>1, <1>2, <1>4
  <2>2. /\ k - 1 \in 1 .. Len(Tail(steps)) /\ Tail(steps)[k - 1].kind = "world"
        /\ \A i \in 1 .. (k - 1) - 1 : Tail(steps)[i].kind \in {"part", "mark"}
        /\ \A i \in (k - 1) + 1 .. Len(Tail(steps)) : Tail(steps)[i].kind \in {"configure", "flush"}
    BY <1>1, <1>2, <1>4
  <2>3. ASSUME NEW r \in Robots
        PROVE  \E i \in (k - 1) + 1 .. Len(Tail(steps)) :
                 Tail(steps)[i].kind = "configure" /\ Tail(steps)[i].at = r
    <3>1. PICK i \in k + 1 .. Len(steps) : steps[i].kind = "configure" /\ steps[i].at = r
      BY <1>2
    <3>2. i - 1 \in (k - 1) + 1 .. Len(Tail(steps)) /\ Tail(steps)[i - 1] = steps[i]
      BY <1>1, <1>4, <3>1
    <3> QED
      BY <3>1, <3>2
  <2> QED
    BY <2>1, <2>2, <2>3 DEF WorldAhead
<1> QED
  BY <1>3, <1>4

(* A step put in front of the undo list. *)
LEMMA PutFirst ==
  ASSUME NEW steps \in Seq(Steps), NEW s \in Steps
  PROVE  /\ <<s>> \o steps \in Seq(Steps)
         /\ Has(<<s>> \o steps, s.kind, s.at)
         /\ \A kind, x : Has(steps, kind, x) => Has(<<s>> \o steps, kind, x)
         /\ \A kinds : Only(steps, kinds) /\ s.kind \in kinds => Only(<<s>> \o steps, kinds)
<1>1. /\ <<s>> \in Seq(Steps) /\ Len(<<s>>) = 1 /\ <<s>>[1] = s
      /\ Len(steps) \in Nat
  BY LenProperties
<1>2. /\ Len(<<s>> \o steps) = 1 + Len(steps)
      /\ \A i \in 1 .. 1 + Len(steps) :
           (<<s>> \o steps)[i] = IF i <= 1 THEN <<s>>[i] ELSE steps[i - 1]
  BY <1>1, ConcatProperties
<1>3. <<s>> \o steps \in Seq(Steps)
  BY <1>1, ConcatProperties
<1>4. Has(<<s>> \o steps, s.kind, s.at)
  BY <1>1, <1>2 DEF Has
<1>5. ASSUME NEW kind, NEW x, Has(steps, kind, x)
      PROVE  Has(<<s>> \o steps, kind, x)
  <2>1. PICK i \in 1 .. Len(steps) : steps[i].kind = kind /\ steps[i].at = x
    BY <1>5 DEF Has
  <2>2. i + 1 \in 1 .. Len(<<s>> \o steps) /\ (<<s>> \o steps)[i + 1] = steps[i]
    BY <1>1, <1>2
  <2> QED
    BY <2>1, <2>2 DEF Has
<1>6. ASSUME NEW kinds, Only(steps, kinds), s.kind \in kinds
      PROVE  Only(<<s>> \o steps, kinds)
  BY <1>1, <1>2, <1>6 DEF Only
<1> QED
  BY <1>3, <1>4, <1>5, <1>6

-----------------------------------------------------------------------------
(* The plans *)

LEMMA SwitchPlanShape ==
  ASSUME NEW mode \in Modes
  PROVE  /\ SwitchPlan(mode) \in Seq(Steps)
         /\ Only(SwitchPlan(mode), {"drive"})
         /\ To(SwitchPlan(mode), "drive", [r \in Robots |-> mode])
         /\ \A r \in Robots : Has(SwitchPlan(mode), "drive", r)
         /\ MarkAhead(SwitchPlan(mode), FALSE)
<1>1. NumRobots \in Nat
  BY MutationAssumption
<1>2. /\ SwitchPlan(mode) \in Seq(Steps) /\ Len(SwitchPlan(mode)) = NumRobots
      /\ \A i \in 1 .. NumRobots : SwitchPlan(mode)[i] = DriveStep(i, mode)
  BY <1>1, StepsMade DEF SwitchPlan, Robots
<1>3. \A i \in 1 .. NumRobots : /\ SwitchPlan(mode)[i].kind = "drive"
                                /\ SwitchPlan(mode)[i].at = i
                                /\ SwitchPlan(mode)[i].to = mode
  BY <1>2, StepsMade DEF Robots
<1>4. Only(SwitchPlan(mode), {"drive"}) /\ To(SwitchPlan(mode), "drive", [r \in Robots |-> mode])
  BY <1>2, <1>3 DEF Only, To, Robots
<1>5. \A r \in Robots : Has(SwitchPlan(mode), "drive", r)
  BY <1>2, <1>3 DEF Has, Robots
<1>6. MarkAhead(SwitchPlan(mode), FALSE)
  BY <1>2, <1>3 DEF MarkAhead
<1> QED
  BY <1>2, <1>4, <1>5, <1>6

(* Posing robots, one after the other. *)
LEMMA BodiesShape ==
  ASSUME NEW pose \in [Parts -> Poses],
         NEW bodies, bodies = [r \in Robots |-> PartStep(Body(r), pose[Body(r)])]
  PROVE  /\ bodies \in Seq(Steps) /\ Len(bodies) = NumRobots
         /\ \A i \in 1 .. NumRobots : /\ bodies[i].kind = "part" /\ bodies[i].at = Body(i)
                                      /\ bodies[i].to = pose[Body(i)]
<1>1. NumRobots \in Nat
  BY MutationAssumption
<1>2. \A i \in 1 .. NumRobots : /\ Body(i) \in Parts /\ pose[Body(i)] \in Poses
                                /\ bodies[i] = PartStep(Body(i), pose[Body(i)])
  BY PartsFacts DEF Robots
<1>3. \A i \in 1 .. NumRobots : bodies[i] \in Steps
  BY <1>2, StepsMade
<1>4. bodies \in Seq(Steps) /\ Len(bodies) = NumRobots
  BY <1>1, <1>3 DEF Robots
<1> QED
  BY <1>2, <1>4, StepsMade

LEMMA RestorePlanShape ==
  ASSUME NEW pose \in [Parts -> Poses]
  PROVE  /\ RestorePlan(pose) \in Seq(Steps)
         /\ Only(RestorePlan(pose), {"part", "mark", "flush"})
         /\ To(RestorePlan(pose), "part", pose)
         /\ \A p \in Parts : Has(RestorePlan(pose), "part", p)
         /\ MarkAhead(RestorePlan(pose), FALSE)
<1> DEFINE bodies == [r \in Robots |-> PartStep(Body(r), pose[Body(r)])]
           things == <<PartStep(Objects, pose[Objects]), PartStep(Attachments, pose[Attachments])>>
           rest == <<Mark, Flush, Mark, Flush>>
           plan == RestorePlan(pose)
<1>1. /\ bodies \in Seq(Steps) /\ Len(bodies) = NumRobots /\ NumRobots \in Nat
      /\ \A i \in 1 .. NumRobots : /\ bodies[i].kind = "part" /\ bodies[i].at = Body(i)
                                   /\ bodies[i].to = pose[Body(i)]
  BY BodiesShape, MutationAssumption
<1>2. /\ pose[Objects] \in Poses /\ pose[Attachments] \in Poses
      /\ Objects \in Parts /\ Attachments \in Parts
  BY PartsFacts
<1>3. things \in Seq(Steps) /\ Len(things) = 2 /\ rest \in Seq(Steps) /\ Len(rest) = 4
  BY <1>2, StepsMade
<1>3a. /\ things[1] = PartStep(Objects, pose[Objects])
       /\ things[2] = PartStep(Attachments, pose[Attachments])
       /\ rest[1] = Mark /\ rest[2] = Flush /\ rest[3] = Mark /\ rest[4] = Flush
  OBVIOUS
<1>4. plan = (bodies \o things) \o rest
  BY DEF RestorePlan
<1> DEFINE front == bodies \o things
<1> HIDE DEF plan, bodies, things, rest
<1>5. /\ front \in Seq(Steps) /\ Len(front) = Len(bodies) + Len(things)
      /\ \A i \in 1 .. Len(bodies) + Len(things) :
           front[i] = IF i <= Len(bodies) THEN bodies[i] ELSE things[i - Len(bodies)]
  BY <1>1, <1>3, ConcatProperties
<1> HIDE DEF front
<1>6. /\ plan \in Seq(Steps) /\ Len(plan) = Len(front) + Len(rest)
      /\ \A i \in 1 .. Len(front) + Len(rest) :
           plan[i] = IF i <= Len(front) THEN front[i] ELSE rest[i - Len(front)]
  <2>1. plan = front \o rest
    BY <1>4 DEF front
  <2>2. front \in Seq(Steps) /\ rest \in Seq(Steps)
    BY <1>3, <1>5
  <2>3. /\ front \o rest \in Seq(Steps) /\ Len(front \o rest) = Len(front) + Len(rest)
        /\ \A i \in 1 .. Len(front) + Len(rest) :
             (front \o rest)[i] = IF i <= Len(front) THEN front[i] ELSE rest[i - Len(front)]
    BY <2>2, ConcatProperties
  <2> QED
    BY <2>1, <2>3
<1>6a. Len(front) = NumRobots + 2 /\ Len(plan) = NumRobots + 6
  BY <1>1, <1>3, <1>5, <1>6
<1>7. \A i \in 1 .. NumRobots : plan[i] = bodies[i]
  BY <1>1, <1>3, <1>5, <1>6, <1>6a
<1>8a. /\ plan[NumRobots + 1] = things[1] /\ plan[NumRobots + 2] = things[2]
       /\ plan[NumRobots + 3] = rest[1] /\ plan[NumRobots + 4] = rest[2]
       /\ plan[NumRobots + 5] = rest[3] /\ plan[NumRobots + 6] = rest[4]
  <2>1. /\ plan[NumRobots + 1] = front[NumRobots + 1]
        /\ plan[NumRobots + 2] = front[NumRobots + 2]
        /\ plan[NumRobots + 3] = rest[1] /\ plan[NumRobots + 4] = rest[2]
        /\ plan[NumRobots + 5] = rest[3] /\ plan[NumRobots + 6] = rest[4]
    BY <1>1, <1>3, <1>6, <1>6a
  <2>2. front[NumRobots + 1] = things[1] /\ front[NumRobots + 2] = things[2]
    BY <1>1, <1>3, <1>5
  <2> QED
    BY <2>1, <2>2
<1>8. /\ plan[NumRobots + 1] = PartStep(Objects, pose[Objects])
      /\ plan[NumRobots + 2] = PartStep(Attachments, pose[Attachments])
      /\ plan[NumRobots + 3] = Mark /\ plan[NumRobots + 4] = Flush
      /\ plan[NumRobots + 5] = Mark /\ plan[NumRobots + 6] = Flush
  BY <1>3a, <1>8a
<1>9. \A i \in 1 .. Len(plan) : \/ i \in 1 .. NumRobots
                                \/ i \in {NumRobots + 1, NumRobots + 2, NumRobots + 3,
                                          NumRobots + 4, NumRobots + 5, NumRobots + 6}
  BY <1>1, <1>6, <1>6a
<1>10. Only(plan, {"part", "mark", "flush"}) /\ To(plan, "part", pose)
  <2>1. \A i \in 1 .. NumRobots : /\ plan[i].kind = "part" /\ plan[i].at = Body(i)
                                  /\ plan[i].to = pose[Body(i)]
    BY <1>1, <1>7
  <2>2. /\ plan[NumRobots + 1].kind = "part" /\ plan[NumRobots + 1].at = Objects
        /\ plan[NumRobots + 1].to = pose[Objects]
        /\ plan[NumRobots + 2].kind = "part" /\ plan[NumRobots + 2].at = Attachments
        /\ plan[NumRobots + 2].to = pose[Attachments]
        /\ plan[NumRobots + 3].kind = "mark" /\ plan[NumRobots + 4].kind = "flush"
        /\ plan[NumRobots + 5].kind = "mark" /\ plan[NumRobots + 6].kind = "flush"
    BY <1>2, <1>8, StepsMade
  <2> QED
    BY <1>9, <2>1, <2>2 DEF Only, To
<1>11. \A p \in Parts : Has(plan, "part", p)
  <2>1. \A r \in Robots : Has(plan, "part", Body(r))
    BY <1>1, <1>6, <1>6a, <1>7 DEF Has, Robots
  <2>2. /\ NumRobots + 1 \in 1 .. Len(plan) /\ NumRobots + 2 \in 1 .. Len(plan)
        /\ plan[NumRobots + 1].kind = "part" /\ plan[NumRobots + 1].at = Objects
        /\ plan[NumRobots + 2].kind = "part" /\ plan[NumRobots + 2].at = Attachments
    BY <1>1, <1>2, <1>6a, <1>8, StepsMade
  <2>3. Has(plan, "part", Objects) /\ Has(plan, "part", Attachments)
    BY <2>2 DEF Has
  <2> QED
    BY <2>1, <2>3, PartsFacts
<1>12. MarkAhead(plan, FALSE)
  <2>1. \A i \in 1 .. Len(plan) : plan[i].kind \in {"world", "configure", "flush"}
                                    => i \in {NumRobots + 4, NumRobots + 6}
    <3>1. \A i \in 1 .. NumRobots : plan[i].kind = "part"
      BY <1>1, <1>7
    <3>2. /\ plan[NumRobots + 1].kind = "part" /\ plan[NumRobots + 2].kind = "part"
          /\ plan[NumRobots + 3].kind = "mark" /\ plan[NumRobots + 5].kind = "mark"
      BY <1>2, <1>8, StepsMade
    <3> QED
      BY <1>9, <3>1, <3>2
  <2>2. \A i \in {NumRobots + 4, NumRobots + 6} : NumRobots + 3 \in 1 .. i - 1
    BY <1>1
  <2>3. plan[NumRobots + 3].kind = "mark"
    BY <1>8, StepsMade
  <2> QED
    BY <2>1, <2>2, <2>3 DEF MarkAhead
<1> QED
  BY <1>6, <1>6a, <1>10, <1>11, <1>12 DEF plan

LEMMA ResetPlanShape ==
  ASSUME NEW plan \in ResetPlans
  PROVE  plan \in Seq(Steps) /\ WorldAhead(plan) /\ MarkAhead(plan, FALSE)
<1> DEFINE bodies == [r \in Robots |-> PartStep(Body(r), Home)]
           home == <<PartStep(Objects, Home)>> \o bodies
           robots == [r \in Robots |-> ConfigureStep(r)]
           front == <<Mark, WorldReset>> \o robots
           rest == front \o <<Flush>>
<1>1. plan = home \o rest \/ plan = rest
  BY DEF ResetPlans
<1>2. NumRobots \in Nat /\ Home \in Poses /\ Objects \in Parts
  BY MutationAssumption, PartsFacts
<1>3. /\ bodies \in Seq(Steps) /\ Len(bodies) = NumRobots
      /\ \A i \in 1 .. NumRobots : bodies[i].kind = "part"
  <2>1. \A i \in 1 .. NumRobots : bodies[i] = PartStep(Body(i), Home) /\ Body(i) \in Parts
    BY PartsFacts DEF Robots
  <2>2. \A i \in 1 .. NumRobots : bodies[i] \in Steps /\ bodies[i].kind = "part"
    BY <2>1, <1>2, StepsMade
  <2> QED
    BY <1>2, <2>2 DEF Robots
<1>4. /\ robots \in Seq(Steps) /\ Len(robots) = NumRobots
      /\ \A i \in 1 .. NumRobots : robots[i].kind = "configure" /\ robots[i].at = i
  <2>1. \A i \in 1 .. NumRobots : robots[i] = ConfigureStep(i) /\ i \in Robots
    BY DEF Robots
  <2>2. \A i \in 1 .. NumRobots :
          robots[i] \in Steps /\ robots[i].kind = "configure" /\ robots[i].at = i
    BY <2>1, StepsMade
  <2> QED
    BY <1>2, <2>2 DEF Robots
<1>5. /\ <<PartStep(Objects, Home)>> \in Seq(Steps) /\ Len(<<PartStep(Objects, Home)>>) = 1
      /\ <<PartStep(Objects, Home)>>[1].kind = "part"
      /\ <<Mark, WorldReset>> \in Seq(Steps) /\ Len(<<Mark, WorldReset>>) = 2
      /\ <<Mark, WorldReset>>[1] = Mark /\ <<Mark, WorldReset>>[2] = WorldReset
      /\ <<Flush>> \in Seq(Steps) /\ Len(<<Flush>>) = 1 /\ <<Flush>>[1] = Flush
  BY <1>2, StepsMade
<1> HIDE DEF bodies, robots
<1>6. /\ home \in Seq(Steps) /\ Len(home) = 1 + NumRobots
      /\ \A i \in 1 .. 1 + NumRobots : home[i].kind = "part"
  <2>1. /\ home \in Seq(Steps) /\ Len(home) = 1 + NumRobots
        /\ \A i \in 1 .. 1 + NumRobots :
             home[i] = IF i <= 1 THEN <<PartStep(Objects, Home)>>[i] ELSE bodies[i - 1]
    BY <1>3, <1>5, ConcatProperties
  <2> QED
    BY <1>2, <1>3, <1>5, <2>1
<1>7. /\ front \in Seq(Steps) /\ Len(front) = 2 + NumRobots
      /\ \A i \in 1 .. 2 + NumRobots :
           front[i] = IF i <= 2 THEN <<Mark, WorldReset>>[i] ELSE robots[i - 2]
  BY <1>4, <1>5, ConcatProperties
<1> HIDE DEF home, front
<1>8. /\ rest \in Seq(Steps) /\ Len(rest) = NumRobots + 3
      /\ \A i \in 1 .. NumRobots + 3 :
           rest[i] = IF i <= 2 + NumRobots THEN front[i] ELSE <<Flush>>[i - (2 + NumRobots)]
  BY <1>2, <1>5, <1>7, ConcatProperties
<1> HIDE DEF rest
<1>9. /\ rest[1].kind = "mark" /\ rest[2].kind = "world"
      /\ \A i \in 3 .. NumRobots + 3 : rest[i].kind \in {"configure", "flush"}
      /\ \A r \in 1 .. NumRobots : rest[r + 2].kind = "configure" /\ rest[r + 2].at = r
  <2>1. rest[1] = Mark /\ rest[2] = WorldReset /\ rest[NumRobots + 3] = Flush
    BY <1>2, <1>5, <1>7, <1>8
  <2>2. \A i \in 3 .. NumRobots + 2 : rest[i] = robots[i - 2]
    BY <1>2, <1>7, <1>8
  <2>3. \A r \in 1 .. NumRobots : rest[r + 2] = robots[r]
    BY <1>2, <2>2
  <2>4. \A i \in 3 .. NumRobots + 2 : rest[i].kind = "configure"
    BY <1>2, <1>4, <2>2
  <2> QED
    BY <1>2, <1>4, <2>1, <2>3, <2>4, StepsMade
<1>10. CASE plan = rest
  <2>1. WorldAhead(plan)
    <3>1. /\ 2 \in 1 .. Len(plan) /\ plan[2].kind = "world"
          /\ \A i \in 1 .. 2 - 1 : plan[i].kind \in {"part", "mark"}
          /\ \A i \in 2 + 1 .. Len(plan) : plan[i].kind \in {"configure", "flush"}
      BY <1>2, <1>8, <1>9, <1>10
    <3>2. ASSUME NEW r \in Robots
          PROVE  \E i \in 2 + 1 .. Len(plan) : plan[i].kind = "configure" /\ plan[i].at = r
      <4>1. r + 2 \in 2 + 1 .. Len(plan) /\ plan[r + 2].kind = "configure" /\ plan[r + 2].at = r
        BY <1>2, <1>8, <1>9, <1>10 DEF Robots
      <4> QED
        BY <4>1
    <3> QED
      BY <3>1, <3>2 DEF WorldAhead
  <2>2. MarkAhead(plan, FALSE)
    <3>1. \A i \in 1 .. Len(plan) : plan[i].kind \in {"world", "configure", "flush"} => 1 \in 1 .. i - 1
      BY <1>2, <1>8, <1>9, <1>10
    <3> QED
      BY <1>9, <1>10, <3>1 DEF MarkAhead
  <2> QED
    BY <1>8, <1>10, <2>1, <2>2
<1>11. CASE plan = home \o rest
  <2> DEFINE n == 1 + NumRobots
  <2>1. /\ plan \in Seq(Steps) /\ Len(plan) = n + (NumRobots + 3)
        /\ \A i \in 1 .. n + (NumRobots + 3) : plan[i] = IF i <= n THEN home[i] ELSE rest[i - n]
    <3>1. /\ plan \in Seq(Steps) /\ Len(plan) = Len(home) + Len(rest)
          /\ \A i \in 1 .. Len(home) + Len(rest) :
               plan[i] = IF i <= Len(home) THEN home[i] ELSE rest[i - Len(home)]
      BY <1>6, <1>8, <1>11, ConcatProperties
    <3> QED
      BY <1>6, <1>8, <3>1
  <2>2. /\ \A i \in 1 .. n : plan[i].kind = "part"
        /\ plan[n + 1].kind = "mark" /\ plan[n + 2].kind = "world"
    BY <1>2, <1>6, <1>9, <2>1
  <2>3. \A i \in n + 3 .. Len(plan) : plan[i].kind \in {"configure", "flush"}
    <3>1. ASSUME NEW i \in n + 3 .. Len(plan)
          PROVE  i - n \in 3 .. NumRobots + 3 /\ plan[i] = rest[i - n]
      BY <1>2, <2>1
    <3> QED
      BY <1>9, <3>1
  <2>4. WorldAhead(plan)
    <3>1. /\ n + 2 \in 1 .. Len(plan) /\ plan[n + 2].kind = "world"
          /\ \A i \in 1 .. (n + 2) - 1 : plan[i].kind \in {"part", "mark"}
          /\ \A i \in (n + 2) + 1 .. Len(plan) : plan[i].kind \in {"configure", "flush"}
      BY <1>2, <2>1, <2>2, <2>3
    <3>2. ASSUME NEW r \in Robots
          PROVE  \E i \in (n + 2) + 1 .. Len(plan) : plan[i].kind = "configure" /\ plan[i].at = r
      <4>1. /\ (n + 2) + r \in (n + 2) + 1 .. Len(plan)
            /\ ((n + 2) + r) - n = r + 2
        BY <1>2, <2>1 DEF Robots
      <4>2. plan[(n + 2) + r] = rest[r + 2]
        BY <1>2, <2>1, <4>1 DEF Robots
      <4>3. rest[r + 2].kind = "configure" /\ rest[r + 2].at = r
        BY <1>9 DEF Robots
      <4> QED
        BY <4>1, <4>2, <4>3
    <3> QED
      BY <3>1, <3>2 DEF WorldAhead
  <2>5. MarkAhead(plan, FALSE)
    <3>1. \A i \in 1 .. Len(plan) :
            plan[i].kind \in {"world", "configure", "flush"} => n + 1 \in 1 .. i - 1
      BY <1>2, <2>1, <2>2
    <3> QED
      BY <2>2, <3>1 DEF MarkAhead
  <2> QED
    BY <2>1, <2>4, <2>5
<1> QED
  BY <1>1, <1>10, <1>11

-----------------------------------------------------------------------------
(* The steps of a transaction *)

LEMMA TypedParts ==
  ASSUME Inv
  PROVE  /\ drive \in [Robots -> Modes \cup {Hybrid, Default, Torn}]
         /\ settings \in [Robots -> Modes \cup {Hybrid}]
         /\ content \in [Parts -> Poses \cup {Torn}]
         /\ txn.saved.drive \in [Robots -> Modes \cup {Hybrid, Default, Torn}]
         /\ txn.saved.settings \in [Robots -> Modes \cup {Hybrid}]
         /\ txn.saved.content \in [Parts -> Poses \cup {Torn}]
         /\ txn.saved \in Worlds
         /\ txn.todo \in Seq(Steps) /\ txn.undo \in Seq(Steps)
         /\ txn.marked \in BOOLEAN /\ txn.broken \in BOOLEAN
BY DEF Inv, TypeOK, TxnTyped, World, Worlds

(* In a forward transaction the next step belongs to the operation's plan. *)
LEMMA NextStep ==
  ASSUME Inv, txn.pc = "forward", txn.todo # <<>>
  PROVE  /\ Head(txn.todo) \in Steps /\ Tail(txn.todo) \in Seq(Steps)
         /\ \/ /\ txn.op = "set_mode"
               /\ Head(txn.todo).kind = "drive" /\ Head(txn.todo).to = txn.arg
            \/ /\ txn.op = "restore"
               /\ Head(txn.todo).kind \in {"part", "mark", "flush"}
               /\ Head(txn.todo).kind = "part" =>
                    Head(txn.todo).to = snapshot.content[Head(txn.todo).at]
            \/ /\ txn.op = "reset"
               /\ Head(txn.todo).kind \in {"part", "mark", "world"}
               /\ WorldAhead(txn.todo) /\ resets < MaxResets
            \/ /\ txn.op = "reset"
               /\ Head(txn.todo).kind \in {"configure", "flush"}
               /\ Only(txn.todo, {"configure", "flush"})
         /\ Head(txn.todo).kind \in {"world", "configure", "flush"} => txn.marked
         /\ MarkAhead(Tail(txn.todo), txn.marked \/ Head(txn.todo).kind = "mark")
         /\ ~txn.broken
<1> DEFINE s == Head(txn.todo)
<1>1. /\ txn.todo \in Seq(Steps) /\ txn.marked \in BOOLEAN /\ MarkAhead(txn.todo, txn.marked)
      /\ ~txn.broken /\ txn.op \in {"set_mode", "restore", "reset"}
  BY TypedParts DEF Inv, MarkFirst, Working, InTransaction
<1>2. s \in Steps /\ Tail(txn.todo) \in Seq(Steps)
  BY <1>1, RestOfPlan
<1>3. /\ s.kind \in {"world", "configure", "flush"} => txn.marked
      /\ MarkAhead(Tail(txn.todo), txn.marked \/ s.kind = "mark")
  BY <1>1, RestAfterMark
<1>4. CASE txn.op = "set_mode"
  <2>1. /\ Only(txn.todo, {"drive"})
        /\ To(txn.todo, "drive", [r \in Robots |-> txn.arg])
    BY <1>4 DEF Inv, SwitchHalf, Forward
  <2>2. s.kind = "drive" /\ s.to = [r \in Robots |-> txn.arg][s.at]
    BY <1>1, <2>1, RestOfPlan
  <2>3. s.at \in Robots
    BY <1>2, <2>2, StepFacts
  <2> QED
    BY <1>1, <1>2, <1>3, <1>4, <2>2, <2>3
<1>5. CASE txn.op = "restore"
  <2>1. /\ Only(txn.todo, {"part", "mark", "flush"})
        /\ To(txn.todo, "part", snapshot.content)
    BY <1>5 DEF Inv, RestoreHalf, Forward
  <2>2. /\ s.kind \in {"part", "mark", "flush"}
        /\ s.kind = "part" => s.to = snapshot.content[s.at]
    BY <1>1, <2>1, RestOfPlan
  <2> QED
    BY <1>1, <1>2, <1>3, <1>5, <2>2
<1>6. CASE txn.op = "reset" /\ WorldAhead(txn.todo) /\ resets < MaxResets
  <2>1. s.kind \in {"part", "mark", "world"}
    BY <1>1, <1>6, RestBeforeWorld
  <2> QED
    BY <1>1, <1>2, <1>3, <1>6, <2>1
<1>7. CASE txn.op = "reset" /\ Only(txn.todo, {"configure", "flush"})
  <2>1. s.kind \in {"configure", "flush"}
    BY <1>1, <1>7, RestOfPlan
  <2> QED
    BY <1>1, <1>2, <1>3, <1>7, <2>1
<1> QED
  BY <1>1, <1>4, <1>5, <1>6, <1>7 DEF Inv, ResetHalf, Forward

LEMMA ForwardWriteKeeps ==
  ASSUME Inv, ForwardWrite
  PROVE  Inv'
<1> DEFINE s == Head(txn.todo)
           rest == Tail(txn.todo)
           undo == <<s>> \o txn.undo
<1>1. /\ txn.pc = "forward" /\ txn.todo # <<>>
      /\ s.kind \in {"drive", "part"}
      /\ txn' = [txn EXCEPT !.todo = rest, !.undo = undo]
      /\ UNCHANGED <<activeMode, generation, fatal, tare, nextTare, taredAt, snapshot, resets>>
  BY DEF ForwardWrite, Reversible, Advance, modeVars, tareVars
<1>2. /\ s \in Steps /\ rest \in Seq(Steps) /\ MarkAhead(rest, txn.marked) /\ ~txn.broken
      /\ \/ txn.op = "set_mode" /\ s.kind = "drive" /\ s.to = txn.arg
         \/ txn.op = "restore" /\ s.kind = "part" /\ s.to = snapshot.content[s.at]
         \/ txn.op = "reset" /\ s.kind = "part" /\ WorldAhead(txn.todo) /\ resets < MaxResets
  <2>1. (txn.marked \/ s.kind = "mark") = txn.marked
    BY <1>1, TypedParts
  <2>2. /\ s \in Steps /\ rest \in Seq(Steps) /\ ~txn.broken
        /\ MarkAhead(rest, txn.marked \/ s.kind = "mark")
    BY <1>1, NextStep
  <2>3. MarkAhead(rest, txn.marked)
    BY <2>1, <2>2
  <2>4. \/ txn.op = "set_mode" /\ s.kind = "drive" /\ s.to = txn.arg
        \/ txn.op = "restore" /\ s.kind = "part" /\ s.to = snapshot.content[s.at]
        \/ txn.op = "reset" /\ s.kind = "part" /\ WorldAhead(txn.todo) /\ resets < MaxResets
    BY <1>1, NextStep
  <2> QED
    BY <2>2, <2>3, <2>4
<1>3. /\ undo \in Seq(Steps) /\ Has(undo, s.kind, s.at)
      /\ \A kind, x : Has(txn.undo, kind, x) => Has(undo, kind, x)
      /\ Only(undo, {"drive", "part"})
  <2>1. Only(txn.undo, {"drive", "part"})
    BY <1>1 DEF Inv, Working, InTransaction
  <2> QED
    BY <1>1, <1>2, <2>1, PutFirst, TypedParts
<1>4. /\ txn'.pc = txn.pc /\ txn'.op = txn.op /\ txn'.owner = txn.owner /\ txn'.todo = rest
      /\ txn'.undo = undo /\ txn'.marked = txn.marked /\ txn'.broken = txn.broken
      /\ txn'.saved = txn.saved /\ txn'.arg = txn.arg
      /\ TxnTyped'
  BY <1>1, <1>2, <1>3 DEF Inv, TxnTyped
<1> HIDE DEF undo, rest, s
<1>5. \/ /\ s.kind = "drive" /\ s.at \in Robots /\ s.to \in Modes
         /\ drive' = [drive EXCEPT ![s.at] = s.to]
         /\ settings' = [settings EXCEPT ![s.at] = s.to]
         /\ content' = content
      \/ /\ s.kind = "part" /\ s.at \in Parts /\ s.to \in Poses
         /\ content' = [content EXCEPT ![s.at] = s.to]
         /\ drive' = drive /\ settings' = settings
  BY <1>1, <1>2, StepFacts DEF ForwardWrite, s
<1>6. TypeOK'
  <2>1. World' \in Worlds
    BY <1>5, TypedParts DEF World, Worlds
  <2> QED
    BY <1>1, <1>4, <2>1 DEF Inv, TypeOK
<1>7. SavedAtRest' /\ Agreeing' /\ Working' /\ HybridHalf' /\ Fresh'
  BY <1>1, <1>3, <1>4
  DEF Inv, SavedAtRest, AtRest, Agreeing, Working, InTransaction, HybridHalf, Fresh
<1>8. Recoverable'
  <2>1. ASSUME ~txn.marked
        PROVE  /\ \A r \in Robots : Unchanged(r) \/ Has(txn.undo, "drive", r)
               /\ \A p \in Parts : content[p] = txn.saved.content[p] \/ Has(txn.undo, "part", p)
    BY <1>1, <1>2, <2>1 DEF Inv, Recoverable, InTransaction, Undoable
  <2>2. ASSUME ~txn.marked, NEW r \in Robots
        PROVE  Unchanged(r)' \/ Has(undo, "drive", r)
    BY <1>3, <1>4, <1>5, <2>1, <2>2, TypedParts DEF Unchanged
  <2>3. ASSUME ~txn.marked, NEW p \in Parts
        PROVE  content'[p] = txn.saved.content[p] \/ Has(undo, "part", p)
    BY <1>3, <1>5, <2>1, <2>3, TypedParts
  <2> QED
    BY <1>4, <2>2, <2>3 DEF Recoverable, Undoable
<1>9. MarkFirst'
  BY <1>2, <1>4 DEF MarkFirst
<1>10. SwitchHalf'
  <2> SUFFICES ASSUME txn.op = "set_mode" PROVE SwitchHalf'
    BY <1>4 DEF SwitchHalf, Forward
  <2>1. /\ txn.arg \in Modes \ {activeMode} /\ generation < MaxSwitches
        /\ content = txn.saved.content
        /\ Only(txn.todo, {"drive"}) /\ To(txn.todo, "drive", [r \in Robots |-> txn.arg])
        /\ \A r \in Robots : \/ drive[r] = txn.arg /\ settings[r] = txn.arg
                             \/ Has(txn.todo, "drive", r)
    BY <1>1 DEF Inv, SwitchHalf, Forward
  <2>2. Only(rest, {"drive"}) /\ To(rest, "drive", [r \in Robots |-> txn.arg])
    BY <1>1, <2>1, RestOfPlan, TypedParts DEF rest
  <2>3. ASSUME NEW r \in Robots
        PROVE  \/ drive'[r] = txn.arg /\ settings'[r] = txn.arg
               \/ Has(rest, "drive", r)
    <3>1. CASE r = s.at
      BY <1>2, <1>5, <3>1, TypedParts
    <3>2. CASE r # s.at
      <4>1. drive'[r] = drive[r] /\ settings'[r] = settings[r]
        BY <1>5, <3>2, TypedParts
      <4>2. Has(txn.todo, "drive", r) => Has(rest, "drive", r)
        BY <1>1, <3>2, RestOfPlan, TypedParts DEF rest, s
      <4> QED
        BY <2>1, <4>1, <4>2
    <3> QED
      BY <3>1, <3>2
  <2> QED
    BY <1>1, <1>2, <1>4, <1>5, <2>1, <2>2, <2>3 DEF SwitchHalf
<1>11. RestoreHalf'
  <2> SUFFICES ASSUME txn.op = "restore" PROVE RestoreHalf'
    BY <1>4 DEF RestoreHalf, Forward
  <2>1. /\ snapshot # NoSnapshot /\ snapshot.mode = activeMode
        /\ drive = txn.saved.drive /\ settings = txn.saved.settings
        /\ Only(txn.todo, {"part", "mark", "flush"}) /\ To(txn.todo, "part", snapshot.content)
        /\ \A p \in Parts : content[p] = snapshot.content[p] \/ Has(txn.todo, "part", p)
    BY <1>1 DEF Inv, RestoreHalf, Forward
  <2>2. Only(rest, {"part", "mark", "flush"}) /\ To(rest, "part", snapshot.content)
    BY <1>1, <2>1, RestOfPlan, TypedParts DEF rest
  <2>3. ASSUME NEW p \in Parts
        PROVE  content'[p] = snapshot.content[p] \/ Has(rest, "part", p)
    <3>1. CASE p = s.at
      BY <1>2, <1>5, <3>1, TypedParts
    <3>2. CASE p # s.at
      <4>1. content'[p] = content[p]
        BY <1>5, <3>2, TypedParts
      <4>2. Has(txn.todo, "part", p) => Has(rest, "part", p)
        BY <1>1, <3>2, RestOfPlan, TypedParts DEF rest, s
      <4> QED
        BY <2>1, <4>1, <4>2
    <3> QED
      BY <3>1, <3>2
  <2> QED
    BY <1>1, <1>2, <1>4, <1>5, <2>1, <2>2, <2>3 DEF RestoreHalf
<1>12. ResetHalf'
  <2> SUFFICES ASSUME txn.op = "reset" PROVE ResetHalf'
    BY <1>4 DEF ResetHalf, Forward
  <2>1. WorldAhead(rest)
    BY <1>1, <1>2, RestBeforeWorld, TypedParts DEF rest, s
  <2>2. settings' = txn.saved.settings
    BY <1>1, <1>2, <1>5 DEF Inv, ResetHalf, Forward
  <2> QED
    BY <1>1, <1>2, <1>4, <2>1, <2>2 DEF ResetHalf
<1> QED
  BY <1>4, <1>6, <1>7, <1>8, <1>9, <1>10, <1>11, <1>12 DEF Inv

(* A step that only moves on in the plan of a restore. *)
LEMMA RestoreMovesOn ==
  ASSUME Inv, txn.pc = "forward", txn.op = "restore", txn.todo # <<>>,
         Head(txn.todo).kind # "part"
  PROVE  /\ snapshot # NoSnapshot /\ snapshot.mode = activeMode
         /\ drive = txn.saved.drive /\ settings = txn.saved.settings
         /\ Only(Tail(txn.todo), {"part", "mark", "flush"})
         /\ To(Tail(txn.todo), "part", snapshot.content)
         /\ \A p \in Parts : content[p] = snapshot.content[p] \/ Has(Tail(txn.todo), "part", p)
<1>1. /\ snapshot # NoSnapshot /\ snapshot.mode = activeMode
      /\ drive = txn.saved.drive /\ settings = txn.saved.settings
      /\ Only(txn.todo, {"part", "mark", "flush"}) /\ To(txn.todo, "part", snapshot.content)
      /\ \A p \in Parts : content[p] = snapshot.content[p] \/ Has(txn.todo, "part", p)
  BY DEF Inv, RestoreHalf, Forward
<1>2. \A p \in Parts : Has(txn.todo, "part", p) => Has(Tail(txn.todo), "part", p)
  BY RestOfPlan, TypedParts
<1>3. Only(Tail(txn.todo), {"part", "mark", "flush"})
      /\ To(Tail(txn.todo), "part", snapshot.content)
  BY <1>1, RestOfPlan, TypedParts
<1> QED
  BY <1>1, <1>2, <1>3

(* The same in a reset whose world was reset. *)
LEMMA ResetMovesOn ==
  ASSUME Inv, txn.pc = "forward", txn.op = "reset", txn.todo # <<>>,
         Only(txn.todo, {"configure", "flush"})
  PROVE  /\ settings = txn.saved.settings
         /\ Only(Tail(txn.todo), {"configure", "flush"})
         /\ \A p \in Parts \ {Attachments} : content[p] = Home
         /\ \A r \in Robots : ~(Head(txn.todo).kind = "configure" /\ Head(txn.todo).at = r) =>
              drive[r] = settings[r] \/ Has(Tail(txn.todo), "configure", r)
<1>1. ~WorldAhead(txn.todo)
  BY DEF WorldAhead, Only
<1>2. /\ settings = txn.saved.settings
      /\ \A p \in Parts \ {Attachments} : content[p] = Home
      /\ \A r \in Robots : drive[r] = settings[r] \/ Has(txn.todo, "configure", r)
  BY <1>1 DEF Inv, ResetHalf, Forward
<1>3. Only(Tail(txn.todo), {"configure", "flush"})
  BY RestOfPlan, TypedParts
<1>4. \A r \in Robots : Has(txn.todo, "configure", r)
                        /\ ~(Head(txn.todo).kind = "configure" /\ Head(txn.todo).at = r)
                          => Has(Tail(txn.todo), "configure", r)
  BY RestOfPlan, TypedParts
<1> QED
  BY <1>2, <1>3, <1>4

LEMMA MarkIrreversibleKeeps ==
  ASSUME Inv, MarkIrreversible
  PROVE  Inv'
<1> DEFINE s == Head(txn.todo)
           rest == Tail(txn.todo)
<1>1. /\ txn.pc = "forward" /\ txn.todo # <<>> /\ s.kind = "mark"
      /\ txn' = [txn EXCEPT !.todo = rest, !.marked = TRUE]
      /\ UNCHANGED <<drive, settings, content, activeMode, generation, fatal,
                     tare, nextTare, taredAt, snapshot, resets>>
  BY DEF MarkIrreversible, engineVars, modeVars, tareVars
<1>2. /\ rest \in Seq(Steps) /\ ~txn.broken
      /\ \/ txn.op = "restore"
         \/ txn.op = "reset" /\ WorldAhead(txn.todo) /\ resets < MaxResets
  BY <1>1, NextStep
<1>3. MarkAhead(rest, TRUE)
  BY DEF MarkAhead
<1>4. /\ txn'.pc = txn.pc /\ txn'.op = txn.op /\ txn'.owner = txn.owner /\ txn'.todo = rest
      /\ txn'.undo = txn.undo /\ txn'.marked = TRUE /\ txn'.broken = txn.broken
      /\ txn'.saved = txn.saved /\ txn'.arg = txn.arg
      /\ TxnTyped'
  BY <1>1, <1>2 DEF Inv, TxnTyped
<1>5. TypeOK'
  BY <1>1, <1>4 DEF Inv, TypeOK, World
<1>6. SavedAtRest' /\ Agreeing' /\ Working' /\ Recoverable' /\ HybridHalf'
  BY <1>1, <1>4
  DEF Inv, SavedAtRest, AtRest, Agreeing, Working, InTransaction, Recoverable, HybridHalf
<1>7. MarkFirst' /\ SwitchHalf'
  BY <1>1, <1>2, <1>3, <1>4 DEF MarkFirst, SwitchHalf, Forward
<1>8. Fresh'
  BY <1>1, <1>2, <1>4 DEF Inv, Fresh
<1>9. RestoreHalf'
  <2> SUFFICES ASSUME txn.op = "restore" PROVE RestoreHalf'
    BY <1>4 DEF RestoreHalf, Forward
  <2> QED
    BY <1>1, <1>4, RestoreMovesOn DEF RestoreHalf
<1>10. ResetHalf'
  <2> SUFFICES ASSUME txn.op = "reset" PROVE ResetHalf'
    BY <1>4 DEF ResetHalf, Forward
  <2>1. WorldAhead(rest)
    BY <1>1, <1>2, RestBeforeWorld, TypedParts
  <2>2. settings = txn.saved.settings
    BY <1>1 DEF Inv, ResetHalf, Forward
  <2> QED
    BY <1>1, <1>2, <1>4, <2>1, <2>2 DEF ResetHalf
<1> QED
  BY <1>4, <1>5, <1>6, <1>7, <1>8, <1>9, <1>10 DEF Inv

LEMMA ResetWorldKeeps ==
  ASSUME Inv, ResetWorld
  PROVE  Inv'
<1> DEFINE s == Head(txn.todo)
           rest == Tail(txn.todo)
<1>1. /\ txn.pc = "forward" /\ txn.todo # <<>> /\ s.kind = "world"
      /\ txn' = [txn EXCEPT !.todo = rest, !.undo = txn.undo]
      /\ content' = [p \in Parts |-> IF p = Attachments THEN content[p] ELSE Home]
      /\ drive' = [r \in Robots |-> Default]
      /\ resets' = resets + 1
      /\ UNCHANGED <<settings, activeMode, generation, fatal, tare, nextTare, taredAt, snapshot>>
  BY DEF ResetWorld, Advance, modeVars, tareVars
<1>2. /\ rest \in Seq(Steps) /\ ~txn.broken /\ txn.marked
      /\ txn.op = "reset" /\ WorldAhead(txn.todo) /\ resets < MaxResets
  BY <1>1, NextStep
<1>3. MarkAhead(rest, TRUE)
  BY DEF MarkAhead
<1>4. /\ txn'.pc = txn.pc /\ txn'.op = txn.op /\ txn'.owner = txn.owner /\ txn'.todo = rest
      /\ txn'.undo = txn.undo /\ txn'.marked = txn.marked /\ txn'.broken = txn.broken
      /\ txn'.saved = txn.saved /\ txn'.arg = txn.arg
      /\ TxnTyped'
  BY <1>1, <1>2 DEF Inv, TxnTyped
<1>5. TypeOK'
  <2>1. World' \in Worlds
    BY <1>1, TypedParts, MutationAssumption DEF World, Worlds
  <2>2. resets' \in 0 .. MaxResets
    BY <1>1, <1>2, MutationAssumption DEF Inv, TypeOK
  <2> QED
    BY <1>1, <1>4, <2>1, <2>2 DEF Inv, TypeOK
<1>6. SavedAtRest' /\ Agreeing' /\ Working' /\ Recoverable' /\ HybridHalf'
  BY <1>1, <1>2, <1>4
  DEF Inv, SavedAtRest, AtRest, Agreeing, Working, InTransaction, Recoverable, HybridHalf
<1>7. MarkFirst' /\ SwitchHalf' /\ RestoreHalf' /\ Fresh'
  <2>1. MarkAhead(rest, txn.marked)
    BY <1>2 DEF MarkAhead
  <2> QED
    BY <1>1, <1>2, <1>4, <2>1 DEF MarkFirst, SwitchHalf, RestoreHalf, Fresh, Forward
<1>8. ResetHalf'
  <2>1. Only(rest, {"configure", "flush"}) /\ \A r \in Robots : Has(rest, "configure", r)
    BY <1>1, <1>2, RestBeforeWorld, TypedParts
  <2>2. \A p \in Parts \ {Attachments} : content'[p] = Home
    BY <1>1
  <2>3. settings' = txn'.saved.settings
    BY <1>1, <1>2, <1>4 DEF Inv, ResetHalf, Forward
  <2> QED
    BY <1>4, <2>1, <2>2, <2>3 DEF ResetHalf
<1> QED
  BY <1>4, <1>5, <1>6, <1>7, <1>8 DEF Inv

LEMMA ConfigureRobotKeeps ==
  ASSUME Inv, ConfigureRobot
  PROVE  Inv'
<1> DEFINE s == Head(txn.todo)
           rest == Tail(txn.todo)
<1>1. /\ txn.pc = "forward" /\ txn.todo # <<>> /\ s.kind = "configure"
      /\ txn' = [txn EXCEPT !.todo = rest, !.undo = txn.undo]
      /\ drive' = [drive EXCEPT ![s.at] = settings[s.at]]
      /\ UNCHANGED <<settings, content, activeMode, generation, fatal,
                     tare, nextTare, taredAt, snapshot, resets>>
  BY DEF ConfigureRobot, Advance, modeVars, tareVars
<1>2. /\ s \in Steps /\ rest \in Seq(Steps) /\ ~txn.broken /\ txn.marked
      /\ txn.op = "reset" /\ Only(txn.todo, {"configure", "flush"})
  BY <1>1, NextStep
<1>3. s.at \in Robots
  BY <1>1, <1>2, StepFacts
<1>4. /\ txn'.pc = txn.pc /\ txn'.op = txn.op /\ txn'.owner = txn.owner /\ txn'.todo = rest
      /\ txn'.undo = txn.undo /\ txn'.marked = txn.marked /\ txn'.broken = txn.broken
      /\ txn'.saved = txn.saved /\ txn'.arg = txn.arg
      /\ TxnTyped'
  BY <1>1, <1>2 DEF Inv, TxnTyped
<1>5. TypeOK'
  <2>1. World' \in Worlds
    BY <1>1, <1>3, TypedParts DEF World, Worlds
  <2> QED
    BY <1>1, <1>4, <2>1 DEF Inv, TypeOK
<1>6. SavedAtRest' /\ Agreeing' /\ Working' /\ Recoverable' /\ HybridHalf'
  BY <1>1, <1>2, <1>4
  DEF Inv, SavedAtRest, AtRest, Agreeing, Working, InTransaction, Recoverable, HybridHalf
<1>7. MarkFirst' /\ SwitchHalf' /\ RestoreHalf' /\ Fresh'
  <2>1. MarkAhead(rest, txn.marked)
    BY <1>2 DEF MarkAhead
  <2> QED
    BY <1>1, <1>2, <1>4, <2>1 DEF Inv, MarkFirst, SwitchHalf, RestoreHalf, Fresh, Forward
<1>8. ResetHalf'
  <2>1. /\ settings = txn.saved.settings /\ Only(rest, {"configure", "flush"})
        /\ \A p \in Parts \ {Attachments} : content[p] = Home
        /\ \A r \in Robots \ {s.at} : drive[r] = settings[r] \/ Has(rest, "configure", r)
    BY <1>1, <1>2, ResetMovesOn
  <2>2. \A r \in Robots : drive'[r] = settings[r] \/ Has(rest, "configure", r)
    BY <1>1, <1>3, <2>1, TypedParts
  <2> QED
    BY <1>1, <1>4, <2>1, <2>2 DEF ResetHalf
<1> QED
  BY <1>4, <1>5, <1>6, <1>7, <1>8 DEF Inv

LEMMA FlushCachesKeeps ==
  ASSUME Inv, FlushCaches
  PROVE  Inv'
<1> DEFINE s == Head(txn.todo)
           rest == Tail(txn.todo)
<1>1. /\ txn.pc = "forward" /\ txn.todo # <<>> /\ s.kind = "flush"
      /\ txn' = [txn EXCEPT !.todo = rest, !.undo = txn.undo]
      /\ UNCHANGED <<drive, settings, content, activeMode, generation, fatal,
                     tare, nextTare, taredAt, snapshot, resets>>
  BY DEF FlushCaches, Advance, engineVars, modeVars, tareVars
<1>2. /\ rest \in Seq(Steps) /\ ~txn.broken /\ txn.marked
      /\ \/ txn.op = "restore"
         \/ txn.op = "reset" /\ Only(txn.todo, {"configure", "flush"})
  BY <1>1, NextStep
<1>4. /\ txn'.pc = txn.pc /\ txn'.op = txn.op /\ txn'.owner = txn.owner /\ txn'.todo = rest
      /\ txn'.undo = txn.undo /\ txn'.marked = txn.marked /\ txn'.broken = txn.broken
      /\ txn'.saved = txn.saved /\ txn'.arg = txn.arg
      /\ TxnTyped'
  BY <1>1, <1>2 DEF Inv, TxnTyped
<1>5. TypeOK'
  BY <1>1, <1>4 DEF Inv, TypeOK, World
<1>6. SavedAtRest' /\ Agreeing' /\ Working' /\ Recoverable' /\ HybridHalf'
  BY <1>1, <1>2, <1>4
  DEF Inv, SavedAtRest, AtRest, Agreeing, Working, InTransaction, Recoverable, HybridHalf
<1>7. MarkFirst' /\ SwitchHalf' /\ Fresh'
  <2>1. MarkAhead(rest, txn.marked)
    BY <1>2 DEF MarkAhead
  <2> QED
    BY <1>1, <1>2, <1>4, <2>1 DEF Inv, MarkFirst, SwitchHalf, Fresh, Forward
<1>8. RestoreHalf'
  <2> SUFFICES ASSUME txn.op = "restore" PROVE RestoreHalf'
    BY <1>4 DEF RestoreHalf, Forward
  <2> QED
    BY <1>1, <1>4, RestoreMovesOn DEF RestoreHalf
<1>9. ResetHalf'
  <2> SUFFICES ASSUME txn.op = "reset" PROVE ResetHalf'
    BY <1>4 DEF ResetHalf, Forward
  <2>1. /\ settings = txn.saved.settings /\ Only(rest, {"configure", "flush"})
        /\ \A p \in Parts \ {Attachments} : content[p] = Home
        /\ \A r \in Robots : drive[r] = settings[r] \/ Has(rest, "configure", r)
    BY <1>1, <1>2, ResetMovesOn
  <2> QED
    BY <1>1, <1>4, <2>1 DEF ResetHalf
<1> QED
  BY <1>4, <1>5, <1>6, <1>7, <1>8, <1>9 DEF Inv

(* Whatever a refused drive write left is typed and concerns one robot. *)
LEMMA RaisedDrive ==
  ASSUME Inv, NEW r \in Robots, NEW mode \in Modes \cup {Hybrid}, DriveWriteRaises(r, mode)
  PROVE  /\ World' \in Worlds /\ content' = content
         /\ \A q \in Robots \ {r} : drive'[q] = drive[q] /\ settings'[q] = settings[q]
BY TypedParts DEF DriveWriteRaises, World, Worlds

LEMMA ForwardRaisesKeeps ==
  ASSUME Inv, ForwardRaises
  PROVE  Inv'
<1> DEFINE s == Head(txn.todo)
           undo == IF Reversible(s) THEN <<s>> \o txn.undo ELSE txn.undo
<1>1. /\ txn.pc = "forward" /\ txn.todo # <<>> /\ s.kind # "mark"
      /\ txn' = [txn EXCEPT !.pc = "rollback", !.todo = <<>>, !.undo = undo]
      /\ UNCHANGED <<activeMode, generation, fatal, tare, nextTare, taredAt, snapshot>>
  BY DEF ForwardRaises, modeVars, tareVars
<1>2. /\ s \in Steps /\ ~txn.broken
      /\ s.kind \in {"world", "configure", "flush"} => txn.marked
      /\ s.kind = "world" => txn.op = "reset" /\ resets < MaxResets
  BY <1>1, NextStep
<1>3. s.kind \in {"drive", "part", "world", "configure", "flush"}
  BY <1>1, <1>2, StepFacts DEF Kinds
<1>4. /\ undo \in Seq(Steps) /\ Only(undo, {"drive", "part"})
      /\ s.kind \in {"drive", "part"} => Has(undo, s.kind, s.at)
      /\ \A kind, x : Has(txn.undo, kind, x) => Has(undo, kind, x)
  <2>1. txn.undo \in Seq(Steps) /\ Only(txn.undo, {"drive", "part"})
    BY <1>1, TypedParts DEF Inv, Working, InTransaction
  <2>2. CASE Reversible(s)
    <3>1. undo = <<s>> \o txn.undo /\ s.kind \in {"drive", "part"}
      BY <2>2 DEF Reversible
    <3> QED
      BY <1>2, <2>1, <3>1, PutFirst
  <2>3. CASE ~Reversible(s)
    <3>1. undo = txn.undo /\ s.kind \notin {"drive", "part"}
      BY <2>3 DEF Reversible
    <3> QED
      BY <2>1, <3>1
  <2> QED
    BY <2>2, <2>3
<1> HIDE DEF undo
<1>5. /\ txn'.pc = "rollback" /\ txn'.op = txn.op /\ txn'.owner = txn.owner
      /\ txn'.undo = undo /\ txn'.marked = txn.marked /\ txn'.broken = txn.broken
      /\ txn'.saved = txn.saved
      /\ TxnTyped'
  <2>1. <<>> \in Seq(Steps)
    BY EmptySeq
  <2> QED
    BY <1>1, <1>4, <2>1 DEF Inv, TxnTyped
<1> HIDE DEF s
<1> DEFINE Left ==
      /\ World' \in Worlds /\ Recoverable'
      /\ \/ resets' = resets
         \/ resets' = resets + 1 /\ txn.op = "reset" /\ txn.marked /\ resets < MaxResets
(* What was left of the engine, by the kind of the step that raised. *)
<1>6. ASSUME s.kind = "drive"
      PROVE  Left
  <2>1. s.at \in Robots /\ s.to \in Modes
    BY <1>2, <1>6, StepFacts
  <2>2. DriveWriteRaises(s.at, s.to) /\ resets' = resets
    BY <1>6 DEF ForwardRaises, s
  <2>3. /\ World' \in Worlds /\ content' = content
        /\ \A q \in Robots \ {s.at} : drive'[q] = drive[q] /\ settings'[q] = settings[q]
    BY <2>1, <2>2, RaisedDrive
  <2>4. Recoverable'
    <3>1. ASSUME ~txn.marked
          PROVE  /\ \A r \in Robots : Unchanged(r) \/ Has(txn.undo, "drive", r)
                 /\ \A p \in Parts : content[p] = txn.saved.content[p] \/ Has(txn.undo, "part", p)
      BY <1>1, <1>2, <3>1 DEF Inv, Recoverable, InTransaction, Undoable
    <3>2. ASSUME ~txn.marked, NEW r \in Robots
          PROVE  Unchanged(r)' \/ Has(undo, "drive", r)
      BY <1>4, <1>5, <1>6, <2>3, <3>1, <3>2 DEF Unchanged
    <3>3. ASSUME ~txn.marked, NEW p \in Parts
          PROVE  content'[p] = txn.saved.content[p] \/ Has(undo, "part", p)
      BY <1>4, <2>3, <3>1, <3>3
    <3> QED
      BY <1>5, <3>2, <3>3 DEF Recoverable, Undoable
  <2> QED
    BY <2>2, <2>3, <2>4
<1>7. ASSUME s.kind = "part"
      PROVE  Left
  <2>1. s.at \in Parts
    BY <1>2, <1>7, StepFacts
  <2>2. /\ content' = [content EXCEPT ![s.at] = Torn]
        /\ drive' = drive /\ settings' = settings /\ resets' = resets
    BY <1>7 DEF ForwardRaises, s
  <2>3. World' \in Worlds
    BY <2>1, <2>2, TypedParts DEF World, Worlds
  <2>4. Recoverable'
    <3>1. ASSUME ~txn.marked
          PROVE  /\ \A r \in Robots : Unchanged(r) \/ Has(txn.undo, "drive", r)
                 /\ \A p \in Parts : content[p] = txn.saved.content[p] \/ Has(txn.undo, "part", p)
      BY <1>1, <1>2, <3>1 DEF Inv, Recoverable, InTransaction, Undoable
    <3>2. ASSUME ~txn.marked, NEW r \in Robots
          PROVE  Unchanged(r)' \/ Has(undo, "drive", r)
      BY <1>4, <1>5, <2>2, <3>1, <3>2 DEF Unchanged
    <3>3. ASSUME ~txn.marked, NEW p \in Parts
          PROVE  content'[p] = txn.saved.content[p] \/ Has(undo, "part", p)
      BY <1>4, <1>7, <2>1, <2>2, <3>1, <3>3, TypedParts
    <3> QED
      BY <1>5, <3>2, <3>3 DEF Recoverable, Undoable
  <2> QED
    BY <2>2, <2>3, <2>4
<1>8. ASSUME s.kind = "world"
      PROVE  Left
  <2>1. /\ drive' = [r \in Robots |-> Torn]
        /\ content' = [p \in Parts |-> IF p = Attachments THEN content[p] ELSE Torn]
        /\ resets' = resets + 1 /\ settings' = settings
    BY <1>8 DEF ForwardRaises, s
  <2>2. World' \in Worlds
    BY <2>1, TypedParts DEF World, Worlds
  <2>3. Recoverable'
    BY <1>2, <1>5, <1>8 DEF Recoverable
  <2> QED
    BY <1>2, <1>8, <2>1, <2>2, <2>3
<1>9. ASSUME s.kind = "configure"
      PROVE  Left
  <2>1. /\ drive' = [drive EXCEPT ![s.at] = Torn]
        /\ settings' = settings /\ content' = content /\ resets' = resets
    BY <1>9 DEF ForwardRaises, s
  <2>2. World' \in Worlds
    BY <2>1, TypedParts DEF World, Worlds
  <2>3. Recoverable'
    BY <1>2, <1>5, <1>9 DEF Recoverable
  <2> QED
    BY <2>1, <2>2, <2>3
<1>10. ASSUME s.kind = "flush"
      PROVE  Left
  <2>1. /\ drive' = drive /\ settings' = settings /\ content' = content /\ resets' = resets
    BY <1>10 DEF ForwardRaises, s, engineVars
  <2>2. World' \in Worlds
    BY <2>1 DEF Inv, TypeOK, World
  <2>3. Recoverable'
    BY <1>2, <1>5, <1>10 DEF Recoverable
  <2> QED
    BY <2>1, <2>2, <2>3
<1>11. Left
  BY <1>3, <1>6, <1>7, <1>8, <1>9, <1>10
<1>12. TypeOK'
  <2>1. resets' \in 0 .. MaxResets
    BY <1>11, MutationAssumption DEF Inv, TypeOK
  <2> QED
    BY <1>1, <1>5, <1>11, <2>1 DEF Inv, TypeOK
<1>13. /\ SavedAtRest' /\ Agreeing' /\ Working' /\ MarkFirst'
       /\ SwitchHalf' /\ RestoreHalf' /\ ResetHalf' /\ HybridHalf'
  BY <1>1, <1>2, <1>4, <1>5
  DEF Inv, SavedAtRest, AtRest, Agreeing, Working, InTransaction, MarkFirst,
      SwitchHalf, RestoreHalf, ResetHalf, HybridHalf, Forward
<1>14. Fresh'
  BY <1>1, <1>5, <1>11 DEF Inv, Fresh
<1> QED
  BY <1>5, <1>11, <1>12, <1>13, <1>14 DEF Inv

LEMMA RollbackStepKeeps ==
  ASSUME Inv, RollbackStep
  PROVE  Inv'
<1> DEFINE s == Head(txn.undo)
           rest == Tail(txn.undo)
<1>1. /\ txn.pc = "rollback" /\ txn.undo # <<>>
      /\ UNCHANGED <<activeMode, generation, fatal, tare, nextTare, taredAt, snapshot, resets>>
  BY DEF RollbackStep, modeVars, tareVars
<1>2. /\ s \in Steps /\ rest \in Seq(Steps)
      /\ s.kind \in {"drive", "part"} /\ Only(rest, {"drive", "part"})
      /\ \A kind, x : Has(txn.undo, kind, x) /\ ~(s.kind = kind /\ s.at = x) => Has(rest, kind, x)
  <2>1. txn.undo \in Seq(Steps) /\ Only(txn.undo, {"drive", "part"})
    BY <1>1, TypedParts DEF Inv, Working, InTransaction
  <2> QED
    BY <1>1, <2>1, RestOfPlan
<1>3. /\ s.kind = "drive" => s.at \in Robots
      /\ s.kind = "part" => s.at \in Parts
  BY <1>2, StepFacts
<1> HIDE DEF s, rest
<1>4. \/ /\ txn' = [txn EXCEPT !.undo = rest]
         /\ \/ /\ s.kind = "drive"
               /\ drive' = [drive EXCEPT ![s.at] = txn.saved.drive[s.at]]
               /\ settings' = [settings EXCEPT ![s.at] = txn.saved.settings[s.at]]
               /\ content' = content
            \/ /\ s.kind = "part"
               /\ content' = [content EXCEPT ![s.at] = txn.saved.content[s.at]]
               /\ drive' = drive /\ settings' = settings
      \/ /\ txn' = [txn EXCEPT !.undo = rest, !.broken = TRUE]
         /\ \/ s.kind = "drive" /\ DriveWriteRaises(s.at, txn.saved.settings[s.at])
            \/ /\ s.kind = "part"
               /\ content' = [content EXCEPT ![s.at] = Torn]
               /\ drive' = drive /\ settings' = settings
  BY <1>2 DEF RollbackStep, s, rest
<1>5. /\ txn'.pc = txn.pc /\ txn'.op = txn.op /\ txn'.owner = txn.owner
      /\ txn'.undo = rest /\ txn'.marked = txn.marked /\ txn'.saved = txn.saved
      /\ TxnTyped'
      /\ \/ txn'.broken = TRUE
         \/ txn'.broken = txn.broken /\ txn' = [txn EXCEPT !.undo = rest]
  BY <1>2, <1>4 DEF Inv, TxnTyped
<1>6. World' \in Worlds
  <2>1. CASE s.kind = "drive" /\ DriveWriteRaises(s.at, txn.saved.settings[s.at])
    <3>1. txn.saved.settings[s.at] \in Modes \cup {Hybrid}
      BY <1>3, <2>1, TypedParts
    <3> QED
      BY <1>3, <2>1, <3>1, RaisedDrive
  <2>2. CASE /\ s.kind = "drive"
             /\ drive' = [drive EXCEPT ![s.at] = txn.saved.drive[s.at]]
             /\ settings' = [settings EXCEPT ![s.at] = txn.saved.settings[s.at]]
             /\ content' = content
    BY <1>3, <2>2, TypedParts DEF World, Worlds
  <2>3. CASE /\ s.kind = "part" /\ drive' = drive /\ settings' = settings
             /\ content' \in {[content EXCEPT ![s.at] = txn.saved.content[s.at]],
                             [content EXCEPT ![s.at] = Torn]}
    <3>1. content' \in [Parts -> Poses \cup {Torn}]
      BY <1>3, <2>3, TypedParts
    <3> QED
      BY <2>3, <3>1, TypedParts DEF World, Worlds
  <2> QED
    BY <1>4, <2>1, <2>2, <2>3
<1>7. TypeOK'
  BY <1>1, <1>5, <1>6 DEF Inv, TypeOK
<1>8. /\ SavedAtRest' /\ Agreeing' /\ Working' /\ MarkFirst' /\ Fresh'
      /\ SwitchHalf' /\ RestoreHalf' /\ ResetHalf' /\ HybridHalf'
  BY <1>1, <1>2, <1>5
  DEF Inv, SavedAtRest, AtRest, Agreeing, Working, InTransaction, MarkFirst, Fresh,
      SwitchHalf, RestoreHalf, ResetHalf, HybridHalf, Forward
<1>9. Recoverable'
  <2> SUFFICES ASSUME ~txn.marked, ~txn'.broken
               PROVE  /\ \A r \in Robots : Unchanged(r)' \/ Has(rest, "drive", r)
                      /\ \A p \in Parts : content'[p] = txn.saved.content[p] \/ Has(rest, "part", p)
    BY <1>5 DEF Recoverable, Undoable
  <2>1. ~txn.broken
    BY <1>5
  <2>2. /\ \A r \in Robots : Unchanged(r) \/ Has(txn.undo, "drive", r)
        /\ \A p \in Parts : content[p] = txn.saved.content[p] \/ Has(txn.undo, "part", p)
    BY <1>1, <2>1 DEF Inv, Recoverable, InTransaction, Undoable
  <2>3. \/ /\ s.kind = "drive"
           /\ drive' = [drive EXCEPT ![s.at] = txn.saved.drive[s.at]]
           /\ settings' = [settings EXCEPT ![s.at] = txn.saved.settings[s.at]]
           /\ content' = content
        \/ /\ s.kind = "part"
           /\ content' = [content EXCEPT ![s.at] = txn.saved.content[s.at]]
           /\ drive' = drive /\ settings' = settings
    <3>1. txn' # [txn EXCEPT !.undo = rest, !.broken = TRUE]
      BY DEF Inv, TxnTyped
    <3> QED
      BY <1>4, <3>1
  <2>4. ASSUME NEW r \in Robots
        PROVE  Unchanged(r)' \/ Has(rest, "drive", r)
    BY <1>2, <1>3, <1>5, <2>2, <2>3, TypedParts DEF Unchanged
  <2>5. ASSUME NEW p \in Parts
        PROVE  content'[p] = txn.saved.content[p] \/ Has(rest, "part", p)
    BY <1>2, <1>3, <2>2, <2>3, TypedParts
  <2> QED
    BY <2>4, <2>5
<1> QED
  BY <1>5, <1>7, <1>8, <1>9 DEF Inv

-----------------------------------------------------------------------------
(* The ends of operations *)

Settled == AtRest /\ txn.op = "none" /\ txn.saved = World

LEMMA RestSettles ==
  ASSUME Rest, World' \in Worlds
  PROVE  /\ Settled' /\ TxnTyped' /\ SavedAtRest' /\ Working' /\ Recoverable' /\ MarkFirst'
         /\ SwitchHalf' /\ RestoreHalf' /\ ResetHalf' /\ HybridHalf'
         /\ txn'.pc = "rest" /\ txn'.owner = "runtime" /\ txn'.saved \in Worlds
<1>1. txn' = [pc |-> "rest", op |-> "none", owner |-> "runtime", todo |-> <<>>,
              undo |-> <<>>, marked |-> FALSE, broken |-> FALSE, saved |-> World', arg |-> 0]
  BY DEF Rest, RestingFrom, World
<1>2. <<>> \in Seq(Steps)
  BY EmptySeq
<1>3. TxnTyped'
  BY <1>1, <1>2 DEF TxnTyped, Owners
<1>4. Settled'
  BY <1>1 DEF Settled, AtRest
<1> QED
  BY <1>1, <1>3, <1>4
  DEF SavedAtRest, AtRest, Working, Recoverable, MarkFirst, SwitchHalf, RestoreHalf,
      ResetHalf, HybridHalf, InTransaction, Forward

(* What is left to show of a step that ends an operation. *)
LEMMA RestKeeps ==
  ASSUME Inv, Rest, World' \in Worlds,
         activeMode' \in Modes, generation' \in 0 .. MaxSwitches, fatal' \subseteq Owners,
         UNCHANGED <<snapshot, resets>>,
         nextTare' \in 1 .. MaxTares + 1, tare' \in [Robots -> 0 .. nextTare' - 1],
         taredAt' \in [1 .. MaxTares -> 0 .. MaxResets],
         fatal' = {} => \A r \in Robots : drive'[r] = activeMode' /\ settings'[r] = activeMode',
         "resources" \notin fatal' =>
           \A r \in Robots : tare'[r] # 0 => taredAt'[tare'[r]] = resets
  PROVE  Inv'
<1>1. /\ Settled' /\ TxnTyped' /\ SavedAtRest' /\ Working' /\ Recoverable' /\ MarkFirst'
      /\ SwitchHalf' /\ RestoreHalf' /\ ResetHalf' /\ HybridHalf'
      /\ txn'.pc = "rest" /\ txn'.owner = "runtime" /\ txn'.saved \in Worlds
  BY RestSettles
<1>2. TypeOK'
  BY <1>1 DEF Inv, TypeOK, Owners
<1>3. Agreeing'
  BY <1>1 DEF Agreeing, Settled, World
<1>4. Fresh'
  BY DEF Fresh
<1> QED
  BY <1>1, <1>2, <1>3, <1>4 DEF Inv

(* A transaction without a mark and a broken compensation is undone. *)
LEMMA Undone ==
  ASSUME Inv, txn.pc = "rollback", txn.undo = <<>>, ~txn.broken, ~txn.marked
  PROVE  drive = txn.saved.drive /\ settings = txn.saved.settings /\ content = txn.saved.content
<1>1. \A kind, x : ~Has(txn.undo, kind, x)
  BY DEF Has
<1>2. /\ \A r \in Robots : drive[r] = txn.saved.drive[r] /\ settings[r] = txn.saved.settings[r]
      /\ \A p \in Parts : content[p] = txn.saved.content[p]
  BY <1>1 DEF Inv, Recoverable, InTransaction, Undoable, Unchanged
<1> QED
  BY <1>2, TypedParts

LEMMA StillFresh ==
  ASSUME Inv, ~(txn.op = "reset" /\ txn.marked), "resources" \notin fatal
  PROVE  \A r \in Robots : tare[r] # 0 => taredAt[tare[r]] = resets
BY DEF Inv, Fresh

LEMMA EndRollbackKeeps ==
  ASSUME Inv, EndRollback
  PROVE  Inv'
<1>1. /\ txn.pc = "rollback" /\ txn.undo = <<>> /\ Rest
      /\ fatal' = IF txn.broken \/ txn.marked THEN fatal \cup {txn.owner} ELSE fatal
      /\ UNCHANGED <<drive, settings, content, activeMode, generation, tare, nextTare,
                     taredAt, snapshot, resets>>
  BY DEF EndRollback, engineVars, modeVars, tareVars
<1>2. /\ txn.owner = (IF txn.op = "set_mode" THEN "runtime" ELSE "resources")
      /\ txn.owner \in Owners /\ fatal \subseteq Owners
  BY <1>1 DEF Inv, Working, InTransaction, TypeOK
<1>3. World' \in Worlds /\ fatal' \subseteq Owners
  BY <1>1, <1>2 DEF Inv, TypeOK, World
<1>4. fatal' = {} => \A r \in Robots : drive'[r] = activeMode' /\ settings'[r] = activeMode'
  <2> SUFFICES ASSUME fatal' = {}
               PROVE  \A r \in Robots : drive[r] = activeMode /\ settings[r] = activeMode
    BY <1>1
  <2>1. fatal = {} /\ ~txn.broken /\ ~txn.marked
    BY <1>1
  <2> QED
    BY <1>1, <2>1, Undone DEF Inv, Agreeing
<1>5. "resources" \notin fatal' =>
        \A r \in Robots : tare'[r] # 0 => taredAt'[tare'[r]] = resets
  BY <1>1, <1>2, StillFresh
<1>6. /\ activeMode' \in Modes /\ generation' \in 0 .. MaxSwitches
      /\ nextTare' \in 1 .. MaxTares + 1 /\ tare' \in [Robots -> 0 .. nextTare' - 1]
      /\ taredAt' \in [1 .. MaxTares -> 0 .. MaxResets]
  BY <1>1 DEF Inv, TypeOK
<1> QED
  BY <1>1, <1>3, <1>4, <1>5, <1>6, RestKeeps

LEMMA CommitSetModeKeeps ==
  ASSUME Inv, CommitSetMode
  PROVE  Inv'
<1>1. /\ txn.pc = "forward" /\ txn.todo = <<>> /\ txn.op = "set_mode" /\ Rest
      /\ activeMode' = txn.arg /\ generation' = generation + 1
      /\ UNCHANGED <<drive, settings, content, fatal, tare, nextTare, taredAt, snapshot, resets>>
  BY DEF CommitSetMode, engineVars, tareVars
<1>2. \A r : ~Has(txn.todo, "drive", r)
  BY <1>1 DEF Has
<1>3. /\ txn.arg \in Modes /\ generation < MaxSwitches
      /\ \A r \in Robots : drive[r] = txn.arg /\ settings[r] = txn.arg
  BY <1>1, <1>2 DEF Inv, SwitchHalf, Forward
<1>4. World' \in Worlds /\ generation' \in 0 .. MaxSwitches
  BY <1>1, <1>3, MutationAssumption DEF Inv, TypeOK, World
<1>5. "resources" \notin fatal => \A r \in Robots : tare[r] # 0 => taredAt[tare[r]] = resets
  BY <1>1, StillFresh
<1>6. /\ fatal' \subseteq Owners
      /\ nextTare' \in 1 .. MaxTares + 1 /\ tare' \in [Robots -> 0 .. nextTare' - 1]
      /\ taredAt' \in [1 .. MaxTares -> 0 .. MaxResets]
  BY <1>1 DEF Inv, TypeOK
<1> QED
  BY <1>1, <1>3, <1>4, <1>5, <1>6, RestKeeps

LEMMA CommitRestoreKeeps ==
  ASSUME Inv, CommitRestore
  PROVE  Inv'
<1>1. /\ txn.pc = "forward" /\ txn.todo = <<>> /\ txn.op = "restore" /\ Rest
      /\ UNCHANGED <<drive, settings, content, activeMode, generation, fatal,
                     tare, nextTare, taredAt, snapshot, resets>>
  BY DEF CommitRestore, engineVars, modeVars, tareVars
<1>2. drive = txn.saved.drive /\ settings = txn.saved.settings
  BY <1>1 DEF Inv, RestoreHalf, Forward
<1>3. fatal = {} => \A r \in Robots : drive[r] = activeMode /\ settings[r] = activeMode
  BY <1>2 DEF Inv, Agreeing
<1>4. World' \in Worlds
  BY <1>1 DEF Inv, TypeOK, World
<1>5. "resources" \notin fatal => \A r \in Robots : tare[r] # 0 => taredAt[tare[r]] = resets
  BY <1>1, StillFresh
<1>6. /\ activeMode' \in Modes /\ generation' \in 0 .. MaxSwitches /\ fatal' \subseteq Owners
      /\ nextTare' \in 1 .. MaxTares + 1 /\ tare' \in [Robots -> 0 .. nextTare' - 1]
      /\ taredAt' \in [1 .. MaxTares -> 0 .. MaxResets]
  BY <1>1 DEF Inv, TypeOK
<1> QED
  BY <1>1, <1>3, <1>4, <1>5, <1>6, RestKeeps

(* The drives a finished reset leaves are those of the settings before it. *)
LEMMA ResetDone ==
  ASSUME Inv, Forward("reset"), txn.todo = <<>>
  PROVE  /\ settings = txn.saved.settings /\ drive = settings
         /\ \A p \in Parts \ {Attachments} : content[p] = Home
<1>1. ~WorldAhead(txn.todo) /\ \A r : ~Has(txn.todo, "configure", r)
  BY DEF WorldAhead, Has
<1>2. /\ settings = txn.saved.settings
      /\ \A p \in Parts \ {Attachments} : content[p] = Home
      /\ \A r \in Robots : drive[r] = settings[r]
  BY <1>1 DEF Inv, ResetHalf
<1> QED
  BY <1>2, TypedParts

LEMMA CommitResetKeeps ==
  ASSUME Inv, CommitReset
  PROVE  Inv'
<1>1. /\ txn.pc = "forward" /\ txn.todo = <<>> /\ txn.op = "reset" /\ Rest
      /\ content' = [content EXCEPT ![Attachments] = Home]
      /\ tare' = [r \in Robots |-> 0]
      /\ UNCHANGED <<drive, settings, activeMode, generation, fatal, nextTare, taredAt,
                     snapshot, resets>>
  BY DEF CommitReset, modeVars
<1>2. settings = txn.saved.settings /\ drive = settings
  BY <1>1, ResetDone DEF Forward
<1>3. fatal = {} => \A r \in Robots : drive[r] = activeMode /\ settings[r] = activeMode
  BY <1>2 DEF Inv, Agreeing
<1>4. World' \in Worlds
  BY <1>1, TypedParts, MutationAssumption DEF World, Worlds
<1>5. /\ activeMode' \in Modes /\ generation' \in 0 .. MaxSwitches /\ fatal' \subseteq Owners
      /\ nextTare' \in 1 .. MaxTares + 1 /\ taredAt' \in [1 .. MaxTares -> 0 .. MaxResets]
      /\ tare' \in [Robots -> 0 .. nextTare' - 1]
  BY <1>1, MutationAssumption DEF Inv, TypeOK
<1>6. \A r \in Robots : tare'[r] = 0
  BY <1>1
<1> QED
  BY <1>1, <1>3, <1>4, <1>5, <1>6, RestKeeps

-----------------------------------------------------------------------------
(* The begins of operations, and those that are one step *)

LEMMA BeginTxn ==
  ASSUME Inv, NEW op \in {"set_mode", "restore", "reset"},
         NEW plan \in Seq(Steps), NEW arg \in Modes \cup Nat, NEW owner,
         owner = (IF op = "set_mode" THEN "runtime" ELSE "resources"),
         BeginTransaction(op, owner, plan, arg), MarkAhead(plan, FALSE)
  PROVE  /\ AtRest /\ owner \notin fatal
         /\ UNCHANGED <<drive, settings, content, activeMode, generation, fatal,
                        tare, nextTare, taredAt, snapshot, resets>>
         /\ txn'.pc = "forward" /\ txn'.op = op /\ txn'.owner = owner /\ txn'.todo = plan
         /\ txn'.arg = arg /\ ~txn'.marked /\ txn'.saved = World
         /\ TypeOK' /\ TxnTyped' /\ SavedAtRest' /\ Agreeing' /\ Working' /\ Recoverable'
         /\ MarkFirst' /\ HybridHalf' /\ Fresh'
<1>1. /\ AtRest /\ owner \notin fatal
      /\ txn' = [pc |-> "forward", op |-> op, owner |-> owner, todo |-> plan, undo |-> <<>>,
                 marked |-> FALSE, broken |-> FALSE, saved |-> World, arg |-> arg]
      /\ UNCHANGED <<drive, settings, content, activeMode, generation, fatal,
                     tare, nextTare, taredAt, snapshot, resets>>
  BY DEF BeginTransaction, RestingFrom, engineVars, modeVars, tareVars
<1>2. World \in Worlds /\ txn.saved = World /\ txn.op = "none" /\ owner \in Owners
  BY <1>1 DEF Inv, TypeOK, SavedAtRest, Owners
<1>3. TxnTyped'
  <2>1. <<>> \in Seq(Steps)
    BY EmptySeq
  <2> QED
    BY <1>1, <1>2, <2>1 DEF TxnTyped
<1>4. TypeOK'
  BY <1>1, <1>2 DEF Inv, TypeOK, World
<1>5. SavedAtRest' /\ HybridHalf'
  BY <1>1 DEF SavedAtRest, AtRest, HybridHalf
<1>6. Agreeing'
  BY <1>1, <1>2 DEF Inv, Agreeing
<1>7. Working' /\ MarkFirst'
  <2>1. Only(<<>>, {"drive", "part"})
    BY DEF Only
  <2>2. /\ txn'.pc = "forward" /\ txn'.op = op /\ txn'.owner = owner /\ txn'.undo = <<>>
        /\ txn'.todo = plan /\ txn'.marked = FALSE /\ txn'.broken = FALSE /\ fatal' = fatal
    BY <1>1
  <2>3. MarkFirst'
    BY <2>2 DEF MarkFirst
  <2> QED
    BY <1>1, <2>1, <2>2, <2>3 DEF Working
<1>8. Recoverable'
  BY <1>1, <1>2 DEF Recoverable, Unchanged, World
<1>9. Fresh'
  <2>1. "resources" \notin fatal => \A r \in Robots : tare[r] # 0 => taredAt[tare[r]] = resets
    BY <1>2, StillFresh
  <2> QED
    BY <1>1, <2>1 DEF Fresh
<1> QED
  BY <1>1, <1>3, <1>4, <1>5, <1>6, <1>7, <1>8, <1>9

LEMMA BeginSetModeKeeps ==
  ASSUME Inv, NEW mode \in Modes, NEW expected, BeginSetMode(mode, expected)
  PROVE  Inv'
<1> DEFINE plan == SwitchPlan(mode)
<1>1. /\ generation < MaxSwitches /\ mode # activeMode
      /\ BeginTransaction("set_mode", "runtime", plan, mode)
  BY DEF BeginSetMode
<1>2. /\ plan \in Seq(Steps) /\ Only(plan, {"drive"})
      /\ To(plan, "drive", [r \in Robots |-> mode])
      /\ \A r \in Robots : Has(plan, "drive", r)
      /\ MarkAhead(plan, FALSE)
  BY SwitchPlanShape
<1> HIDE DEF plan
<1>4. /\ UNCHANGED <<drive, settings, content, activeMode, generation>>
      /\ txn'.pc = "forward" /\ txn'.op = "set_mode" /\ txn'.todo = plan
      /\ txn'.arg = mode /\ txn'.saved = World
      /\ TypeOK' /\ TxnTyped' /\ SavedAtRest' /\ Agreeing' /\ Working' /\ Recoverable'
      /\ MarkFirst' /\ HybridHalf' /\ Fresh'
  BY <1>1, <1>2, BeginTxn
<1>5. SwitchHalf'
  <2>1. [r \in Robots |-> txn'.arg] = [r \in Robots |-> mode]
    BY <1>4
  <2>2. To(plan, "drive", [r \in Robots |-> txn'.arg])
    BY <1>2, <2>1
  <2>3. content' = txn'.saved.content
    BY <1>4 DEF World
  <2> QED
    BY <1>1, <1>2, <1>4, <2>2, <2>3 DEF SwitchHalf
<1>6. RestoreHalf' /\ ResetHalf'
  BY <1>4 DEF RestoreHalf, ResetHalf, Forward
<1> QED
  BY <1>4, <1>5, <1>6 DEF Inv

LEMMA BeginRestoreKeeps ==
  ASSUME Inv, BeginRestore
  PROVE  Inv'
<1> DEFINE plan == RestorePlan(snapshot.content)
<1>1. /\ snapshot # NoSnapshot /\ snapshot.mode = activeMode
      /\ BeginTransaction("restore", "resources", plan, 0)
      /\ snapshot.content \in [Parts -> Poses]
  BY DEF BeginRestore, Inv, TypeOK
<1>2. /\ plan \in Seq(Steps) /\ Only(plan, {"part", "mark", "flush"})
      /\ To(plan, "part", snapshot.content) /\ MarkAhead(plan, FALSE)
      /\ \A p \in Parts : Has(plan, "part", p)
  BY <1>1, RestorePlanShape
<1> HIDE DEF plan
<1>3. /\ UNCHANGED <<drive, settings, content, activeMode, snapshot>>
      /\ txn'.pc = "forward" /\ txn'.op = "restore" /\ txn'.todo = plan /\ txn'.saved = World
      /\ TypeOK' /\ TxnTyped' /\ SavedAtRest' /\ Agreeing' /\ Working' /\ Recoverable'
      /\ MarkFirst' /\ HybridHalf' /\ Fresh'
  BY <1>1, <1>2, BeginTxn
<1>4. SwitchHalf' /\ RestoreHalf' /\ ResetHalf'
  BY <1>1, <1>2, <1>3 DEF SwitchHalf, RestoreHalf, ResetHalf, Forward, World
<1> QED
  BY <1>3, <1>4 DEF Inv

LEMMA BeginResetKeeps ==
  ASSUME Inv, BeginReset
  PROVE  Inv'
<1>1. PICK plan \in ResetPlans : /\ resets < MaxResets
                                 /\ BeginTransaction("reset", "resources", plan, 0)
  BY DEF BeginReset
<1>2. plan \in Seq(Steps) /\ WorldAhead(plan) /\ MarkAhead(plan, FALSE)
  BY ResetPlanShape
<1>3. /\ UNCHANGED <<settings, resets>>
      /\ txn'.pc = "forward" /\ txn'.op = "reset" /\ txn'.todo = plan /\ txn'.saved = World
      /\ TypeOK' /\ TxnTyped' /\ SavedAtRest' /\ Agreeing' /\ Working' /\ Recoverable'
      /\ MarkFirst' /\ HybridHalf' /\ Fresh'
  BY <1>1, <1>2, BeginTxn
<1>4. SwitchHalf' /\ RestoreHalf' /\ ResetHalf'
  BY <1>1, <1>2, <1>3 DEF SwitchHalf, RestoreHalf, ResetHalf, Forward, World
<1> QED
  BY <1>3, <1>4 DEF Inv

LEMMA CaptureSnapshotKeeps ==
  ASSUME Inv, CaptureSnapshot
  PROVE  Inv'
<1>1. /\ AtRest /\ \A p \in Parts : content[p] # Torn
      /\ snapshot' = [mode |-> activeMode, content |-> content]
      /\ UNCHANGED <<drive, settings, content, activeMode, generation, fatal,
                     tare, nextTare, taredAt, txn, resets>>
  BY DEF CaptureSnapshot, engineVars, modeVars, tareVars
<1>2. content \in [Parts -> Poses]
  BY <1>1, TypedParts
<1>3. TypeOK'
  BY <1>1, <1>2 DEF Inv, TypeOK, World
<1> QED
  BY <1>1, <1>3
  DEF Inv, TxnTyped, SavedAtRest, World, AtRest, Agreeing, Working, InTransaction, Recoverable,
      Undoable, Unchanged, MarkFirst, SwitchHalf, RestoreHalf, ResetHalf, HybridHalf, Fresh, Forward

(* Between operations only the content of the engine changed. *)
LEMMA ContentKeeps ==
  ASSUME Inv, AtRest, Rest, content' \in [Parts -> Poses \cup {Torn}],
         UNCHANGED <<drive, settings, activeMode, generation, fatal,
                     tare, nextTare, taredAt, snapshot, resets>>
  PROVE  Inv'
<1>1. World' \in Worlds
  BY TypedParts DEF World, Worlds
<1>2. txn.saved = World /\ txn.op = "none"
  BY DEF Inv, SavedAtRest
<1>3. fatal = {} => \A r \in Robots : drive[r] = activeMode /\ settings[r] = activeMode
  BY <1>2 DEF Inv, Agreeing, World
<1>4. "resources" \notin fatal => \A r \in Robots : tare[r] # 0 => taredAt[tare[r]] = resets
  BY <1>2, StillFresh
<1>5. /\ activeMode' \in Modes /\ generation' \in 0 .. MaxSwitches /\ fatal' \subseteq Owners
      /\ nextTare' \in 1 .. MaxTares + 1 /\ taredAt' \in [1 .. MaxTares -> 0 .. MaxResets]
      /\ tare' \in [Robots -> 0 .. nextTare' - 1]
  BY DEF Inv, TypeOK
<1> QED
  BY <1>1, <1>3, <1>4, <1>5, RestKeeps

LEMMA MovedTyped ==
  ASSUME Inv, Moved
  PROVE  content' \in [Parts -> Poses \cup {Torn}]
BY TypedParts DEF Moved

LEMMA AttachKeeps ==
  ASSUME Inv, Attach
  PROVE  Inv'
<1>1. content' \in [Parts -> Poses \cup {Torn}]
  BY TypedParts DEF Attach
<1> QED
  BY <1>1, ContentKeeps DEF Attach, modeVars, tareVars

LEMMA MotionKeeps ==
  ASSUME Inv, Motion
  PROVE  Inv'
<1>1. content' \in [Parts -> Poses \cup {Torn}]
  BY MovedTyped DEF Motion
<1> QED
  BY <1>1, ContentKeeps DEF Motion, modeVars, tareVars

LEMMA TareWrenchKeeps ==
  ASSUME Inv, NEW r \in Robots, TareWrench(r)
  PROVE  Inv'
<1>1. /\ AtRest /\ Rest /\ nextTare <= MaxTares
      /\ tare' = [tare EXCEPT ![r] = nextTare]
      /\ taredAt' = [taredAt EXCEPT ![nextTare] = resets]
      /\ nextTare' = nextTare + 1
      /\ UNCHANGED <<drive, settings, activeMode, generation, fatal, snapshot, resets>>
      /\ content' \in [Parts -> Poses \cup {Torn}]
  BY MovedTyped DEF TareWrench, modeVars
<1>2. txn.saved = World /\ txn.op = "none"
  BY <1>1 DEF Inv, SavedAtRest
<1>3. World' \in Worlds
  BY <1>1, TypedParts DEF World, Worlds
<1>4. fatal = {} => \A q \in Robots : drive[q] = activeMode /\ settings[q] = activeMode
  BY <1>2 DEF Inv, Agreeing, World
<1>5. /\ nextTare \in 1 .. MaxTares + 1 /\ tare \in [Robots -> 0 .. nextTare - 1]
      /\ taredAt \in [1 .. MaxTares -> 0 .. MaxResets] /\ resets \in 0 .. MaxResets
      /\ MaxTares \in Nat
  BY MutationAssumption DEF Inv, TypeOK
<1>6. /\ nextTare' \in 1 .. MaxTares + 1 /\ taredAt' \in [1 .. MaxTares -> 0 .. MaxResets]
  BY <1>1, <1>5
<1>7. tare' \in [Robots -> 0 .. nextTare' - 1]
  BY <1>1, <1>5
<1>8. ASSUME "resources" \notin fatal, NEW q \in Robots, tare'[q] # 0
      PROVE  taredAt'[tare'[q]] = resets
  <2>1. CASE q = r
    BY <1>1, <1>5, <2>1
  <2>2. CASE q # r
    <3>1. tare'[q] = tare[q] /\ tare[q] # 0 /\ tare[q] \in 1 .. nextTare - 1
      BY <1>1, <1>5, <1>8, <2>2
    <3>2. taredAt[tare[q]] = resets
      BY <1>2, <1>8, <3>1, StillFresh
    <3> QED
      BY <1>1, <1>5, <3>1, <3>2
  <2> QED
    BY <2>1, <2>2
<1>9. activeMode' \in Modes /\ generation' \in 0 .. MaxSwitches /\ fatal' \subseteq Owners
  BY <1>1 DEF Inv, TypeOK
<1> QED
  BY <1>1, <1>3, <1>4, <1>6, <1>7, <1>8, <1>9, RestKeeps

LEMMA BeginHybridKeeps ==
  ASSUME Inv, NEW r \in Robots, NEW wanted, BeginHybrid(r, wanted)
  PROVE  Inv'
<1>1. /\ AtRest
      /\ txn' = [pc |-> "hybrid", op |-> "hybrid", owner |-> "runtime", todo |-> <<>>,
                 undo |-> <<>>, marked |-> FALSE, broken |-> FALSE, saved |-> World, arg |-> r]
      /\ UNCHANGED <<activeMode, generation, fatal, tare, nextTare, taredAt, snapshot, resets>>
  BY DEF BeginHybrid, RestingFrom, modeVars, tareVars
<1>2. txn.saved = World /\ txn.op = "none" /\ World \in Worlds
  BY <1>1 DEF Inv, SavedAtRest, TypeOK
<1>3. /\ World' \in Worlds /\ content' = content
      /\ \A q \in Robots \ {r} : drive'[q] = drive[q] /\ settings'[q] = settings[q]
  <2>1. CASE DriveWriteRaises(r, Hybrid)
    BY <2>1, RaisedDrive
  <2>2. CASE /\ drive' = [drive EXCEPT ![r] = Hybrid]
             /\ settings' = [settings EXCEPT ![r] = Hybrid]
             /\ UNCHANGED content
    BY <2>2, TypedParts DEF World, Worlds
  <2> QED
    BY <2>1, <2>2 DEF BeginHybrid
<1>4. TxnTyped'
  <2>1. <<>> \in Seq(Steps) /\ r \in Nat
    BY EmptySeq, MutationAssumption DEF Robots
  <2> QED
    BY <1>1, <1>2, <2>1 DEF TxnTyped, Owners
<1>5. /\ txn'.pc = "hybrid" /\ txn'.op = "hybrid" /\ txn'.arg = r /\ txn'.saved = World
      /\ txn'.owner = "runtime"
  BY <1>1
<1>6. TypeOK'
  BY <1>1, <1>2, <1>3, <1>5 DEF Inv, TypeOK, Owners
<1>7. SavedAtRest' /\ Working' /\ Recoverable' /\ MarkFirst' /\ SwitchHalf' /\ RestoreHalf' /\ ResetHalf'
  BY <1>5
  DEF SavedAtRest, AtRest, Working, Recoverable, MarkFirst, SwitchHalf, RestoreHalf, ResetHalf,
      InTransaction, Forward
<1>8. Agreeing'
  BY <1>1, <1>2, <1>5 DEF Inv, Agreeing
<1>9. HybridHalf'
  BY <1>3, <1>5 DEF HybridHalf, Unchanged, World
<1>10. Fresh'
  BY <1>1, <1>2, <1>5 DEF Inv, Fresh
<1> QED
  BY <1>4, <1>6, <1>7, <1>8, <1>9, <1>10 DEF Inv

LEMMA HybridTicksKeeps ==
  ASSUME Inv, HybridTicks
  PROVE  Inv'
<1>1. /\ txn.pc = "hybrid" /\ txn' = [txn EXCEPT !.pc = "handover"]
      /\ content' \in [Parts -> Poses \cup {Torn}]
      /\ UNCHANGED <<drive, settings, activeMode, generation, fatal,
                     tare, nextTare, taredAt, snapshot, resets>>
  BY MovedTyped DEF HybridTicks, modeVars, tareVars
<1>2. /\ txn'.pc = "handover" /\ txn'.op = txn.op /\ txn'.arg = txn.arg
      /\ txn'.saved = txn.saved /\ txn'.owner = txn.owner /\ txn'.marked = txn.marked
      /\ TxnTyped'
  BY <1>1 DEF Inv, TxnTyped
<1>3. World' \in Worlds
  BY <1>1, TypedParts DEF World, Worlds
<1>4. TypeOK'
  BY <1>1, <1>2, <1>3 DEF Inv, TypeOK
<1>5. SavedAtRest' /\ Working' /\ Recoverable' /\ MarkFirst' /\ SwitchHalf' /\ RestoreHalf' /\ ResetHalf'
  BY <1>2
  DEF SavedAtRest, AtRest, Working, Recoverable, MarkFirst, SwitchHalf, RestoreHalf, ResetHalf,
      InTransaction, Forward
<1>6. Agreeing' /\ Fresh'
  BY <1>1, <1>2 DEF Inv, Agreeing, Fresh
<1>7. HybridHalf'
  <2>1. /\ txn.op = "hybrid" /\ txn.arg \in Robots
        /\ \A r \in Robots \ {txn.arg} : Unchanged(r)
        /\ content[Attachments] = txn.saved.content[Attachments]
    BY <1>1, PartsFacts DEF Inv, HybridHalf
  <2>2. PICK pose \in Poses :
          content' = [p \in Parts |-> IF p = Attachments THEN content[p] ELSE pose]
    BY DEF HybridTicks, Moved
  <2>3. content' = [p \in Parts |-> IF p = Attachments THEN txn.saved.content[p] ELSE pose]
    BY <2>1, <2>2
  <2>4. \A r \in Robots \ {txn.arg} : Unchanged(r)'
    BY <1>1, <1>2, <2>1 DEF Unchanged
  <2> QED
    BY <1>2, <2>1, <2>3, <2>4 DEF HybridHalf
<1> QED
  BY <1>2, <1>4, <1>5, <1>6, <1>7 DEF Inv

(* What the handover leaves: the drives as they were, or a fatal runtime. *)
LEMMA HandedOver ==
  ASSUME Inv, Handover
  PROVE  /\ txn.op = "hybrid" /\ Rest /\ World' \in Worlds
         /\ UNCHANGED <<activeMode, generation, tare, nextTare, taredAt, snapshot, resets>>
         /\ \/ /\ fatal' = fatal /\ content' = content
               /\ fatal = {} => drive' = txn.saved.drive /\ settings' = txn.saved.settings
            \/ fatal' = fatal \cup {"runtime"}
<1> DEFINE r == txn.arg
<1>1. /\ txn.pc \in {"hybrid", "handover"} /\ Rest
      /\ UNCHANGED <<activeMode, generation, tare, nextTare, taredAt, snapshot, resets>>
  BY DEF Handover, modeVars, tareVars
<1>2. txn.op = "hybrid" /\ r \in Robots /\ \A q \in Robots \ {r} : Unchanged(q)
  BY <1>1 DEF Inv, HybridHalf
<1>3. txn.saved.settings[r] \in Modes \cup {Hybrid}
  BY <1>2, TypedParts
<1>4. CASE /\ drive' = [drive EXCEPT ![r] = txn.saved.settings[r]]
           /\ settings' = [settings EXCEPT ![r] = txn.saved.settings[r]]
           /\ content' = content /\ fatal' = fatal
  <2>1. World' \in Worlds
    BY <1>2, <1>3, <1>4, TypedParts DEF World, Worlds
  <2>2. ASSUME fatal = {}
        PROVE  drive' = txn.saved.drive /\ settings' = txn.saved.settings
    <3>1. txn.saved.drive[r] = txn.saved.settings[r]
      BY <1>2, <2>2 DEF Inv, Agreeing
    <3>2. \A q \in Robots : drive'[q] = txn.saved.drive[q] /\ settings'[q] = txn.saved.settings[q]
      BY <1>2, <1>4, <3>1, TypedParts DEF Unchanged
    <3> QED
      BY <1>4, <3>2, TypedParts
  <2> QED
    BY <1>1, <1>2, <1>4, <2>1, <2>2
<1>5. CASE UNCHANGED engineVars /\ fatal' = fatal \cup {"runtime"}
  BY <1>1, <1>2, <1>5 DEF engineVars, World, Inv, TypeOK
<1>6. CASE DriveWriteRaises(r, txn.saved.settings[r]) /\ fatal' = fatal \cup {"runtime"}
  BY <1>1, <1>2, <1>3, <1>6, RaisedDrive
<1> QED
  BY <1>4, <1>5, <1>6 DEF Handover

LEMMA HandoverKeeps ==
  ASSUME Inv, Handover
  PROVE  Inv'
<1>1. /\ txn.op = "hybrid" /\ Rest /\ World' \in Worlds
      /\ UNCHANGED <<activeMode, generation, tare, nextTare, taredAt, snapshot, resets>>
      /\ \/ /\ fatal' = fatal
            /\ fatal = {} => drive' = txn.saved.drive /\ settings' = txn.saved.settings
         \/ fatal' = fatal \cup {"runtime"}
  BY HandedOver
<1>2. fatal' = {} => \A q \in Robots : drive'[q] = activeMode /\ settings'[q] = activeMode
  BY <1>1 DEF Inv, Agreeing
<1>3. "resources" \notin fatal' => \A q \in Robots : tare[q] # 0 => taredAt[tare[q]] = resets
  BY <1>1, StillFresh
<1>4. /\ activeMode' \in Modes /\ generation' \in 0 .. MaxSwitches /\ fatal' \subseteq Owners
      /\ nextTare' \in 1 .. MaxTares + 1 /\ taredAt' \in [1 .. MaxTares -> 0 .. MaxResets]
      /\ tare' \in [Robots -> 0 .. nextTare' - 1]
  BY <1>1 DEF Inv, TypeOK, Owners
<1> QED
  BY <1>1, <1>2, <1>3, <1>4, RestKeeps

-----------------------------------------------------------------------------
(* The invariant *)

LEMMA InitHasInv == Init => Inv
<1> SUFFICES ASSUME Init PROVE Inv
  OBVIOUS
<1>1. /\ activeMode \in Modes /\ generation = 0 /\ fatal = {}
      /\ drive = [r \in Robots |-> activeMode] /\ settings = [r \in Robots |-> activeMode]
      /\ content = [p \in Parts |-> Home]
      /\ tare = [r \in Robots |-> 0] /\ nextTare = 1 /\ snapshot = NoSnapshot /\ resets = 0
      /\ taredAt = [g \in 1 .. MaxTares |-> 0]
      /\ txn = [pc |-> "rest", op |-> "none", owner |-> "runtime", todo |-> <<>>,
                undo |-> <<>>, marked |-> FALSE, broken |-> FALSE, saved |-> World, arg |-> 0]
  BY DEF Init, RestingFrom
<1>2. World \in Worlds
  BY <1>1, MutationAssumption DEF World, Worlds
<1>3. TxnTyped
  <2>1. <<>> \in Seq(Steps)
    BY EmptySeq
  <2> QED
    BY <1>1, <1>2, <2>1 DEF TxnTyped, Owners
<1>4. TypeOK
  BY <1>1, <1>2, MutationAssumption DEF TypeOK, Owners
<1>5. Agreeing
  BY <1>1 DEF Agreeing, World
<1> QED
  BY <1>1, <1>3, <1>4, <1>5
  DEF Inv, SavedAtRest, AtRest, Working, Recoverable, MarkFirst, SwitchHalf, RestoreHalf,
      ResetHalf, HybridHalf, Fresh, InTransaction, Forward

LEMMA NextKeepsInv == Inv /\ [Next]_vars => Inv'
<1> SUFFICES ASSUME Inv, [Next]_vars PROVE Inv'
  OBVIOUS
<1>1. CASE Transaction
  BY <1>1, ForwardWriteKeeps, MarkIrreversibleKeeps, ResetWorldKeeps, ConfigureRobotKeeps,
     FlushCachesKeeps, ForwardRaisesKeeps, RollbackStepKeeps, EndRollbackKeeps DEF Transaction
<1>2. CASE \E mode \in Modes, expected \in -1 .. MaxSwitches : BeginSetMode(mode, expected)
  BY <1>2, BeginSetModeKeeps
<1>3. CASE CommitSetMode \/ CommitRestore \/ CommitReset
  BY <1>3, CommitSetModeKeeps, CommitRestoreKeeps, CommitResetKeeps
<1>4. CASE CaptureSnapshot \/ BeginRestore \/ BeginReset
  BY <1>4, CaptureSnapshotKeeps, BeginRestoreKeeps, BeginResetKeeps
<1>5. CASE Attach \/ Motion
  BY <1>5, AttachKeeps, MotionKeeps
<1>6. CASE \E r \in Robots : TareWrench(r)
  BY <1>6, TareWrenchKeeps
<1>7. CASE \E r \in Robots, wanted \in 1 .. MaxTares : BeginHybrid(r, wanted)
  BY <1>7, BeginHybridKeeps
<1>8. CASE HybridTicks \/ Handover
  BY <1>8, HybridTicksKeeps, HandoverKeeps
<1>9. CASE UNCHANGED vars
  BY <1>9
  DEF vars, engineVars, modeVars, tareVars, Inv, TypeOK, TxnTyped, SavedAtRest, World, AtRest,
      Agreeing, Working, InTransaction, Recoverable, Undoable, Unchanged, MarkFirst, SwitchHalf,
      RestoreHalf, ResetHalf, HybridHalf, Fresh, Forward
<1> QED
  BY <1>1, <1>2, <1>3, <1>4, <1>5, <1>6, <1>7, <1>8, <1>9 DEF Next

(* The inductive invariant holds in every reachable state. *)
THEOREM MutationInvariant == Spec => []Inv
<1> QED
  BY InitHasInv, NextKeepsInv, PTL DEF Spec

(* Every variable keeps its shape whatever write or compensation raised: the *)
(* settings of a robot are always those of a mode.                          *)
THEOREM MutationsTyped == Spec => []TypeOK
<1>1. Inv => TypeOK
  BY DEF Inv
<1> QED
  BY <1>1, MutationInvariant, PTL

(* Between operations of a healthy runtime every robot is driven in the     *)
(* active mode and its settings say so.                                     *)
THEOREM ModesAgree == Spec => []ModeAgrees
<1>1. Inv => ModeAgrees
  BY DEF Inv, SavedAtRest, Agreeing, ModeAgrees, World
<1> QED
  BY <1>1, MutationInvariant, PTL

(* No tare survives a reset of the world, unless the reset broke the scene. *)
THEOREM TaresAreFresh == Spec => []TareIsFresh
<1>1. Inv => TareIsFresh
  BY StillFresh DEF Inv, SavedAtRest, TareIsFresh
<1> QED
  BY <1>1, MutationInvariant, PTL

-----------------------------------------------------------------------------
(* The refinement: seen from its ends, an operation is one step *)

AtomicStep == [Atomic!Next]_(Atomic!vars)

(* While an operation is under way nothing of it is seen. *)
LEMMA Unseen ==
  ASSUME txn'.saved = txn.saved, UNCHANGED <<activeMode, fatal, snapshot>>
  PROVE  AtomicStep
BY DEF AtomicStep, Atomic!vars

(* What is already broken may do anything but change its mode. *)
LEMMA BrokenAnyway ==
  ASSUME Inv, fatal # {} \/ fatal' # fatal,
         \E o \in Owners : fatal' = fatal \cup {o} \/ fatal' = fatal,
         UNCHANGED <<activeMode, snapshot>>
  PROVE  AtomicStep
<1>1. fatal \subseteq Owners
  BY DEF Inv, TypeOK
<1>2. \E o \in Owners : fatal' = fatal \cup {o}
  BY <1>1
<1> QED
  BY <1>2 DEF AtomicStep, Atomic!Next, Atomic!Break

LEMMA BeginUnseen ==
  ASSUME Inv, NEW op, NEW owner, NEW plan, NEW arg, BeginTransaction(op, owner, plan, arg)
  PROVE  AtomicStep
<1>1. txn.saved = World
  BY DEF BeginTransaction, Inv, SavedAtRest
<1>2. txn'.saved = World /\ UNCHANGED <<activeMode, fatal, snapshot>>
  BY DEF BeginTransaction, RestingFrom, modeVars
<1> QED
  BY <1>1, <1>2, Unseen

LEMMA StepUnseen ==
  ASSUME Inv, \/ ForwardWrite \/ MarkIrreversible \/ ResetWorld \/ ConfigureRobot
              \/ FlushCaches \/ ForwardRaises \/ RollbackStep \/ HybridTicks
  PROVE  AtomicStep
<1>1. UNCHANGED <<activeMode, fatal, snapshot>>
  BY DEF ForwardWrite, MarkIrreversible, ResetWorld, ConfigureRobot, FlushCaches,
         ForwardRaises, RollbackStep, HybridTicks, modeVars
<1>2. txn'.saved = txn.saved
  BY DEF ForwardWrite, MarkIrreversible, ResetWorld, ConfigureRobot, FlushCaches,
         ForwardRaises, RollbackStep, HybridTicks, Advance, Inv, TxnTyped
<1> QED
  BY <1>1, <1>2, Unseen

LEMMA EndRollbackRefines ==
  ASSUME Inv, EndRollback
  PROVE  AtomicStep
<1>1. /\ txn.pc = "rollback" /\ txn.undo = <<>> /\ Rest
      /\ fatal' = IF txn.broken \/ txn.marked THEN fatal \cup {txn.owner} ELSE fatal
      /\ UNCHANGED <<drive, settings, content, activeMode, snapshot>>
  BY DEF EndRollback, engineVars, modeVars
<1>2. txn.owner \in Owners /\ txn.owner \notin fatal
  BY <1>1 DEF Inv, Working, InTransaction, TypeOK
<1>3. CASE txn.broken \/ txn.marked
  BY <1>1, <1>2, <1>3, BrokenAnyway
<1>4. CASE ~txn.broken /\ ~txn.marked
  <2>1. drive = txn.saved.drive /\ content = txn.saved.content
    BY <1>1, <1>4, Undone
  <2>2. txn'.saved.drive = drive /\ txn'.saved.content = content
    BY <1>1 DEF Rest, RestingFrom
  <2> QED
    BY <1>1, <1>4, <2>1, <2>2 DEF AtomicStep, Atomic!vars
<1> QED
  BY <1>3, <1>4

LEMMA CommitSetModeRefines ==
  ASSUME Inv, CommitSetMode
  PROVE  AtomicStep
<1>1. /\ txn.pc = "forward" /\ txn.todo = <<>> /\ txn.op = "set_mode" /\ Rest
      /\ activeMode' = txn.arg
      /\ UNCHANGED <<drive, settings, content, fatal, snapshot>>
  BY DEF CommitSetMode, engineVars
<1>2. \A r : ~Has(txn.todo, "drive", r)
  BY <1>1 DEF Has
<1>3. /\ txn.arg \in Modes \ {activeMode} /\ content = txn.saved.content
      /\ \A r \in Robots : drive[r] = txn.arg
  BY <1>1, <1>2 DEF Inv, SwitchHalf, Forward
<1>4. drive = [r \in Robots |-> txn.arg]
  BY <1>3, TypedParts
<1>5. "runtime" \notin fatal
  BY <1>1 DEF Inv, Working, InTransaction
<1>6. txn'.saved.drive = drive /\ txn'.saved.content = content
  BY <1>1 DEF Rest, RestingFrom
<1>7. Atomic!Switch
  BY <1>1, <1>3, <1>4, <1>5, <1>6 DEF Atomic!Switch
<1> QED
  BY <1>7 DEF AtomicStep, Atomic!Next

LEMMA CommitRestoreRefines ==
  ASSUME Inv, CommitRestore
  PROVE  AtomicStep
<1>1. /\ txn.pc = "forward" /\ txn.todo = <<>> /\ txn.op = "restore" /\ Rest
      /\ UNCHANGED <<drive, settings, content, activeMode, fatal, snapshot>>
  BY DEF CommitRestore, engineVars, modeVars
<1>2. \A p : ~Has(txn.todo, "part", p)
  BY <1>1 DEF Has
<1>3. /\ snapshot # NoSnapshot /\ snapshot.mode = activeMode
      /\ drive = txn.saved.drive
      /\ \A p \in Parts : content[p] = snapshot.content[p]
  BY <1>1, <1>2 DEF Inv, RestoreHalf, Forward
<1>4. content = snapshot.content
  <2>1. snapshot.content \in [Parts -> Poses]
    BY <1>3 DEF Inv, TypeOK
  <2> QED
    BY <1>3, <2>1, TypedParts
<1>5. "resources" \notin fatal
  BY <1>1 DEF Inv, Working, InTransaction
<1>6. txn'.saved.drive = drive /\ txn'.saved.content = content
  BY <1>1 DEF Rest, RestingFrom
<1>7. Atomic!Restore
  BY <1>1, <1>3, <1>4, <1>5, <1>6 DEF Atomic!Restore
<1> QED
  BY <1>7 DEF AtomicStep, Atomic!Next

LEMMA CommitResetRefines ==
  ASSUME Inv, CommitReset
  PROVE  AtomicStep
<1>1. /\ txn.pc = "forward" /\ txn.todo = <<>> /\ txn.op = "reset" /\ Rest
      /\ content' = [content EXCEPT ![Attachments] = Home]
      /\ UNCHANGED <<drive, settings, activeMode, fatal, snapshot>>
  BY DEF CommitReset, modeVars
<1>2. /\ settings = txn.saved.settings /\ drive = settings
      /\ \A p \in Parts \ {Attachments} : content[p] = Home
  BY <1>1, ResetDone DEF Forward
<1>3. content' = [p \in Parts |-> Home]
  BY <1>1, <1>2, TypedParts, PartsFacts
<1>4. "resources" \notin fatal
  BY <1>1 DEF Inv, Working, InTransaction
<1>5. txn'.saved.drive = drive' /\ txn'.saved.content = content'
  BY <1>1 DEF Rest, RestingFrom
<1>6. "runtime" \notin fatal => drive = [r \in Robots |-> activeMode]
  <2> SUFFICES ASSUME "runtime" \notin fatal
               PROVE  drive = [r \in Robots |-> activeMode]
    OBVIOUS
  <2>1. fatal = {}
    BY <1>4 DEF Inv, TypeOK, Owners
  <2> QED
    BY <1>2, <2>1, TypedParts DEF Inv, Agreeing
<1>7. Atomic!ResetScene
  BY <1>1, <1>3, <1>4, <1>5, <1>6 DEF Atomic!ResetScene, Atomic!Agrees
<1> QED
  BY <1>7 DEF AtomicStep, Atomic!Next

LEMMA AtOnceRefines ==
  ASSUME Inv, CaptureSnapshot \/ Attach \/ Motion \/ \E r \in Robots : TareWrench(r)
  PROVE  AtomicStep
<1>1. txn.saved = World
  BY DEF CaptureSnapshot, Attach, Motion, TareWrench, Inv, SavedAtRest
<1>2. txn.saved.drive = drive /\ txn.saved.content = content
  BY <1>1 DEF World
<1>3. CASE CaptureSnapshot
  <2>1. Atomic!Capture
    BY <1>2, <1>3 DEF CaptureSnapshot, Atomic!Capture, modeVars
  <2> QED
    BY <2>1 DEF AtomicStep, Atomic!Next
<1>4. CASE Attach
  <2>1. /\ Rest /\ UNCHANGED <<drive, activeMode, fatal, snapshot>>
        /\ \E pose \in Poses : content' = [content EXCEPT ![Attachments] = pose]
    BY <1>4 DEF Attach, modeVars
  <2>2. txn'.saved.drive = drive' /\ txn'.saved.content = content'
    BY <2>1 DEF Rest, RestingFrom
  <2>3. Atomic!Attach
    BY <1>2, <2>1, <2>2 DEF Atomic!Attach
  <2> QED
    BY <2>3 DEF AtomicStep, Atomic!Next
<1>5. CASE Motion \/ \E r \in Robots : TareWrench(r)
  <2>1. Rest /\ Moved /\ UNCHANGED <<drive, activeMode, fatal, snapshot>>
    BY <1>5 DEF Motion, TareWrench, modeVars
  <2>2. txn'.saved.drive = drive' /\ txn'.saved.content = content'
    BY <2>1 DEF Rest, RestingFrom
  <2>3. Atomic!Move
    BY <1>2, <2>1, <2>2 DEF Atomic!Move, Moved
  <2> QED
    BY <2>3 DEF AtomicStep, Atomic!Next
<1> QED
  BY <1>3, <1>4, <1>5

LEMMA BeginHybridRefines ==
  ASSUME Inv, NEW r, NEW wanted, BeginHybrid(r, wanted)
  PROVE  AtomicStep
<1>1. txn.saved = World
  BY DEF BeginHybrid, Inv, SavedAtRest
<1>2. txn'.saved = World /\ UNCHANGED <<activeMode, fatal, snapshot>>
  BY DEF BeginHybrid, RestingFrom, modeVars
<1> QED
  BY <1>1, <1>2, Unseen

LEMMA HandoverRefines ==
  ASSUME Inv, Handover
  PROVE  AtomicStep
<1>1. /\ Rest /\ UNCHANGED <<activeMode, snapshot>>
      /\ \/ /\ fatal' = fatal /\ content' = content
            /\ fatal = {} => drive' = txn.saved.drive
         \/ fatal' = fatal \cup {"runtime"}
  BY HandedOver
<1>2. txn'.saved.drive = drive' /\ txn'.saved.content = content'
  BY <1>1 DEF Rest, RestingFrom
<1>3. CASE fatal = {} /\ fatal' = {}
  <2>1. /\ content' = content /\ drive' = txn.saved.drive /\ fatal' = fatal
    BY <1>1, <1>3
  <2>2. \/ content = txn.saved.content
        \/ \E pose \in Poses :
             content = [p \in Parts |-> IF p = Attachments THEN txn.saved.content[p] ELSE pose]
    BY DEF Handover, Inv, HybridHalf
  <2>3. CASE content = txn.saved.content
    BY <1>1, <1>2, <2>1, <2>3 DEF AtomicStep, Atomic!vars
  <2>4. CASE \E pose \in Poses :
               content = [p \in Parts |-> IF p = Attachments THEN txn.saved.content[p] ELSE pose]
    <3>1. Atomic!Move
      BY <1>1, <1>2, <2>1, <2>4 DEF Atomic!Move
    <3> QED
      BY <3>1 DEF AtomicStep, Atomic!Next
  <2> QED
    BY <2>2, <2>3, <2>4
<1>4. CASE fatal # {} \/ fatal' # {}
  BY <1>1, <1>4, BrokenAnyway DEF Owners
<1> QED
  BY <1>3, <1>4

LEMMA NextRefines == Inv /\ [Next]_vars => AtomicStep
<1> SUFFICES ASSUME Inv, [Next]_vars PROVE AtomicStep
  OBVIOUS
<1>1. CASE Transaction
  BY <1>1, StepUnseen, EndRollbackRefines DEF Transaction
<1>2. CASE \E mode \in Modes, expected \in -1 .. MaxSwitches : BeginSetMode(mode, expected)
  BY <1>2, BeginUnseen DEF BeginSetMode
<1>3. CASE CommitSetMode \/ CommitRestore \/ CommitReset
  BY <1>3, CommitSetModeRefines, CommitRestoreRefines, CommitResetRefines
<1>4. CASE BeginRestore \/ BeginReset
  BY <1>4, BeginUnseen DEF BeginRestore, BeginReset
<1>5. CASE CaptureSnapshot \/ Attach \/ Motion \/ \E r \in Robots : TareWrench(r)
  BY <1>5, AtOnceRefines
<1>6. CASE \E r \in Robots, wanted \in 1 .. MaxTares : BeginHybrid(r, wanted)
  BY <1>6, BeginHybridRefines
<1>7. CASE HybridTicks \/ Handover
  BY <1>7, StepUnseen, HandoverRefines
<1>8. CASE UNCHANGED vars
  BY <1>8, Unseen DEF vars, modeVars
<1> QED
  BY <1>1, <1>2, <1>3, <1>4, <1>5, <1>6, <1>7, <1>8 DEF Next

LEMMA InitRefines == Init => Atomic!Init
BY DEF Init, RestingFrom, World, Atomic!Init, Atomic!Agrees

(* A mutation that fails at any of its writes, with any of its compensations *)
(* failing too, has no effect at all or breaks its owner; one that succeeds *)
(* happens as a whole.                                                      *)
THEOREM MutationsAreAtomic == Spec => IsAtomic
<1>1. Init => Inv /\ Atomic!Init
  BY InitHasInv, InitRefines
<1>2. Inv /\ [Next]_vars => Inv' /\ [Atomic!Next]_(Atomic!vars)
  BY NextKeepsInv, NextRefines DEF AtomicStep
<1> QED
  BY <1>1, <1>2, PTL DEF Spec, IsAtomic, Atomic!Spec

=============================================================================
