------------------------- MODULE NewtonRuntime_proof -------------------------
(***************************************************************************)
(* Proofs about NewtonRuntime, for every set of worlds and every cadence:  *)
(* the books of pending writes cover every world that is out of date, so   *)
(* that a flush derives everything, and no flush replaces the drive        *)
(* history an operation restored.  Then, from these, the arithmetic of the *)
(* collision phase: no substep uses contacts older than the interval,      *)
(* replayed from a graph or not.                                           *)
(***************************************************************************)
EXTENDS NewtonRuntime, Integers, TLAPS, WellFoundedInduction

SimFields ==
  {"host", "project", "rows", "masks", "stale", "loose", "phase", "age", "history"}

(* A simulation state whose books cover what is out of date. *)
Covered(s) ==
  /\ DOMAIN s = SimFields
  /\ DOMAIN s.masks = Masks
  /\ s.stale \subseteq Selected(s)
  /\ s.loose \subseteq ToProject(s)
  /\ s.project \subseteq s.host
  /\ \A r \in s.rows : r.mask \in Masks

(* Nothing is pending and nothing out of date. *)
Clean(s) ==
  /\ s.host = {} /\ s.project = {} /\ s.rows = {} /\ s.stale = {} /\ s.loose = {}

(* What the drive of a world follows once the pending writes are flushed. *)
Following(s, w) == IF w \in s.project THEN "positions" ELSE s.history[w]

LiveInvariant ==
  /\ product \in {"mirror", "kaleidoscope"}
  /\ DOMAIN expected = Owned(sim)
  /\ Covered(sim)
  /\ sim.rows = {}
  /\ product = "kaleidoscope" => Clean(sim)
  /\ \A w \in Owned(sim) : expected[w] # None => expected[w] = Following(sim, w)

(* A closed runtime has forgotten its books. *)
RuntimeInvariant == life # "closed" => LiveInvariant

-----------------------------------------------------------------------------
(* A flush derives every world, forgets what was pending, and moves only the
   histories of the worlds it projects. *)
LEMMA FlushCleans ==
  ASSUME NEW s, Covered(s)
  PROVE  /\ Covered(Flush(s)) /\ Clean(Flush(s))
         /\ Owned(Flush(s)) = Owned(s)
         /\ \A w \in Owned(s) :
              Flush(s).history[w] = IF w \in ToProject(s) THEN "positions" ELSE s.history[w]
<1>1. CASE Pending(s)
  <2> DEFINE h == SetHistory(s, ToProject(s), "positions")
  <2>1. /\ DOMAIN h = SimFields
        /\ h.history = [w \in Owned(s) |-> IF w \in ToProject(s) THEN "positions"
                                           ELSE s.history[w]]
        /\ h.masks = s.masks /\ h.stale = s.stale /\ h.loose = s.loose
    BY DEF Covered, SetHistory, SimFields
  <2>2. /\ DOMAIN Flush(s) = SimFields
        /\ Flush(s).host = {} /\ Flush(s).project = {} /\ Flush(s).rows = {}
        /\ Flush(s).masks = s.masks
        /\ Flush(s).stale = IF s.host = Owned(s) THEN {} ELSE s.stale \ Selected(s)
        /\ Flush(s).loose = s.loose \ ToProject(s)
        /\ Flush(s).history = h.history
    BY <1>1, <2>1 DEF Flush, Projected, SimFields
  <2>3. Flush(s).stale = {} /\ Flush(s).loose = {}
    BY <2>2 DEF Covered
  <2>4. Clean(Flush(s)) /\ Owned(Flush(s)) = Owned(s)
    BY <2>1, <2>2, <2>3 DEF Clean, Owned
  <2>5. Covered(Flush(s))
    BY <2>2, <2>3 DEF Covered
  <2> QED
    BY <2>1, <2>2, <2>4, <2>5
<1>2. CASE ~Pending(s)
  <2>1. s.host = {} /\ s.rows = {} /\ s.project = {}
    BY <1>2 DEF Pending, Covered
  <2>2. Selected(s) = {} /\ ToProject(s) = {}
    BY <2>1 DEF Selected, ToProject
  <2>3. Flush(s) = s
    BY <1>2 DEF Flush
  <2> QED
    BY <2>1, <2>2, <2>3 DEF Covered, Clean
<1> QED
  BY <1>1, <1>2

(* A forward does what a flush does. *)
LEMMA ForwardCleans ==
  ASSUME NEW s, Covered(s)
  PROVE  /\ Covered(Forwarded(s)) /\ Clean(Forwarded(s))
         /\ Owned(Forwarded(s)) = Owned(s)
         /\ \A w \in Owned(s) :
              Forwarded(s).history[w] = IF w \in ToProject(s) THEN "positions" ELSE s.history[w]
<1>1. CASE Pending(s)
  BY <1>1, FlushCleans DEF Forwarded
<1>2. CASE ~Pending(s)
  <2>1. s.host = {} /\ s.rows = {} /\ s.project = {}
    BY <1>2 DEF Pending, Covered
  <2>2. Selected(s) = {} /\ ToProject(s) = {}
    BY <2>1 DEF Selected, ToProject
  <2>3. Forwarded(s) = [s EXCEPT !.stale = {}]
    BY <1>2 DEF Forwarded
  <2>4. /\ DOMAIN Forwarded(s) = SimFields
        /\ Forwarded(s).host = {} /\ Forwarded(s).project = {} /\ Forwarded(s).rows = {}
        /\ Forwarded(s).masks = s.masks /\ Forwarded(s).history = s.history
        /\ Forwarded(s).stale = {} /\ Forwarded(s).loose = {}
    BY <2>1, <2>2, <2>3 DEF Covered, SimFields
  <2> QED
    BY <2>2, <2>4 DEF Covered, Clean, Owned
<1> QED
  BY <1>1, <1>2

(* A write that names its worlds enters them in the books it needs. *)
LEMMA HostWriteCovers ==
  ASSUME NEW s, Covered(s), NEW field \in Fields, NEW worlds
  PROVE  /\ Covered(HostWrite(s, field, worlds))
         /\ HostWrite(s, field, worlds).rows = s.rows
         /\ HostWrite(s, field, worlds).history = s.history
         /\ HostWrite(s, field, worlds).project =
              IF field = "joint" THEN s.project \cup worlds ELSE s.project
<1> DEFINE t == HostWrite(s, field, worlds)
<1>1. /\ DOMAIN t = SimFields
      /\ t.rows = s.rows /\ t.history = s.history /\ t.masks = s.masks
      /\ t.host = s.host \cup worlds
      /\ t.project = IF field = "joint" THEN s.project \cup worlds ELSE s.project
      /\ t.stale = s.stale \cup worlds
      /\ t.loose = IF field = "joint" THEN s.loose \cup worlds ELSE s.loose
  BY DEF HostWrite, Written, NeedsProjection, Covered, SimFields
<1>2. Selected(t) = Selected(s) \cup worlds
  BY <1>1 DEF Selected
<1>3. ToProject(t) = IF field = "joint" THEN ToProject(s) \cup worlds ELSE ToProject(s)
  BY <1>1 DEF ToProject
<1>4. Covered(t)
  BY <1>1, <1>2, <1>3 DEF Covered
<1> QED
  BY <1>1, <1>4

(* A device write does the same, as long as no earlier entry still reads the
   mask it fills. *)
LEMMA DeviceWriteCovers ==
  ASSUME NEW s, Covered(s), NEW field \in Fields, NEW mask \in Masks, NEW worlds,
         \A r \in s.rows : r.mask = mask => s.masks[mask] = worlds
  PROVE  LET t == DeviceWrite(s, field, mask, worlds)
         IN  /\ Covered(t)
             /\ t.rows = s.rows \cup {[field |-> field, mask |-> mask]}
             /\ t.masks[mask] = worlds
             /\ t.history = s.history /\ t.host = s.host /\ t.project = s.project
             /\ ToProject(t) = IF field = "joint" THEN ToProject(s) \cup worlds
                                                  ELSE ToProject(s)
<1> DEFINE t == DeviceWrite(s, field, mask, worlds)
           e == [field |-> field, mask |-> mask]
<1>1. /\ DOMAIN t = SimFields
      /\ t.rows = s.rows \cup {e} /\ t.history = s.history
      /\ t.host = s.host /\ t.project = s.project
      /\ t.masks = [s.masks EXCEPT ![mask] = worlds]
      /\ t.stale = s.stale \cup worlds
      /\ t.loose = IF field = "joint" THEN s.loose \cup worlds ELSE s.loose
  BY DEF DeviceWrite, Written, Covered, SimFields
<1>2. DOMAIN t.masks = Masks /\ t.masks[mask] = worlds
  BY <1>1 DEF Covered
<1>3. \A r \in s.rows : t.masks[r.mask] = s.masks[r.mask]
  BY <1>1 DEF Covered
<1>4. e.mask = mask /\ e.field = field
  OBVIOUS
<1>5. Selected(t) = Selected(s) \cup worlds
  <2>1. \A x : x \in Selected(s) <=> x \in s.host \/ \E r \in s.rows : x \in s.masks[r.mask]
    BY DEF Selected
  <2>2. \A x : x \in Selected(t) <=> x \in t.host \/ \E r \in t.rows : x \in t.masks[r.mask]
    BY DEF Selected
  <2> HIDE DEF t, e
  <2>3. \A x : x \in Selected(t) <=>
          x \in s.host \/ x \in worlds \/ \E r \in s.rows : x \in s.masks[r.mask]
    BY <2>2, <1>1, <1>2, <1>3, <1>4
  <2> QED
    BY <2>1, <2>3
<1>6. ToProject(t) = IF field = "joint" THEN ToProject(s) \cup worlds ELSE ToProject(s)
  <2>1. \A x : x \in ToProject(s) <=>
          x \in s.project \/ \E r \in s.rows : r.field = "joint" /\ x \in s.masks[r.mask]
    BY DEF ToProject, NeedsProjection
  <2>2. \A x : x \in ToProject(t) <=>
          x \in t.project \/ \E r \in t.rows : r.field = "joint" /\ x \in t.masks[r.mask]
    BY DEF ToProject, NeedsProjection
  <2> HIDE DEF t, e
  <2>3. \A x : x \in ToProject(t) <=>
          \/ x \in s.project
          \/ field = "joint" /\ x \in worlds
          \/ \E r \in s.rows : r.field = "joint" /\ x \in s.masks[r.mask]
    BY <2>2, <1>1, <1>2, <1>3, <1>4
  <2> QED
    BY <2>1, <2>3
<1>7. Covered(t)
  BY <1>1, <1>2, <1>4, <1>5, <1>6 DEF Covered
<1> QED
  BY <1>1, <1>2, <1>6, <1>7

(* Putting a history does not touch the books. *)
LEMMA SetHistoryCovers ==
  ASSUME NEW s, Covered(s), NEW worlds, NEW value
  PROVE  LET t == SetHistory(s, worlds, value)
         IN  /\ Covered(t) /\ (Clean(s) => Clean(t))
             /\ t.rows = s.rows /\ t.project = s.project
             /\ Owned(t) = Owned(s) /\ ToProject(t) = ToProject(s)
             /\ \A w \in Owned(s) :
                  t.history[w] = IF w \in worlds THEN value ELSE s.history[w]
<1> DEFINE t == SetHistory(s, worlds, value)
<1>1. /\ DOMAIN t = SimFields
      /\ t.rows = s.rows /\ t.masks = s.masks
      /\ t.host = s.host /\ t.project = s.project
      /\ t.stale = s.stale /\ t.loose = s.loose
      /\ t.history = [w \in Owned(s) |-> IF w \in worlds THEN value ELSE s.history[w]]
  BY DEF SetHistory, Covered, SimFields
<1>2. Selected(t) = Selected(s) /\ ToProject(t) = ToProject(s)
  BY <1>1 DEF Selected, ToProject
<1>3. Covered(t) /\ (Clean(s) => Clean(t))
  BY <1>1, <1>2 DEF Covered, Clean
<1> QED
  BY <1>1, <1>2, <1>3 DEF Owned

(* The fields of a state payload are the solver's own: none asks for a
   projection, and the two refill different masks. *)
LEMMA FieldsWrittenCovers ==
  ASSUME NEW s, Covered(s), Clean(s), NEW fields, NEW worlds
  PROVE  LET t == FieldsWritten(s, fields, worlds)
         IN  Covered(t) /\ ToProject(t) = {} /\ t.history = s.history
<1> DEFINE full == IF "full" \in fields THEN DeviceWrite(s, "full", "full", worlds) ELSE s
           t == FieldsWritten(s, fields, worlds)
<1>1. s.rows = {} /\ ToProject(s) = {}
  BY DEF Clean, ToProject
<1>2. {"full", "body"} \subseteq Masks /\ {"full", "body"} \subseteq Fields
  BY DEF Masks, Fields
<1>3. /\ Covered(full) /\ ToProject(full) = {} /\ full.history = s.history
      /\ \A r \in full.rows : r.mask # "body"
  <2>1. CASE "full" \in fields
    <3> DEFINE u == DeviceWrite(s, "full", "full", worlds)
    <3>1. \A r \in s.rows : r.mask = "full" => s.masks["full"] = worlds
      BY <1>1
    <3>2. /\ Covered(u) /\ u.rows = s.rows \cup {[field |-> "full", mask |-> "full"]}
          /\ u.history = s.history /\ ToProject(u) = ToProject(s)
      BY <1>2, <3>1, DeviceWriteCovers
    <3>3. full = u
      BY <2>1
    <3> QED
      BY <1>1, <3>2, <3>3
  <2>2. CASE "full" \notin fields
    BY <1>1, <2>2
  <2> QED
    BY <2>1, <2>2
<1>4. t = IF "body" \in fields THEN DeviceWrite(full, "body", "body", worlds) ELSE full
  BY DEF FieldsWritten
<1> HIDE DEF full, t
<1>5. Covered(t) /\ ToProject(t) = {} /\ t.history = s.history
  <2>1. CASE "body" \in fields
    <3>1. ASSUME NEW f, Covered(f), ToProject(f) = {}, \A r \in f.rows : r.mask # "body"
          PROVE  LET u == DeviceWrite(f, "body", "body", worlds)
                 IN  Covered(u) /\ ToProject(u) = {} /\ u.history = f.history
      <4>1. \A r \in f.rows : r.mask = "body" => f.masks["body"] = worlds
        BY <3>1
      <4> QED
        BY <1>2, <3>1, <4>1, DeviceWriteCovers
    <3> QED
      BY <1>3, <1>4, <2>1, <3>1
  <2>2. CASE "body" \notin fields
    BY <1>3, <1>4, <2>2
  <2> QED
    BY <2>1, <2>2
<1> QED
  BY <1>5 DEF t

(* The phase is no part of the books. *)
LEMMA PhaseCovers ==
  ASSUME NEW s, Covered(s), NEW t, t = s \/ t = [s EXCEPT !.phase = 0]
  PROVE  /\ Covered(t) /\ (Clean(s) => Clean(t))
         /\ t.rows = s.rows /\ t.project = s.project /\ t.masks = s.masks
         /\ t.history = s.history /\ ToProject(t) = ToProject(s)
<1>1. CASE t = s
  BY <1>1
<1>2. CASE t = [s EXCEPT !.phase = 0]
  <2>1. /\ DOMAIN t = SimFields
        /\ t.rows = s.rows /\ t.masks = s.masks
        /\ t.host = s.host /\ t.project = s.project
        /\ t.stale = s.stale /\ t.loose = s.loose /\ t.history = s.history
    BY <1>2 DEF Covered, SimFields
  <2>2. Selected(t) = Selected(s) /\ ToProject(t) = ToProject(s)
    BY <2>1 DEF Selected, ToProject
  <2> QED
    BY <2>1, <2>2 DEF Covered, Clean
<1> QED
  BY <1>1, <1>2

(* A restored solver leaves nothing pending and the history it was given. *)
LEMMA SolverRestoredCleans ==
  ASSUME NEW s, Covered(s), NEW history
  PROVE  LET t == SolverRestored(s, history)
         IN  Covered(t) /\ Clean(t) /\ t.history = history
<1> DEFINE u == [s EXCEPT !.phase = 0]
           f == Flush(u)
           t == SolverRestored(s, history)
<1>1. Covered(u)
  BY PhaseCovers
<1>2. Covered(f) /\ Clean(f)
  BY <1>1, FlushCleans
<1>3. t = [f EXCEPT !.history = history]
  BY DEF SolverRestored
<1> HIDE DEF u, f, t
<1>4. /\ DOMAIN t = SimFields
      /\ t.rows = f.rows /\ t.masks = f.masks
      /\ t.host = f.host /\ t.project = f.project
      /\ t.stale = f.stale /\ t.loose = f.loose /\ t.history = history
  BY <1>2, <1>3 DEF Covered, SimFields
<1>5. Covered(t) /\ Clean(t)
  BY <1>2, <1>4 DEF Covered, Clean
<1> QED
  BY <1>4, <1>5 DEF t

(* Nor are the phase and the age of the contacts that a tick leaves, or the age
   that one which failed half-way leaves. *)
LEMMA HalfTickCovers ==
  ASSUME NEW s, Covered(s), Clean(s), NEW age
  PROVE  LET t == [s EXCEPT !.age = age]
         IN  Covered(t) /\ Clean(t) /\ Owned(t) = Owned(s)
<1> DEFINE t == [s EXCEPT !.age = age]
<1>1. /\ DOMAIN t = SimFields
      /\ t.rows = s.rows /\ t.masks = s.masks
      /\ t.host = s.host /\ t.project = s.project
      /\ t.stale = s.stale /\ t.loose = s.loose /\ t.history = s.history
  BY DEF Covered, SimFields
<1> HIDE DEF t
<1>2. Covered(t) /\ Clean(t) /\ Owned(t) = Owned(s)
  BY <1>1 DEF Covered, Clean, Owned
<1> QED
  BY <1>2 DEF t

LEMMA TickCovers ==
  ASSUME NEW s, Covered(s), Clean(s), NEW phase, NEW age
  PROVE  LET t == [s EXCEPT !.phase = phase, !.age = age]
         IN  Covered(t) /\ Clean(t) /\ Owned(t) = Owned(s)
<1> DEFINE t == [s EXCEPT !.phase = phase, !.age = age]
<1>1. /\ DOMAIN t = SimFields
      /\ t.rows = s.rows /\ t.masks = s.masks
      /\ t.host = s.host /\ t.project = s.project
      /\ t.stale = s.stale /\ t.loose = s.loose /\ t.history = s.history
  BY DEF Covered, SimFields
<1> HIDE DEF t
<1>2. Covered(t) /\ Clean(t) /\ Owned(t) = Owned(s)
  BY <1>1 DEF Covered, Clean, Owned
<1> QED
  BY <1>2 DEF t

-----------------------------------------------------------------------------
LEMMA InitEstablishes == Init => LiveInvariant
<1> SUFFICES ASSUME Init PROVE LiveInvariant
  OBVIOUS
<1> DEFINE worlds == IF product = "mirror" THEN {MirrorWorld} ELSE Worlds
<1>1. /\ sim = [host |-> {}, project |-> {}, rows |-> {}, masks |-> [m \in Masks |-> {}],
                stale |-> {}, loose |-> {}, phase |-> 0, age |-> cadence.interval,
                history |-> [w \in worlds |-> "positions"]]
      /\ expected = [w \in worlds |-> None]
  BY DEF Init
<1> HIDE DEF worlds
<1>2. /\ DOMAIN sim = SimFields /\ DOMAIN sim.masks = Masks
      /\ sim.rows = {} /\ Clean(sim) /\ sim.history = [w \in worlds |-> "positions"]
  BY <1>1 DEF SimFields, Clean
<1>3. Covered(sim) /\ Owned(sim) = worlds
  BY <1>2 DEF Covered, Clean, Owned
<1> QED
  BY <1>1, <1>2, <1>3 DEF LiveInvariant, Init

(* A state that is clean, with the expectations it was given, is a good one. *)
LEMMA CleanEstablishes ==
  ASSUME LiveInvariant, product' = product,
         Covered(sim'), Clean(sim'), DOMAIN expected' = Owned(sim'),
         \A w \in Owned(sim') : expected'[w] # None => expected'[w] = sim'.history[w]
  PROVE  LiveInvariant'
BY DEF LiveInvariant, Clean, Following

(* Flushing, and writing the expectations of no world, keeps the invariant. *)
LEMMA FlushKeeps ==
  ASSUME LiveInvariant, NEW s, s = Flush(sim) \/ s = Forwarded(sim)
  PROVE  /\ Covered(s) /\ Clean(s) /\ Owned(s) = Owned(sim)
         /\ \A w \in Owned(sim) : expected[w] # None => expected[w] = s.history[w]
<1>1. Covered(sim) /\ ToProject(sim) = sim.project
  BY DEF LiveInvariant, ToProject
<1>2. /\ Covered(s) /\ Clean(s) /\ Owned(s) = Owned(sim)
      /\ \A w \in Owned(sim) :
           s.history[w] = IF w \in sim.project THEN "positions" ELSE sim.history[w]
  BY <1>1, FlushCleans, ForwardCleans
<1> QED
  BY <1>2 DEF LiveInvariant, Following

LEMMA StepPreserves == LiveInvariant /\ Step => LiveInvariant'
<1> SUFFICES ASSUME LiveInvariant, Step PROVE LiveInvariant'
  OBVIOUS
<1> DEFINE s == Flush(sim)
           h == SetHistory(s, Owned(s), "moved")
<1>1. Covered(s) /\ Clean(s) /\ Owned(s) = Owned(sim)
  BY FlushKeeps DEF Step, Ready
<1>2. Covered(h) /\ Clean(h) /\ Owned(h) = Owned(sim)
  BY <1>1, SetHistoryCovers
<1>3. \/ \E phase, age : sim' = [h EXCEPT !.phase = phase, !.age = age]
      \/ \E age : sim' = [h EXCEPT !.age = age]
      \/ sim' = s
  <2>1. PICK branch : Tick(s, branch)
    BY DEF Step
  <2>2. CASE Simulate(s, branch)
    BY <2>2 DEF Simulate
  <2>3. CASE SimulateHalfWay(s, branch)
    BY <2>3 DEF SimulateHalfWay
  <2> QED
    BY <2>1, <2>2, <2>3 DEF Tick
<1> HIDE DEF s, h
<1>4. Covered(sim') /\ Clean(sim') /\ Owned(sim') = Owned(sim)
  <2>1. CASE \E phase, age : sim' = [h EXCEPT !.phase = phase, !.age = age]
    <3>1. PICK phase, age : sim' = [h EXCEPT !.phase = phase, !.age = age]
      BY <2>1
    <3> QED
      BY <1>2, <3>1, TickCovers
  <2>2. CASE \E age : sim' = [h EXCEPT !.age = age]
    <3>1. PICK age : sim' = [h EXCEPT !.age = age]
      BY <2>2
    <3> QED
      BY <1>2, <3>1, HalfTickCovers
  <2>3. CASE sim' = s
    BY <1>1, <2>3
  <2> QED
    BY <1>3, <2>1, <2>2, <2>3
<1>5. expected' = [w \in Owned(sim) |-> None] /\ product' = product
  BY DEF Step, NoExpectation
<1> QED
  BY <1>4, <1>5, CleanEstablishes

LEMMA ResetPreserves == LiveInvariant /\ Reset => LiveInvariant'
<1> SUFFICES ASSUME LiveInvariant, Reset PROVE LiveInvariant'
  OBVIOUS
<1> DEFINE h == SetHistory(sim, Owned(sim), "saved")
           t == HostWrite(h, "joint", Owned(sim))
<1>1. Covered(h) /\ Owned(h) = Owned(sim)
  BY SetHistoryCovers DEF LiveInvariant
<1>2. Covered(t) /\ t.history = h.history /\ t.project = h.project \cup Owned(sim)
  BY <1>1, HostWriteCovers DEF Fields
<1>3. sim' = Flush(t)
  BY DEF Reset
<1> HIDE DEF h, t
<1>4. Owned(t) = Owned(sim) /\ Owned(sim) \subseteq ToProject(t)
  BY <1>1, <1>2 DEF Owned, ToProject
<1>5. /\ Covered(sim') /\ Clean(sim') /\ Owned(sim') = Owned(sim)
      /\ \A w \in Owned(sim) : sim'.history[w] = "positions"
  BY <1>2, <1>3, <1>4, FlushCleans
<1>6. /\ expected' = [w \in Owned(sim) |-> IF w \in Owned(sim) THEN "positions" ELSE expected[w]]
      /\ product' = product
  BY DEF Reset, Expect
<1> QED
  BY <1>5, <1>6, CleanEstablishes

(* commit, forward and render. *)
LEMMA FlushPreserves ==
  LiveInvariant /\ (CommitInitialState \/ Forward \/ Render) => LiveInvariant'
<1> SUFFICES ASSUME LiveInvariant, CommitInitialState \/ Forward \/ Render
             PROVE  LiveInvariant'
  OBVIOUS
<1>1. /\ sim' = Flush(sim) \/ sim' = Forwarded(sim)
      /\ life # "closed" /\ expected' = expected /\ product' = product
  BY DEF CommitInitialState, Forward, Render, Ready
<1>2. /\ Covered(sim') /\ Clean(sim') /\ Owned(sim') = Owned(sim)
      /\ \A w \in Owned(sim) : expected[w] # None => expected[w] = sim'.history[w]
  BY <1>1, FlushKeeps
<1> QED
  BY <1>1, <1>2, CleanEstablishes DEF LiveInvariant

(* A new model or a new gravity does not touch the books. *)
LEMMA ModelPreserves ==
  LiveInvariant /\ (InitializeWorlds \/ SetGravity \/ ModelWrite \/ ProductFails)
    => LiveInvariant'
<1> SUFFICES ASSUME LiveInvariant,
                    InitializeWorlds \/ SetGravity \/ ModelWrite \/ ProductFails
             PROVE  LiveInvariant'
  OBVIOUS
<1>1. /\ sim' = sim \/ sim' = [sim EXCEPT !.phase = 0]
      /\ life # "closed" /\ expected' = expected /\ product' = product
  BY DEF InitializeWorlds, SetGravity, ModelWrite, ProductFails, Ready
<1>2. /\ Covered(sim') /\ (Clean(sim) => Clean(sim'))
      /\ sim'.rows = sim.rows /\ sim'.project = sim.project /\ sim'.history = sim.history
  BY <1>1, PhaseCovers DEF LiveInvariant
<1> QED
  BY <1>1, <1>2 DEF LiveInvariant, Following, Owned

LEMMA MirrorWritePreserves == LiveInvariant /\ MirrorWrite => LiveInvariant'
<1> SUFFICES ASSUME LiveInvariant, MirrorWrite PROVE LiveInvariant'
  OBVIOUS
<1>1. PICK field \in {"joint", "body"} :
        /\ sim' = HostWrite(sim, field, Owned(sim))
        /\ IF field = "joint" THEN Expect(Owned(sim), "positions") ELSE UNCHANGED expected
  BY DEF MirrorWrite
<1>2. /\ Covered(sim') /\ sim'.rows = {} /\ sim'.history = sim.history
      /\ sim'.project = IF field = "joint" THEN sim.project \cup Owned(sim) ELSE sim.project
      /\ Owned(sim') = Owned(sim)
  <2> DEFINE t == HostWrite(sim, field, Owned(sim))
  <2>1. Covered(sim) /\ sim.rows = {}
    BY DEF LiveInvariant
  <2>2. \A ws : \A f \in Fields :
          LET o == HostWrite(sim, f, ws)
          IN  /\ Covered(o) /\ o.rows = sim.rows /\ o.history = sim.history
              /\ o.project = IF f = "joint" THEN sim.project \cup ws ELSE sim.project
    BY <2>1, HostWriteCovers
  <2>3. field \in Fields
    BY DEF Fields
  <2> QED
    BY <1>1, <2>1, <2>2, <2>3 DEF Owned
<1>3. product' = "mirror" /\ product = "mirror" /\ life' = life /\ life # "closed"
  BY DEF MirrorWrite, Mirror, Ready
<1>4. \A w \in Owned(sim') : expected'[w] # None => expected'[w] = Following(sim', w)
  <2>1. CASE field = "joint"
    BY <1>1, <1>2, <2>1 DEF Expect, Following
  <2>2. CASE field # "joint"
    BY <1>1, <1>2, <1>3, <2>2 DEF LiveInvariant, Following
  <2> QED
    BY <2>1, <2>2
<1>5. DOMAIN expected' = Owned(sim')
  BY <1>1, <1>2 DEF Expect, LiveInvariant
<1> QED
  BY <1>2, <1>3, <1>4, <1>5 DEF LiveInvariant

(* Writing the robots and the objects keeps the books whole. *)
LEMMA ObjectsCover ==
  ASSUME NEW s, Covered(s), s.rows = {}, NEW field \in Fields
  PROVE  /\ Covered(RobotsWritten(s)) /\ RobotsWritten(s).rows = {}
         /\ RobotsWritten(s).history = s.history
         /\ Covered(ObjectsWritten(s, field)) /\ ObjectsWritten(s, field).rows = {}
         /\ ObjectsWritten(s, field).history = s.history
<1>1. /\ Covered(RobotsWritten(s)) /\ RobotsWritten(s).rows = {}
      /\ RobotsWritten(s).history = s.history
  BY HostWriteCovers DEF RobotsWritten, Fields
<1>2. ASSUME NEW r, Covered(r), r.rows = {}, r.history = s.history
      PROVE  LET o == HostWrite(r, field, Owned(s))
             IN  Covered(o) /\ o.rows = {} /\ o.history = s.history
  <2>1. \A ws : \A f \in Fields :
          LET o == HostWrite(r, f, ws)
          IN  /\ Covered(o) /\ o.rows = r.rows /\ o.history = r.history
              /\ o.project = IF f = "joint" THEN r.project \cup ws ELSE r.project
    <3>1. Covered(r)
      BY <1>2
    <3> QED
      BY <3>1, HostWriteCovers
  <2> QED
    BY <1>2, <2>1
<1> QED
  BY <1>1, <1>2 DEF ObjectsWritten

LEMMA MirrorRestorePreserves == LiveInvariant /\ MirrorRestore => LiveInvariant'
<1> SUFFICES ASSUME LiveInvariant, MirrorRestore PROVE LiveInvariant'
  OBVIOUS
<1>1. PICK field \in {"joint", "body"}, value \in {"saved", "positions"} :
        /\ sim' = SolverRestored(ObjectsWritten(sim, field), History(value))
        /\ expected' = History(value)
  BY DEF MirrorRestore
<1>2. Covered(ObjectsWritten(sim, field))
  BY ObjectsCover DEF LiveInvariant, Fields
<1>3. Covered(sim') /\ Clean(sim') /\ sim'.history = History(value)
  BY <1>1, <1>2, SolverRestoredCleans
<1>4. product' = product
  BY DEF MirrorRestore
<1> QED
  BY <1>1, <1>3, <1>4, CleanEstablishes DEF Owned

LEMMA MirrorRestoreUndonePreserves ==
  LiveInvariant /\ MirrorRestoreUndone => LiveInvariant'
<1> SUFFICES ASSUME LiveInvariant, MirrorRestoreUndone PROVE LiveInvariant'
  OBVIOUS
<1>1. Covered(sim) /\ sim.rows = {}
  BY DEF LiveInvariant
<1>2. Covered(sim') /\ sim'.rows = {} /\ sim'.history = sim.history
  <2>1. CASE RobotsUndone
    <3>1. ASSUME NEW r, Covered(r), r.rows = {}, r.history = sim.history
          PROVE  LET o == RobotsWritten(r)
                 IN  Covered(o) /\ o.rows = {} /\ o.history = sim.history
      BY <3>1, ObjectsCover DEF Fields
    <3> QED
      BY <1>1, <2>1, <3>1, ObjectsCover DEF RobotsUndone, Fields
  <2>2. CASE \E field \in {"joint", "body"} : ObjectsUndone(field)
    <3>1. PICK field \in {"joint", "body"} : ObjectsUndone(field)
      BY <2>2
    <3>2. ASSUME NEW r, Covered(r), r.rows = {}, r.history = sim.history
          PROVE  /\ Covered(RobotsWritten(r)) /\ RobotsWritten(r).rows = {}
                 /\ RobotsWritten(r).history = sim.history
                 /\ Covered(ObjectsWritten(r, field)) /\ ObjectsWritten(r, field).rows = {}
                 /\ ObjectsWritten(r, field).history = sim.history
      BY <3>2, ObjectsCover DEF Fields
    <3> DEFINE once == ObjectsWritten(sim, field)
               twice == ObjectsWritten(once, field)
    <3>3. Covered(once) /\ once.rows = {} /\ once.history = sim.history
      BY <1>1, <3>2
    <3> HIDE DEF once
    <3>4. Covered(twice) /\ twice.rows = {} /\ twice.history = sim.history
      BY <3>2, <3>3
    <3> HIDE DEF twice
    <3>5. sim' = RobotsWritten(twice)
      BY <3>1 DEF ObjectsUndone, once, twice
    <3> QED
      BY <3>2, <3>4, <3>5
  <2>3. CASE \E field \in {"joint", "body"}, value \in {"saved", "positions"} :
               SolverUndone(field, value)
    <3>1. PICK field \in {"joint", "body"}, value \in {"saved", "positions"} :
            SolverUndone(field, value)
      BY <2>3
    <3> DEFINE failed == SolverRestored(ObjectsWritten(sim, field), History(value))
               undone == SolverRestored(failed, sim.history)
               once == ObjectsWritten(undone, field)
    <3>2. Covered(failed)
      BY <1>1, ObjectsCover, SolverRestoredCleans DEF Fields
    <3> HIDE DEF failed
    <3>3. Covered(undone) /\ undone.rows = {} /\ undone.history = sim.history
      BY <3>2, SolverRestoredCleans DEF Clean
    <3> HIDE DEF undone
    <3>4. Covered(once) /\ once.rows = {} /\ once.history = sim.history
      BY <3>3, ObjectsCover DEF Fields
    <3> HIDE DEF once
    <3>5. sim' = RobotsWritten(once)
      BY <3>1 DEF SolverUndone, failed, undone, once
    <3> QED
      BY <3>4, <3>5, ObjectsCover DEF Fields
  <2> QED
    BY <2>1, <2>2, <2>3 DEF MirrorRestoreUndone
<1>3. /\ product' = "mirror" /\ Owned(sim') = Owned(sim)
      /\ expected' = [w \in Owned(sim) |-> None]
  BY <1>2 DEF MirrorRestoreUndone, Mirror, NoExpectation, Owned
<1> QED
  BY <1>2, <1>3 DEF LiveInvariant

(* In the SAME_STEP case both writes read the token's mask, which holds the
   same rows for both. *)
LEMMA ResetRowsPreserves == LiveInvariant /\ ResetRows => LiveInvariant'
<1> SUFFICES ASSUME LiveInvariant, ResetRows PROVE LiveInvariant'
  OBVIOUS
<1>1. Covered(sim) /\ Clean(sim) /\ DOMAIN expected = Owned(sim)
  BY DEF LiveInvariant, ResetRows, Kaleidoscope, Ready
<1>2. PICK rows \in SUBSET Worlds, sameStep \in BOOLEAN :
        LET mask(field) == IF sameStep THEN "done" ELSE field
            bodies == DeviceWrite(DeviceWrite(sim, "joint", mask("joint"), rows),
                                  "body", mask("body"), rows)
            solver == SetHistory(Forwarded([bodies EXCEPT !.phase = 0]), rows, "positions")
        IN  /\ sim' = Forwarded(solver)
            /\ Expect(rows, "positions")
  BY DEF ResetRows
<1> DEFINE jointMask == IF sameStep THEN "done" ELSE "joint"
           bodyMask == IF sameStep THEN "done" ELSE "body"
           joints == DeviceWrite(sim, "joint", jointMask, rows)
           bodies == DeviceWrite(joints, "body", bodyMask, rows)
           settled == [bodies EXCEPT !.phase = 0]
           forwarded == Forwarded(settled)
           solver == SetHistory(forwarded, rows, "positions")
<1>3. sim' = Forwarded(solver) /\ Expect(rows, "positions")
  BY <1>2
<1>4. /\ jointMask \in Masks /\ bodyMask \in Masks
      /\ {"joint", "body"} \subseteq Fields
  BY DEF Masks, Fields
<1> HIDE DEF jointMask, bodyMask
<1>5. /\ Covered(joints) /\ joints.rows = {[field |-> "joint", mask |-> jointMask]}
      /\ joints.masks[jointMask] = rows /\ joints.history = sim.history
      /\ ToProject(joints) = rows
  <2>1. sim.rows = {} /\ ToProject(sim) = {}
    BY <1>1 DEF Clean, ToProject
  <2>2. \A r \in sim.rows : r.mask = jointMask => sim.masks[jointMask] = rows
    BY <2>1
  <2>3. /\ Covered(joints)
        /\ joints.rows = sim.rows \cup {[field |-> "joint", mask |-> jointMask]}
        /\ joints.masks[jointMask] = rows
        /\ joints.history = sim.history /\ joints.host = sim.host
        /\ joints.project = sim.project
        /\ ToProject(joints) = ToProject(sim) \cup rows
    BY <1>1, <1>4, <2>2, DeviceWriteCovers
  <2> QED
    BY <2>1, <2>3
<1> HIDE DEF joints
<1>6. Covered(bodies) /\ bodies.history = sim.history /\ ToProject(bodies) = rows
  <2>1. \A r \in joints.rows : r.mask = bodyMask => joints.masks[bodyMask] = rows
    BY <1>5
  <2>2. /\ Covered(bodies)
        /\ bodies.rows = joints.rows \cup {[field |-> "body", mask |-> bodyMask]}
        /\ bodies.masks[bodyMask] = rows
        /\ bodies.history = joints.history /\ bodies.host = joints.host
        /\ bodies.project = joints.project
        /\ ToProject(bodies) = ToProject(joints)
    BY <1>4, <1>5, <2>1, DeviceWriteCovers
  <2> QED
    BY <1>5, <2>2
<1> HIDE DEF bodies
<1>7. Covered(settled) /\ settled.history = sim.history /\ ToProject(settled) = rows
  BY <1>6, PhaseCovers
<1> HIDE DEF settled
<1>8. /\ Covered(forwarded) /\ Clean(forwarded) /\ Owned(forwarded) = Owned(sim)
      /\ \A w \in Owned(sim) :
           forwarded.history[w] = IF w \in rows THEN "positions" ELSE sim.history[w]
  BY <1>7, ForwardCleans DEF Owned
<1> HIDE DEF forwarded
<1>9. /\ Covered(solver) /\ Clean(solver) /\ Owned(solver) = Owned(sim)
      /\ \A w \in Owned(sim) :
           solver.history[w] = IF w \in rows THEN "positions" ELSE sim.history[w]
  BY <1>8, SetHistoryCovers
<1> HIDE DEF solver
<1>10. /\ Covered(sim') /\ Clean(sim') /\ Owned(sim') = Owned(sim)
       /\ \A w \in Owned(sim) :
            sim'.history[w] = IF w \in rows THEN "positions" ELSE sim.history[w]
  <2>1. ToProject(solver) = {}
    BY <1>9 DEF Clean, ToProject
  <2> QED
    BY <1>3, <1>9, <2>1, ForwardCleans
<1>11. \A w \in Owned(sim') : expected'[w] # None => expected'[w] = sim'.history[w]
  BY <1>1, <1>3, <1>10 DEF Expect, LiveInvariant, Following, ResetRows, Kaleidoscope, Ready, Clean
<1>12. DOMAIN expected' = Owned(sim') /\ product' = product
  BY <1>3, <1>10 DEF Expect, ResetRows
<1> QED
  BY <1>10, <1>11, <1>12, CleanEstablishes

(* Plain fields, then a forward: nothing is projected. *)
LEMMA PlainForward ==
  ASSUME NEW s, Covered(s), Clean(s), NEW fields, NEW worlds
  PROVE  LET t == Forwarded(FieldsWritten(s, fields, worlds))
         IN  /\ Covered(t) /\ Clean(t) /\ Owned(t) = Owned(s)
             /\ \A w \in Owned(s) : t.history[w] = s.history[w]
<1> DEFINE u == FieldsWritten(s, fields, worlds)
<1>1. Covered(u) /\ ToProject(u) = {} /\ u.history = s.history
  BY FieldsWrittenCovers
<1> HIDE DEF u
<1>2. /\ Covered(Forwarded(u)) /\ Clean(Forwarded(u)) /\ Owned(Forwarded(u)) = Owned(s)
      /\ \A w \in Owned(s) : Forwarded(u).history[w] = s.history[w]
  BY <1>1, ForwardCleans DEF Owned
<1> QED
  BY <1>2 DEF u

LEMMA WriteStatePreserves == LiveInvariant /\ WriteState => LiveInvariant'
<1> SUFFICES ASSUME LiveInvariant, WriteState PROVE LiveInvariant'
  OBVIOUS
<1>1. /\ Covered(sim) /\ Clean(sim) /\ DOMAIN expected = Owned(sim)
      /\ \A w \in Owned(sim) : expected[w] # None => expected[w] = sim.history[w]
  BY DEF LiveInvariant, WriteState, Kaleidoscope, Ready, Clean, Following
<1>2. PICK rows \in SUBSET Worlds \ {{}}, before \in PlainFields, after \in PlainFields,
           solver \in BOOLEAN :
        LET from == IF solver THEN [sim EXCEPT !.phase = 0] ELSE sim
        IN  \/ /\ sim' = Forwarded(PayloadWritten(from, before, after, rows))
               /\ Expect(rows, "saved")
            \/ /\ sim' = Forwarded(FieldsWritten(from, before, rows))
               /\ UNCHANGED expected
  BY DEF WriteState
<1> DEFINE from == IF solver THEN [sim EXCEPT !.phase = 0] ELSE sim
<1>3. Covered(from) /\ Clean(from) /\ Owned(from) = Owned(sim) /\ from.history = sim.history
  BY <1>1, PhaseCovers DEF Owned
<1>4. product' = product
  BY DEF WriteState
<1>5. \/ /\ sim' = Forwarded(PayloadWritten(from, before, after, rows))
         /\ Expect(rows, "saved")
      \/ /\ sim' = Forwarded(FieldsWritten(from, before, rows))
         /\ UNCHANGED expected
  BY <1>2
<1> HIDE DEF from
<1>6. CASE /\ sim' = Forwarded(FieldsWritten(from, before, rows))
           /\ UNCHANGED expected
  <2>1. /\ Covered(sim') /\ Clean(sim') /\ Owned(sim') = Owned(sim)
        /\ \A w \in Owned(sim) : sim'.history[w] = sim.history[w]
    BY <1>3, <1>6, PlainForward
  <2> QED
    BY <1>1, <1>4, <1>6, <2>1, CleanEstablishes
<1>7. CASE /\ sim' = Forwarded(PayloadWritten(from, before, after, rows))
           /\ Expect(rows, "saved")
  <2> DEFINE first == Forwarded(FieldsWritten(from, before, rows))
             drive == SetHistory(first, rows, "saved")
  <2>1. /\ Covered(first) /\ Clean(first) /\ Owned(first) = Owned(sim)
        /\ \A w \in Owned(sim) : first.history[w] = sim.history[w]
    BY <1>3, PlainForward
  <2> HIDE DEF first
  <2>2. /\ Covered(drive) /\ Clean(drive) /\ Owned(drive) = Owned(sim)
        /\ \A w \in Owned(sim) :
             drive.history[w] = IF w \in rows THEN "saved" ELSE sim.history[w]
    BY <2>1, SetHistoryCovers
  <2> HIDE DEF drive
  <2>3. sim' = Forwarded(FieldsWritten(drive, after, rows))
    BY <1>7 DEF PayloadWritten, DriveWritten, drive, first
  <2>4. /\ Covered(sim') /\ Clean(sim') /\ Owned(sim') = Owned(sim)
        /\ \A w \in Owned(sim) : sim'.history[w] = drive.history[w]
    BY <2>2, <2>3, PlainForward
  <2>5. \A w \in Owned(sim') : expected'[w] # None => expected'[w] = sim'.history[w]
    BY <1>1, <1>7, <2>2, <2>4 DEF Expect
  <2> QED
    BY <1>4, <1>7, <2>4, <2>5, CleanEstablishes DEF Expect
<1> QED
  BY <1>5, <1>6, <1>7

-----------------------------------------------------------------------------
LEMMA NextPreserves == RuntimeInvariant /\ [Next]_vars => RuntimeInvariant'
<1> SUFFICES ASSUME RuntimeInvariant, [Next]_vars, life' # "closed" PROVE LiveInvariant'
  BY DEF RuntimeInvariant
<1>1. life # "closed"
  BY DEF Next, vars, InitializeWorlds, Step, Reset, CommitInitialState, Forward, Render,
         SetGravity, ModelWrite, MirrorWrite, MirrorRestore, MirrorRestoreUndone, ResetRows,
         WriteState, ProductFails, Close, Ready, Mirror, Kaleidoscope
<1>2. LiveInvariant
  BY <1>1 DEF RuntimeInvariant
<1>3. CASE Next
  <2>1. ~Close
    BY DEF Close
  <2> QED
    BY <1>2, <1>3, <2>1, StepPreserves, ResetPreserves, FlushPreserves, ModelPreserves,
       MirrorWritePreserves, MirrorRestorePreserves, MirrorRestoreUndonePreserves,
       ResetRowsPreserves, WriteStatePreserves
       DEF Next
<1>4. CASE UNCHANGED vars
  BY <1>2, <1>4 DEF vars, LiveInvariant, Covered, Clean, Selected, ToProject, Owned, Following
<1> QED
  BY <1>3, <1>4

(* The books of pending writes are right in every reachable state. *)
THEOREM BooksCorrect == Spec => []RuntimeInvariant
<1>1. Init => RuntimeInvariant
  BY InitEstablishes DEF RuntimeInvariant
<1> QED
  BY <1>1, NextPreserves, PTL DEF Spec

(* _flush_cold_state_updates derives every world that was written, for every
   number of worlds. *)
THEOREM FlushDerives == Spec => []FlushDerivesEverything
<1>1. RuntimeInvariant => FlushDerivesEverything
  BY FlushCleans DEF RuntimeInvariant, LiveInvariant, FlushDerivesEverything, Ready, Clean
<1> QED
  BY <1>1, BooksCorrect, PTL

(* No later flush replaces a drive history an operation restored or reset. *)
THEOREM HistoryKept == Spec => []HistoryAsWritten
<1>1. RuntimeInvariant => HistoryAsWritten
  <2> SUFFICES ASSUME RuntimeInvariant, Ready PROVE HistoryAsWritten
    BY DEF HistoryAsWritten
  <2>1. LiveInvariant /\ life # "closed"
    BY DEF RuntimeInvariant, Ready
  <2>2. \A w \in Owned(sim) : expected[w] # None => expected[w] = Flush(sim).history[w]
    BY <2>1, FlushKeeps
  <2> QED
    BY <2>2 DEF HistoryAsWritten
<1> QED
  BY <1>1, BooksCorrect, PTL

-----------------------------------------------------------------------------
(* Types, and the age of the contacts. *)
OwnWorlds == IF product = "mirror" THEN {MirrorWorld} ELSE Worlds

Shape(s) ==
  /\ s.host \subseteq OwnWorlds /\ s.project \subseteq s.host
  /\ s.rows \subseteq [field : Fields, mask : Masks]
  /\ s.masks \in [Masks -> SUBSET Worlds]
  /\ s.stale \subseteq OwnWorlds /\ s.loose \subseteq s.stale
  /\ s.phase \in Phases /\ s.age \in 0 .. cadence.interval
  /\ s.history \in [OwnWorlds -> Histories]

(* The contacts last until the next detection: it comes first, or they are no
   older than the substeps since the phase was zero. *)
OnTime(s) == s.phase = 0 \/ s.age <= s.phase

(* So they do, but for a tick that failed half-way. *)
Settled(s) == behind \/ OnTime(s)

(* A pending write is flushed before the next substep, which detects first. *)
Fresh(s) == Pending(s) \/ Settled(s)

(* Books that cover what is out of date, and types. *)
Sound(s) == Covered(s) /\ Shape(s)

CadenceTyped ==
  /\ cadence \in Cadences
  /\ cadence.substeps \in Nat \ {0} /\ cadence.interval \in Nat \ {0}

LEMMA IntervalPositive == ASSUME CadenceTyped PROVE 0 \in Phases /\ cadence.interval \in Int
BY DEF CadenceTyped, Phases

(* A flush or a forward settles what was fresh: with something pending it sets
   the phase to zero, and without it changes neither phase nor age. *)
LEMMA FlushSettles ==
  ASSUME CadenceTyped, NEW s, Sound(s), Fresh(s)
  PROVE  Sound(Flush(s)) /\ Settled(Flush(s))
<1>1. Covered(Flush(s)) /\ Clean(Flush(s)) /\ Owned(Flush(s)) = Owned(s)
      /\ \A w \in Owned(s) :
           Flush(s).history[w] = IF w \in ToProject(s) THEN "positions" ELSE s.history[w]
  BY FlushCleans DEF Sound
<1>2. CASE Pending(s)
  <2> DEFINE h == SetHistory(s, ToProject(s), "positions")
  <2>1. /\ DOMAIN h = SimFields
        /\ h.history = [w \in Owned(s) |-> IF w \in ToProject(s) THEN "positions"
                                           ELSE s.history[w]]
        /\ h.masks = s.masks /\ h.age = s.age
    BY DEF Sound, Covered, SetHistory, SimFields
  <2>2. /\ Flush(s).masks = s.masks /\ Flush(s).age = s.age /\ Flush(s).phase = 0
        /\ Flush(s).history = h.history
    BY <1>2, <2>1 DEF Flush, Projected, SimFields
  <2>3. Flush(s).history \in [OwnWorlds -> Histories]
    <3>1. s.history \in [OwnWorlds -> Histories] /\ Owned(s) = OwnWorlds
      BY DEF Sound, Shape, Owned
    <3> QED
      BY <2>1, <2>2, <3>1 DEF Histories
  <2> QED
    BY <1>1, <2>2, <2>3, IntervalPositive DEF Sound, Shape, Clean, Settled, OnTime
<1>3. CASE ~Pending(s)
  BY <1>3 DEF Flush, Fresh
<1> QED
  BY <1>2, <1>3

LEMMA ForwardSettles ==
  ASSUME CadenceTyped, NEW s, Sound(s), Fresh(s)
  PROVE  Sound(Forwarded(s)) /\ Settled(Forwarded(s))
<1>1. CASE Pending(s)
  BY <1>1, FlushSettles DEF Forwarded
<1>2. CASE ~Pending(s)
  <2>1. Covered(Forwarded(s)) /\ Clean(Forwarded(s))
    BY ForwardCleans DEF Sound
  <2>2. /\ Forwarded(s).masks = s.masks /\ Forwarded(s).age = s.age
        /\ Forwarded(s).phase = s.phase /\ Forwarded(s).history = s.history
    BY <1>2 DEF Forwarded, Sound, Covered, SimFields
  <2> QED
    BY <1>2, <2>1, <2>2 DEF Sound, Shape, Clean, Settled, OnTime, Fresh
<1> QED
  BY <1>1, <1>2

(* A write that names every world is pending, and so fresh: the runtime owns a
   world at least. *)
LEMMA HostWriteFresh ==
  ASSUME CadenceTyped, NEW s, Sound(s), NEW field \in Fields
  PROVE  LET t == HostWrite(s, field, Owned(s))
         IN  Sound(t) /\ Fresh(t) /\ Owned(t) = Owned(s)
<1> DEFINE t == HostWrite(s, field, Owned(s))
<1>1. Covered(t)
  BY HostWriteCovers DEF Sound
<1>2. /\ t.rows = s.rows /\ t.history = s.history /\ t.masks = s.masks
      /\ t.host = s.host \cup Owned(s)
      /\ t.project = IF field = "joint" THEN s.project \cup Owned(s) ELSE s.project
      /\ t.stale = s.stale \cup Owned(s)
      /\ t.loose = IF field = "joint" THEN s.loose \cup Owned(s) ELSE s.loose
      /\ t.phase = s.phase /\ t.age = cadence.interval
  BY DEF HostWrite, Written, NeedsProjection, Sound, Covered, SimFields
<1> HIDE DEF t
<1>3. Owned(s) = OwnWorlds /\ OwnWorlds # {}
  BY WorldsAssumption DEF Sound, Shape, Owned, OwnWorlds
<1>4. cadence.interval \in 0 .. cadence.interval
  BY DEF CadenceTyped
<1>5. Shape(t)
  BY <1>2, <1>3, <1>4 DEF Sound, Shape
<1>6. Fresh(t) /\ Owned(t) = Owned(s)
  BY <1>2, <1>3 DEF Fresh, Pending, Owned
<1> QED
  BY <1>1, <1>5, <1>6 DEF Sound, t

(* A device write is pending whatever rows its mask names, none included. *)
LEMMA DeviceWriteFresh ==
  ASSUME CadenceTyped, product # "mirror", NEW s, Sound(s),
         NEW field \in Fields, NEW mask \in Masks, NEW worlds \in SUBSET Worlds,
         \A r \in s.rows : r.mask = mask => s.masks[mask] = worlds
  PROVE  LET t == DeviceWrite(s, field, mask, worlds)
         IN  Sound(t) /\ Fresh(t)
<1> DEFINE t == DeviceWrite(s, field, mask, worlds)
           e == [field |-> field, mask |-> mask]
<1>1. Covered(t)
  BY DeviceWriteCovers DEF Sound
<1>2. /\ t.rows = s.rows \cup {e} /\ t.history = s.history
      /\ t.host = s.host /\ t.project = s.project
      /\ t.masks = [s.masks EXCEPT ![mask] = worlds]
      /\ t.stale = s.stale \cup worlds
      /\ t.loose = IF field = "joint" THEN s.loose \cup worlds ELSE s.loose
      /\ t.phase = s.phase /\ t.age = cadence.interval
  BY DEF DeviceWrite, Written, Sound, Covered, SimFields
<1>3. e \in [field : Fields, mask : Masks]
  OBVIOUS
<1> HIDE DEF t, e
<1>4. OwnWorlds = Worlds
  BY DEF OwnWorlds
<1>5. cadence.interval \in 0 .. cadence.interval
  BY DEF CadenceTyped
<1>6. Shape(t)
  BY <1>2, <1>3, <1>4, <1>5 DEF Sound, Shape
<1>7. Fresh(t)
  BY <1>2 DEF Fresh, Pending
<1> QED
  BY <1>1, <1>6, <1>7 DEF Sound, t

(* A history, and a phase set to zero, leave the rest as it was. *)
LEMMA SetHistorySound ==
  ASSUME NEW s, Sound(s), NEW worlds, NEW value \in Histories
  PROVE  LET t == SetHistory(s, worlds, value)
         IN  /\ Sound(t) /\ Owned(t) = Owned(s)
             /\ t.phase = s.phase /\ t.age = s.age /\ t.host = s.host /\ t.rows = s.rows
<1> DEFINE t == SetHistory(s, worlds, value)
<1>1. Covered(t) /\ Owned(t) = Owned(s)
  BY SetHistoryCovers DEF Sound
<1>2. /\ t.rows = s.rows /\ t.masks = s.masks
      /\ t.host = s.host /\ t.project = s.project
      /\ t.stale = s.stale /\ t.loose = s.loose
      /\ t.phase = s.phase /\ t.age = s.age
      /\ t.history = [w \in Owned(s) |-> IF w \in worlds THEN value ELSE s.history[w]]
  BY DEF SetHistory, Sound, Covered, SimFields
<1> HIDE DEF t
<1>3. t.history \in [OwnWorlds -> Histories]
  <2>1. s.history \in [OwnWorlds -> Histories] /\ Owned(s) = OwnWorlds
    BY DEF Sound, Shape, Owned
  <2> QED
    BY <1>2, <2>1
<1> QED
  BY <1>1, <1>2, <1>3 DEF Sound, Shape, t

LEMMA PhaseSettles ==
  ASSUME CadenceTyped, NEW s, Sound(s), NEW t, t = [s EXCEPT !.phase = 0]
  PROVE  Sound(t) /\ Settled(t) /\ Fresh(t)
<1>1. Covered(t)
  BY PhaseCovers DEF Sound
<1>2. /\ t.rows = s.rows /\ t.masks = s.masks
      /\ t.host = s.host /\ t.project = s.project
      /\ t.stale = s.stale /\ t.loose = s.loose
      /\ t.phase = 0 /\ t.age = s.age /\ t.history = s.history
  BY DEF Sound, Covered, SimFields
<1> QED
  BY <1>1, <1>2, IntervalPositive DEF Sound, Shape, Settled, OnTime, Fresh

(* A restored solver starts at phase zero, flushed. *)
LEMMA SolverRestoredSettles ==
  ASSUME CadenceTyped, NEW s, Sound(s), NEW history \in [OwnWorlds -> Histories]
  PROVE  LET t == SolverRestored(s, history)
         IN  Sound(t) /\ Settled(t)
<1> DEFINE u == [s EXCEPT !.phase = 0]
           f == Flush(u)
           t == SolverRestored(s, history)
<1>1. Sound(u) /\ Fresh(u)
  BY PhaseSettles
<1>2. Sound(f) /\ Settled(f)
  BY <1>1, FlushSettles
<1>3. t = [f EXCEPT !.history = history]
  BY DEF SolverRestored
<1>4. Covered(t)
  BY SolverRestoredCleans DEF Sound
<1> HIDE DEF u, f, t
<1>5. /\ t.rows = f.rows /\ t.masks = f.masks
      /\ t.host = f.host /\ t.project = f.project
      /\ t.stale = f.stale /\ t.loose = f.loose
      /\ t.phase = f.phase /\ t.age = f.age /\ t.history = history
  BY <1>2, <1>3 DEF Sound, Covered, SimFields
<1> QED
  BY <1>2, <1>4, <1>5 DEF Sound, Shape, Settled, OnTime, t

(* The fields of a payload: each write refills a mask no earlier entry reads. *)
LEMMA FieldsWrittenFresh ==
  ASSUME CadenceTyped, product # "mirror", NEW s, Sound(s), Clean(s), Settled(s),
         NEW fields, NEW worlds \in SUBSET Worlds
  PROVE  Sound(FieldsWritten(s, fields, worlds)) /\ Fresh(FieldsWritten(s, fields, worlds))
<1> DEFINE full == IF "full" \in fields THEN DeviceWrite(s, "full", "full", worlds) ELSE s
           t == FieldsWritten(s, fields, worlds)
<1>1. s.rows = {} /\ {"full", "body"} \subseteq Masks /\ {"full", "body"} \subseteq Fields
  BY DEF Clean, Masks, Fields
<1>2. Sound(full) /\ Fresh(full) /\ \A r \in full.rows : r.mask # "body"
  <2>1. CASE "full" \in fields
    <3> DEFINE u == DeviceWrite(s, "full", "full", worlds)
    <3>1. \A r \in s.rows : r.mask = "full" => s.masks["full"] = worlds
      BY <1>1
    <3>2. u.rows = s.rows \cup {[field |-> "full", mask |-> "full"]}
      BY <1>1, <3>1, DeviceWriteCovers DEF Sound
    <3>3. Sound(u) /\ Fresh(u)
      BY <1>1, <3>1, DeviceWriteFresh
    <3> QED
      BY <1>1, <2>1, <3>2, <3>3
  <2>2. CASE "full" \notin fields
    BY <1>1, <2>2 DEF Fresh
  <2> QED
    BY <2>1, <2>2
<1>3. t = IF "body" \in fields THEN DeviceWrite(full, "body", "body", worlds) ELSE full
  BY DEF FieldsWritten
<1> HIDE DEF full, t
<1>4. Sound(t) /\ Fresh(t)
  <2>1. CASE "body" \in fields
    <3>1. \A r \in full.rows : r.mask = "body" => full.masks["body"] = worlds
      BY <1>2
    <3> QED
      BY <1>1, <1>2, <1>3, <2>1, <3>1, DeviceWriteFresh
  <2>2. CASE "body" \notin fields
    BY <1>2, <1>3, <2>2
  <2> QED
    BY <2>1, <2>2
<1> QED
  BY <1>4 DEF t

-----------------------------------------------------------------------------
(* The arithmetic of the collision phase. *)
(* A multiple of b other than zero is at least b away from it. *)
LEMMA ProductGrows ==
  ASSUME NEW b \in Nat \ {0}, NEW q \in Int
  PROVE  (q >= 1 => b * q >= b) /\ (q <= -1 => b * q <= -b)
OBVIOUS

(* A remainder is unique. *)
LEMMA Remainder ==
  ASSUME NEW b \in Nat \ {0}, NEW q \in Int, NEW r \in 0 .. b - 1
  PROVE  (b * q + r) % b = r
<1> DEFINE x == b * q + r
           m == x % b
           d == x \div b
<1>1. x \in Int /\ m \in 0 .. b - 1 /\ d \in Int /\ x = b * d + m
  OBVIOUS
<1> HIDE DEF m, d
<1>2. b * (d - q) = r - m
  BY <1>1
<1>3. d - q = 0
  BY <1>1, <1>2, ProductGrows
<1> QED
  BY <1>1, <1>2, <1>3 DEF m

(* The remainder starts again after a whole interval. *)
LEMMA RemainderWraps ==
  ASSUME NEW b \in Nat \ {0}, NEW x \in Nat, x % b = 0, NEW r \in 0 .. b
  PROVE  /\ r = b => (x + r) % b = 0
         /\ r < b => (x + r) % b = r
<1> DEFINE d == x \div b
<1>1. d \in Int /\ x = b * d
  OBVIOUS
<1> HIDE DEF d
<1>2. CASE r = b
  <2>1. x + r = b * (d + 1) + 0
    BY <1>1, <1>2
  <2>2. d + 1 \in Int /\ 0 \in 0 .. b - 1
    BY <1>1
  <2> HIDE DEF d
  <2> QED
    BY <1>2, <2>1, <2>2, Remainder
<1>3. CASE r < b
  <2>1. r \in 0 .. b - 1
    BY <1>3
  <2> QED
    BY <1>1, <1>3, <2>1, Remainder
<1> QED
  BY <1>2, <1>3

LEMMA SmallRemainder ==
  ASSUME NEW b \in Nat \ {0}, NEW r \in 0 .. b
  PROVE  (r = b => r % b = 0) /\ (r < b => r % b = r)
<1>1. (b * 0 + 0) % b = 0
  BY Remainder
<1>2. 0 % b = 0 /\ 0 + r = r
  BY <1>1
<1>3. (r = b => (0 + r) % b = 0) /\ (r < b => (0 + r) % b = r)
  BY <1>2, RemainderWraps
<1> QED
  BY <1>2, <1>3

(* A set of naturals with a bound has a largest element. *)
LEMMA MaxExists ==
  ASSUME NEW n \in Nat, NEW S \in SUBSET (0 .. n), S # {}
  PROVE  Max(S) \in S /\ \A x \in S : x <= Max(S)
<1> DEFINE T == {n - x : x \in S}
<1>1. T \subseteq Nat /\ T # {}
  <2>1. ASSUME NEW x \in S PROVE n - x \in Nat
    OBVIOUS
  <2>2. PICK x \in S : TRUE
    OBVIOUS
  <2>3. n - x \in T
    BY <2>2
  <2> QED
    BY <2>1, <2>3
<1>2. \E m \in T : \A y \in T : ~ (<<y, m>> \in OpToRel(<, Nat))
  BY <1>1, NatLessThanWellFounded, WFMin
<1>3. PICK m \in T : \A y \in T : ~ (y < m)
  BY <1>1, <1>2 DEF OpToRel
<1>4. PICK x \in S : m = n - x
  BY <1>3
<1>5. \A y \in S : x >= y
  BY <1>3, <1>4
<1> QED
  BY <1>4, <1>5 DEF Max

(* The substeps of a tick up to j that detect collisions. *)
Detected(s, j) == {d \in 0 .. j : (s.phase + d) % cadence.interval = 0}

(* Whatever happened before, the contacts of a substep have an age. *)
LEMMA ContactsHaveAge ==
  ASSUME CadenceTyped, NEW s, s.phase \in Phases, s.age \in 0 .. cadence.interval,
         NEW j \in Nat
  PROVE  ContactAge(s, s.phase, j) \in Nat
<1>1. ContactAge(s, s.phase, j) =
        IF Detected(s, j) = {} THEN s.age + j ELSE j - Max(Detected(s, j))
  BY DEF ContactAge, Detected
<1>2. CASE Detected(s, j) = {}
  BY <1>1, <1>2 DEF CadenceTyped
<1>3. CASE Detected(s, j) # {}
  <2>1. Detected(s, j) \in SUBSET (0 .. j)
    BY DEF Detected
  <2>2. Max(Detected(s, j)) \in 0 .. j
    BY <1>3, <2>1, MaxExists
  <2> QED
    BY <1>1, <1>3, <2>2
<1> QED
  BY <1>2, <1>3

(* Substep j of a tick that starts on time: before its first detection the
   phase has not yet come round, and after it the next one is never overdue. *)
LEMMA AgeOfContacts ==
  ASSUME CadenceTyped, NEW s, s.phase \in Phases, s.age \in 0 .. cadence.interval,
         OnTime(s), NEW j \in Nat
  PROVE  /\ ContactAge(s, s.phase, j) \in 0 .. cadence.interval - 1
         /\ LET phase == (s.phase + j + 1) % cadence.interval
            IN  phase = 0 \/ ContactAge(s, s.phase, j) + 1 <= phase
<1> DEFINE I == cadence.interval
           p == s.phase
           age == ContactAge(s, s.phase, j)
<1>1. I \in Nat \ {0} /\ p \in 0 .. I - 1
  BY DEF CadenceTyped, Phases
<1>2. age = IF Detected(s, j) = {} THEN s.age + j ELSE j - Max(Detected(s, j))
  BY DEF ContactAge, Detected
<1>3. CASE Detected(s, j) = {}
  <2>1. p # 0
    <3>1. SUFFICES ASSUME p = 0 PROVE FALSE
      OBVIOUS
    <3>2. 0 \in 0 .. j /\ (p + 0) % I = 0
      BY <1>1, <3>1, SmallRemainder
    <3> QED
      BY <1>3, <3>2 DEF Detected
  <2>2. p + j < I
    <3>1. SUFFICES ASSUME p + j >= I PROVE FALSE
      BY <1>1
    <3> DEFINE d == I - p
    <3>2. d \in 0 .. j /\ p + d = I
      BY <1>1, <3>1
    <3>3. (p + d) % I = 0
      BY <1>1, <3>2, SmallRemainder
    <3> QED
      BY <1>3, <3>2, <3>3 DEF Detected
  <2>3. age = s.age + j /\ s.age <= p
    BY <1>2, <1>3, <2>1 DEF OnTime
  <2>4. age \in 0 .. I - 1 /\ p + j + 1 \in 0 .. I
    BY <1>1, <2>2, <2>3
  <2>5. (p + j + 1) % I = 0 \/ (p + j + 1) % I = p + j + 1
    BY <1>1, <2>4, SmallRemainder
  <2> QED
    BY <1>1, <2>3, <2>4, <2>5
<1>4. CASE Detected(s, j) # {}
  <2> DEFINE m == Max(Detected(s, j))
  <2>1. m \in 0 .. j /\ (p + m) % I = 0 /\ \A d \in Detected(s, j) : d <= m
    <3>1. Detected(s, j) \in SUBSET (0 .. j)
      BY DEF Detected
    <3>2. m \in Detected(s, j) /\ \A d \in Detected(s, j) : d <= m
      BY <1>4, <3>1, MaxExists
    <3> QED
      BY <3>2 DEF Detected
  <2>2. age = j - m
    BY <1>2, <1>4
  <2> HIDE DEF m
  <2>3. j - m < I
    <3>1. SUFFICES ASSUME j - m >= I PROVE FALSE
      BY <1>1, <2>1
    <3>2. m + I \in 0 .. j /\ p + (m + I) = (p + m) + I /\ p + m \in Nat /\ I \in 0 .. I
      BY <1>1, <2>1, <3>1
    <3>3. ((p + m) + I) % I = 0
      BY <1>1, <2>1, <3>2, RemainderWraps
    <3>4. m + I \in Detected(s, j)
      BY <3>2, <3>3 DEF Detected
    <3> QED
      BY <1>1, <2>1, <3>4
  <2>4. /\ age \in 0 .. I - 1 /\ age + 1 \in 0 .. I /\ p + m \in Nat
        /\ p + j + 1 = (p + m) + (age + 1)
    BY <1>1, <2>1, <2>2, <2>3
  <2> DEFINE x == p + m
             r == age + 1
  <2>5. I \in Nat \ {0} /\ x \in Nat /\ x % I = 0 /\ r \in 0 .. I
    BY <1>1, <2>1, <2>4
  <2> HIDE DEF I, x, r
  <2>6. (r = I => (x + r) % I = 0) /\ (r < I => (x + r) % I = r)
    BY <2>5, RemainderWraps
  <2>7. p + j + 1 = x + r /\ (r = I \/ r < I)
    BY <2>4, <2>5 DEF x, r
  <2>8. (p + j + 1) % I = 0 \/ r <= (p + j + 1) % I
    BY <2>5, <2>6, <2>7
  <2> QED
    BY <2>4, <2>8 DEF I, r
<1> QED
  BY <1>3, <1>4

(* A whole tick has its types, and one that starts on time detects before its
   contacts are too old and leaves them as old as its phase says. *)
LEMMA SimulateSettles ==
  ASSUME CadenceTyped, NEW s, Sound(s), Settled(s), Simulate(s, s.phase)
  PROVE  /\ Shape(sim') /\ used' \in 0 .. cadence.interval
         /\ behind' \/ (OnTime(sim') /\ used' < cadence.interval)
<1> DEFINE h == SetHistory(s, Owned(s), "moved")
           last == ContactAge(s, s.phase, cadence.substeps - 1)
           phase == (s.phase + cadence.substeps) % cadence.interval
           ages == {Capped(ContactAge(s, s.phase, j)) : j \in Substeps}
<1>1. /\ cadence.substeps \in Nat \ {0} /\ cadence.interval \in Nat \ {0}
      /\ s.phase \in Phases /\ s.age \in 0 .. cadence.interval
  BY DEF CadenceTyped, Sound, Shape
<1>2. Sound(h) /\ h.phase = s.phase
  BY SetHistorySound DEF Histories
<1>3. /\ used' = Max(ages)
      /\ sim' = [h EXCEPT !.phase = phase, !.age = Capped(last + 1)]
      /\ behind' \/ OnTime(s)
  BY DEF Simulate, Settled, OnTime
<1>4. used' \in ages /\ used' \in 0 .. cadence.interval
  <2>1. \A j \in Substeps : ContactAge(s, s.phase, j) \in Nat
    BY <1>1, ContactsHaveAge DEF Substeps
  <2>2. ages \in SUBSET (0 .. cadence.interval)
    BY <1>1, <2>1 DEF Capped
  <2>3. ages # {}
    <3>1. 0 \in Substeps
      BY <1>1 DEF Substeps
    <3> QED
      BY <3>1
  <2>4. cadence.interval \in Nat
    BY <1>1
  <2> HIDE DEF ages
  <2>5. Max(ages) \in ages
    BY <2>2, <2>3, <2>4, MaxExists
  <2> QED
    BY <1>3, <2>2, <2>5
<1>5. ASSUME OnTime(s) PROVE used' < cadence.interval
  <2>1. \A j \in Substeps : ContactAge(s, s.phase, j) \in 0 .. cadence.interval - 1
    BY <1>1, <1>5, AgeOfContacts DEF Substeps
  <2>2. \A age \in ages : age < cadence.interval
    BY <1>1, <2>1 DEF Capped
  <2> HIDE DEF ages
  <2> QED
    BY <1>4, <2>2
<1>6. last \in Nat /\ phase \in Phases
  <2> DEFINE j == cadence.substeps - 1
  <2>1. j \in Nat
    BY <1>1
  <2> HIDE DEF j
  <2>2. ContactAge(s, s.phase, j) \in Nat
    BY <1>1, <2>1, ContactsHaveAge
  <2>3. last \in Nat
    BY <2>2 DEF j
  <2>4. phase \in Phases
    BY <1>1 DEF Phases
  <2> QED
    BY <2>3, <2>4
<1>7. ASSUME OnTime(s) PROVE last < cadence.interval /\ (phase = 0 \/ last + 1 <= phase)
  <2> DEFINE j == cadence.substeps - 1
  <2>1. j \in Nat /\ s.phase + j + 1 = s.phase + cadence.substeps
    BY <1>1 DEF Phases
  <2> HIDE DEF j
  <2>2. /\ ContactAge(s, s.phase, j) \in 0 .. cadence.interval - 1
        /\ LET r == (s.phase + j + 1) % cadence.interval
           IN  r = 0 \/ ContactAge(s, s.phase, j) + 1 <= r
    BY <1>1, <1>7, <2>1, AgeOfContacts
  <2> QED
    BY <1>1, <2>1, <2>2 DEF j
<1> HIDE DEF h, last, phase, ages
<1>8. Capped(last + 1) \in 0 .. cadence.interval /\ Capped(last + 1) <= last + 1
  BY <1>1, <1>6 DEF Capped
<1>9. /\ sim'.rows = h.rows /\ sim'.masks = h.masks /\ sim'.host = h.host
      /\ sim'.project = h.project /\ sim'.stale = h.stale /\ sim'.loose = h.loose
      /\ sim'.history = h.history /\ sim'.phase = phase /\ sim'.age = Capped(last + 1)
  BY <1>2, <1>3 DEF Sound, Covered, SimFields
<1>10. Shape(sim')
  BY <1>2, <1>6, <1>8, <1>9 DEF Sound, Shape
<1>11. ASSUME OnTime(s) PROVE OnTime(sim')
  <2>1. phase \in Int /\ last + 1 \in Int /\ Capped(last + 1) \in Int
    BY <1>1, <1>6, <1>8 DEF Phases
  <2> QED
    BY <1>7, <1>8, <1>9, <1>11, <2>1 DEF OnTime
<1> QED
  BY <1>3, <1>4, <1>5, <1>10, <1>11

(* A tick that failed half-way keeps its types, and the flag says when its
   contacts may be too old for its phase. *)
LEMMA HalfWaySettles ==
  ASSUME CadenceTyped, NEW s, Sound(s), Settled(s), SimulateHalfWay(s, s.phase)
  PROVE  Shape(sim') /\ (behind' \/ OnTime(sim'))
<1> DEFINE h == SetHistory(s, Owned(s), "moved")
<1>1. /\ cadence.interval \in Nat \ {0}
      /\ s.phase \in Phases /\ s.age \in 0 .. cadence.interval
  BY DEF CadenceTyped, Sound, Shape
<1>2. Sound(h) /\ h.phase = s.phase
  BY SetHistorySound DEF Histories
<1>3. behind' \/ s.phase = 0
  BY DEF SimulateHalfWay
<1>4. CASE sim' = s
  BY <1>3, <1>4 DEF Sound, OnTime
<1>5. CASE sim' # s
  <2>1. PICK j \in Substeps, solved \in {0, 1} :
          sim' = [h EXCEPT !.age = Capped(ContactAge(s, s.phase, j) + solved)]
    BY <1>5 DEF SimulateHalfWay
  <2> DEFINE age == ContactAge(s, s.phase, j)
  <2>2. age \in Nat
    BY <1>1, ContactsHaveAge DEF Substeps
  <2> HIDE DEF h, age
  <2>3. Capped(age + solved) \in 0 .. cadence.interval
    BY <1>1, <2>2 DEF Capped
  <2>4. /\ sim'.rows = h.rows /\ sim'.masks = h.masks /\ sim'.host = h.host
        /\ sim'.project = h.project /\ sim'.stale = h.stale /\ sim'.loose = h.loose
        /\ sim'.history = h.history /\ sim'.phase = h.phase
        /\ sim'.age = Capped(age + solved)
    BY <1>2, <2>1 DEF Sound, Covered, SimFields, age
  <2> QED
    BY <1>2, <1>3, <2>3, <2>4 DEF Sound, Shape, OnTime
<1> QED
  BY <1>4, <1>5

-----------------------------------------------------------------------------
(* The inductive invariant: types, every graph the one of its phase, and what is
   not pending young enough for the phase it is in. *)
TypedInvariant ==
  /\ product \in {"mirror", "kaleidoscope"} /\ cadence \in Cadences
  /\ life \in {"created", "ready", "closed"} /\ broken \in BOOLEAN
  /\ graphState \in {"disabled", "pending", "captured", "eager_fallback"}
  /\ clock \in {"zero", "later"}
  /\ graphs \in [Phases -> Phases \cup {None}]
  /\ \A p \in Phases : graphs[p] \in {p, None}
  /\ Shape(sim)
  /\ life # "closed" => Fresh(sim)
  /\ used \in 0 .. cadence.interval /\ behind \in BOOLEAN
  /\ behind \/ used < cadence.interval
  /\ expected \in [OwnWorlds -> Histories \cup {None}]

LEMMA InitTyped == Init => TypedInvariant
<1> SUFFICES ASSUME Init PROVE TypedInvariant
  OBVIOUS
<1>1. CadenceTyped
  BY CadencesAssumption DEF Init, CadenceTyped
<1>2. /\ sim = [host |-> {}, project |-> {}, rows |-> {}, masks |-> [m \in Masks |-> {}],
                stale |-> {}, loose |-> {}, phase |-> 0, age |-> cadence.interval,
                history |-> [w \in OwnWorlds |-> "positions"]]
      /\ expected = [w \in OwnWorlds |-> None]
  BY DEF Init, OwnWorlds
<1>3. cadence.interval \in 0 .. cadence.interval /\ 0 \in 0 .. cadence.interval - 1
      /\ 0 \in 0 .. cadence.interval /\ 0 < cadence.interval
  BY <1>1 DEF CadenceTyped
<1>4. Shape(sim) /\ Fresh(sim)
  BY <1>2, <1>3 DEF Shape, Fresh, Settled, OnTime, Phases, Histories
<1>5. /\ graphs \in [Phases -> Phases \cup {None}]
      /\ \A p \in Phases : graphs[p] \in {p, None}
  BY DEF Init, Phases
<1>6. expected \in [OwnWorlds -> Histories \cup {None}]
  BY <1>2
<1> QED
  BY <1>3, <1>4, <1>5, <1>6 DEF Init, TypedInvariant

(* What every lemma on an action starts from. *)
Working == TypedInvariant /\ LiveInvariant /\ life # "closed"

LEMMA WorkingIs ==
  ASSUME Working
  PROVE  CadenceTyped /\ Sound(sim) /\ Fresh(sim) /\ Owned(sim) = OwnWorlds
BY CadencesAssumption DEF Working, TypedInvariant, LiveInvariant, CadenceTyped, Sound,
   Shape, Owned

(* Every graph in the table was recorded in the phase it is looked up for, so
   that a replay detects where an eager tick would. *)
LEMMA StepSettles ==
  ASSUME Working, Step
  PROVE  /\ Shape(sim') /\ behind' \in BOOLEAN /\ used' \in 0 .. cadence.interval
         /\ behind' \/ OnTime(sim')
         /\ behind' \/ used' < cadence.interval
<1> DEFINE s == Flush(sim)
<1>1. CadenceTyped /\ Sound(s) /\ Settled(s)
  BY WorkingIs, FlushSettles
<1>2. s.phase \in Phases
  BY <1>1 DEF Sound, Shape
<1>3. Tick(s, s.phase)
  <2>1. \/ graphs[s.phase] # None /\ Tick(s, graphs[s.phase])
        \/ Tick(s, s.phase)
    BY DEF Step, GraphSlot
  <2>2. graphs[s.phase] \in {s.phase, None}
    BY <1>2 DEF Working, TypedInvariant
  <2> HIDE DEF s
  <2> QED
    BY <2>1, <2>2
<1> HIDE DEF s
<1>4. CASE Simulate(s, s.phase)
  <2>1. behind' \in BOOLEAN
    BY <1>4 DEF Simulate
  <2> QED
    BY <1>1, <1>4, <2>1, SimulateSettles
<1>5. CASE SimulateHalfWay(s, s.phase)
  <2>1. behind' \in BOOLEAN /\ (behind => behind') /\ used' = used
    BY <1>5 DEF SimulateHalfWay
  <2>2. used \in 0 .. cadence.interval /\ (behind \/ used < cadence.interval)
    BY DEF Working, TypedInvariant
  <2> QED
    BY <1>1, <1>5, <2>1, <2>2, HalfWaySettles
<1> QED
  BY <1>3, <1>4, <1>5 DEF Tick

(* Every other action leaves the simulation pending or settled. *)
LEMMA ResetSettles == ASSUME Working, Reset PROVE Shape(sim') /\ Fresh(sim')
<1> DEFINE h == SetHistory(sim, Owned(sim), "saved")
           t == HostWrite(h, "joint", Owned(h))
<1>1. CadenceTyped /\ Sound(sim)
  BY WorkingIs
<1>2. Sound(h) /\ Owned(h) = Owned(sim)
  BY <1>1, SetHistorySound DEF Histories
<1>3. sim' = Flush(t)
  BY <1>2 DEF Reset
<1> HIDE DEF h
<1>4. Sound(t) /\ Fresh(t)
  BY <1>1, <1>2, HostWriteFresh DEF Fields
<1> HIDE DEF t
<1> QED
  BY <1>1, <1>3, <1>4, FlushSettles DEF Sound, Fresh

(* The actions that flush, that touch the phase, or that touch nothing. *)
LEMMA QuietSettles ==
  ASSUME Working,
         \/ InitializeWorlds \/ CommitInitialState \/ Forward \/ Render
         \/ SetGravity \/ ModelWrite \/ ProductFails
  PROVE  Shape(sim') /\ Fresh(sim')
<1>1. CadenceTyped /\ Sound(sim) /\ Fresh(sim)
  BY WorkingIs
<1>2. \/ sim' = sim \/ sim' = [sim EXCEPT !.phase = 0]
      \/ sim' = Flush(sim) \/ sim' = Forwarded(sim)
  BY DEF InitializeWorlds, CommitInitialState, Forward, Render, SetGravity, ModelWrite,
         ProductFails
<1>3. Sound(sim') /\ Fresh(sim')
  BY <1>1, <1>2, FlushSettles, ForwardSettles, PhaseSettles DEF Fresh
<1> QED
  BY <1>3 DEF Sound

LEMMA MirrorWriteSettles == ASSUME Working, MirrorWrite PROVE Shape(sim') /\ Fresh(sim')
<1>1. PICK field \in Fields : sim' = HostWrite(sim, field, Owned(sim))
  BY DEF MirrorWrite, Fields
<1>2. Sound(sim') /\ Fresh(sim')
  BY <1>1, WorkingIs, HostWriteFresh
<1> QED
  BY <1>2 DEF Sound

LEMMA ObjectsFresh ==
  ASSUME CadenceTyped, NEW s, Sound(s), NEW field \in Fields
  PROVE  /\ Sound(RobotsWritten(s)) /\ Fresh(RobotsWritten(s))
         /\ Sound(ObjectsWritten(s, field)) /\ Owned(ObjectsWritten(s, field)) = Owned(s)
<1> DEFINE r == RobotsWritten(s)
<1>1. Sound(r) /\ Fresh(r) /\ Owned(r) = Owned(s)
  BY HostWriteFresh DEF RobotsWritten, Fields
<1>2. ObjectsWritten(s, field) = HostWrite(r, field, Owned(r))
  BY <1>1 DEF ObjectsWritten
<1> HIDE DEF r
<1>3. Sound(ObjectsWritten(s, field)) /\ Owned(ObjectsWritten(s, field)) = Owned(r)
  BY <1>1, <1>2, HostWriteFresh
<1> QED
  BY <1>1, <1>3 DEF r

LEMMA HistoryTyped ==
  ASSUME Working, NEW value \in Histories
  PROVE  History(value) \in [OwnWorlds -> Histories] /\ sim.history \in [OwnWorlds -> Histories]
BY WorkingIs DEF History, Sound, Shape

LEMMA MirrorRestoreSettles ==
  ASSUME Working, MirrorRestore PROVE Shape(sim') /\ Fresh(sim')
<1>1. PICK field \in Fields, value \in Histories :
        sim' = SolverRestored(ObjectsWritten(sim, field), History(value))
  BY DEF MirrorRestore, Fields, Histories
<1> DEFINE o == ObjectsWritten(sim, field)
<1>2. CadenceTyped /\ Sound(o)
  BY WorkingIs, ObjectsFresh
<1>3. History(value) \in [OwnWorlds -> Histories]
  BY HistoryTyped
<1> HIDE DEF o
<1>4. Sound(SolverRestored(o, History(value))) /\ Settled(SolverRestored(o, History(value)))
  BY <1>2, <1>3, SolverRestoredSettles
<1> QED
  BY <1>1, <1>4 DEF Sound, Fresh, o

LEMMA MirrorRestoreUndoneSettles ==
  ASSUME Working, MirrorRestoreUndone PROVE Shape(sim') /\ Fresh(sim')
<1>1. CadenceTyped /\ Sound(sim)
  BY WorkingIs
<1>2. \E last : Sound(last) /\ sim' = RobotsWritten(last)
  <2>1. CASE RobotsUndone
    BY <1>1, <2>1, ObjectsFresh DEF RobotsUndone, Fields
  <2>2. CASE \E field \in {"joint", "body"} : ObjectsUndone(field)
    <3>1. PICK field \in Fields : ObjectsUndone(field)
      BY <2>2 DEF Fields
    <3>2. \A s : Sound(s) => Sound(ObjectsWritten(s, field))
      BY <1>1, ObjectsFresh
    <3> QED
      BY <1>1, <3>1, <3>2 DEF ObjectsUndone
  <2>3. CASE \E field \in {"joint", "body"}, value \in {"saved", "positions"} :
               SolverUndone(field, value)
    <3>1. PICK field \in Fields, value \in Histories : SolverUndone(field, value)
      BY <2>3 DEF Fields, Histories
    <3>2. \A s : Sound(s) => Sound(ObjectsWritten(s, field))
      BY <1>1, ObjectsFresh
    <3>3. \A s : \A h \in [OwnWorlds -> Histories] :
            Sound(s) => Sound(SolverRestored(s, h))
      BY <1>1, SolverRestoredSettles
    <3>4. /\ History(value) \in [OwnWorlds -> Histories]
          /\ sim.history \in [OwnWorlds -> Histories]
      BY HistoryTyped
    <3> QED
      BY <1>1, <3>1, <3>2, <3>3, <3>4 DEF SolverUndone
  <2> QED
    BY <2>1, <2>2, <2>3 DEF MirrorRestoreUndone
<1>3. Sound(sim') /\ Fresh(sim')
  BY <1>1, <1>2, ObjectsFresh DEF Fields
<1> QED
  BY <1>3 DEF Sound

LEMMA ResetRowsSettles == ASSUME Working, ResetRows PROVE Shape(sim') /\ Fresh(sim')
<1>1. CadenceTyped /\ Sound(sim) /\ Clean(sim) /\ product # "mirror"
  BY WorkingIs DEF Working, LiveInvariant, ResetRows, Kaleidoscope
<1>2. PICK rows \in SUBSET Worlds, jointMask \in Masks, bodyMask \in Masks :
        LET bodies == DeviceWrite(DeviceWrite(sim, "joint", jointMask, rows),
                                  "body", bodyMask, rows)
        IN  sim' = Forwarded(SetHistory(Forwarded([bodies EXCEPT !.phase = 0]),
                                        rows, "positions"))
  <2>1. PICK rows \in SUBSET Worlds, sameStep \in BOOLEAN :
          LET mask(field) == IF sameStep THEN "done" ELSE field
              bodies == DeviceWrite(DeviceWrite(sim, "joint", mask("joint"), rows),
                                    "body", mask("body"), rows)
              solver == SetHistory(Forwarded([bodies EXCEPT !.phase = 0]), rows, "positions")
          IN  sim' = Forwarded(solver)
    BY DEF ResetRows
  <2>2. CASE sameStep
    <3>1. "done" \in Masks
      BY DEF Masks
    <3> QED
      BY <2>1, <2>2, <3>1
  <2>3. CASE ~sameStep
    <3>1. "joint" \in Masks /\ "body" \in Masks
      BY DEF Masks, Fields
    <3> QED
      BY <2>1, <2>3, <3>1
  <2> QED
    BY <2>2, <2>3
<1> DEFINE joints == DeviceWrite(sim, "joint", jointMask, rows)
           bodies == DeviceWrite(joints, "body", bodyMask, rows)
           settled == [bodies EXCEPT !.phase = 0]
           forwarded == Forwarded(settled)
           solver == SetHistory(forwarded, rows, "positions")
<1>3. sim' = Forwarded(solver)
  BY <1>2
<1>4. /\ Sound(joints) /\ joints.rows = {[field |-> "joint", mask |-> jointMask]}
      /\ joints.masks[jointMask] = rows
  <2>1. \A r \in sim.rows : r.mask = jointMask => sim.masks[jointMask] = rows
    BY <1>1 DEF Clean
  <2>2. Sound(joints)
    BY <1>1, <2>1, DeviceWriteFresh DEF Fields
  <2>3. /\ joints.rows = sim.rows \cup {[field |-> "joint", mask |-> jointMask]}
        /\ joints.masks[jointMask] = rows
    BY <1>1, <2>1, DeviceWriteCovers DEF Fields, Sound
  <2> QED
    BY <1>1, <2>2, <2>3 DEF Clean
<1> HIDE DEF joints
<1>5. Sound(bodies)
  <2>1. \A r \in joints.rows : r.mask = bodyMask => joints.masks[bodyMask] = rows
    BY <1>4
  <2> QED
    BY <1>1, <1>4, <2>1, DeviceWriteFresh DEF Fields
<1> HIDE DEF bodies
<1>6. Sound(settled) /\ Fresh(settled)
  BY <1>1, <1>5, PhaseSettles
<1> HIDE DEF settled
<1>7. Sound(forwarded) /\ Settled(forwarded)
  BY <1>1, <1>6, ForwardSettles
<1> HIDE DEF forwarded
<1>8. Sound(solver) /\ Fresh(solver)
  BY <1>7, SetHistorySound DEF Histories, Settled, OnTime, Fresh
<1> HIDE DEF solver
<1> QED
  BY <1>1, <1>3, <1>8, ForwardSettles DEF Sound, Fresh

(* Plain fields, then a forward. *)
LEMMA PlainForwardSettles ==
  ASSUME CadenceTyped, product # "mirror", NEW s, Sound(s), Clean(s), Settled(s),
         NEW fields, NEW worlds \in SUBSET Worlds
  PROVE  LET t == Forwarded(FieldsWritten(s, fields, worlds))
         IN  Sound(t) /\ Clean(t) /\ Settled(t)
<1> DEFINE u == FieldsWritten(s, fields, worlds)
<1>1. Sound(u) /\ Fresh(u)
  BY FieldsWrittenFresh
<1> HIDE DEF u
<1>2. Sound(Forwarded(u)) /\ Clean(Forwarded(u)) /\ Settled(Forwarded(u))
  BY <1>1, ForwardSettles, ForwardCleans DEF Sound
<1> QED
  BY <1>2 DEF u

LEMMA WriteStateSettles == ASSUME Working, WriteState PROVE Shape(sim') /\ Fresh(sim')
<1>1. /\ CadenceTyped /\ Sound(sim) /\ Clean(sim) /\ Fresh(sim)
      /\ product # "mirror"
  BY WorkingIs DEF Working, LiveInvariant, WriteState, Kaleidoscope
<1>2. PICK rows \in SUBSET Worlds, before \in PlainFields, after \in PlainFields,
           from \in {sim, [sim EXCEPT !.phase = 0]} :
        \/ sim' = Forwarded(PayloadWritten(from, before, after, rows))
        \/ sim' = Forwarded(FieldsWritten(from, before, rows))
  BY DEF WriteState
<1>3. Sound(from) /\ Clean(from) /\ Settled(from)
  <2>1. Settled(sim)
    BY <1>1 DEF Fresh, Pending, Clean
  <2> QED
    BY <1>1, <1>2, <2>1, PhaseSettles, PhaseCovers DEF Sound
<1> DEFINE first == Forwarded(FieldsWritten(from, before, rows))
           drive == SetHistory(first, rows, "saved")
<1>4. Sound(first) /\ Clean(first) /\ Settled(first)
  BY <1>1, <1>3, PlainForwardSettles
<1>5. CASE sim' = first
  BY <1>4, <1>5 DEF Sound, Fresh
<1>6. CASE sim' = Forwarded(PayloadWritten(from, before, after, rows))
  <2> HIDE DEF first
  <2>1. Sound(drive) /\ Clean(drive) /\ Settled(drive)
    <3>1. Clean(drive)
      BY <1>4, SetHistoryCovers DEF Sound
    <3>2. Sound(drive) /\ drive.phase = first.phase /\ drive.age = first.age
      BY <1>4, SetHistorySound DEF Histories
    <3> QED
      BY <1>4, <3>1, <3>2 DEF Settled, OnTime
  <2> HIDE DEF drive
  <2>2. sim' = Forwarded(FieldsWritten(drive, after, rows))
    BY <1>6 DEF PayloadWritten, DriveWritten, drive, first
  <2>3. Sound(sim') /\ Settled(sim')
    BY <1>1, <2>1, <2>2, PlainForwardSettles
  <2> QED
    BY <2>3 DEF Sound, Fresh
<1> QED
  BY <1>2, <1>5, <1>6

(* A closed runtime forgets what was pending, and is never used again. *)
LEMMA CloseShapes == ASSUME Working, Close PROVE Shape(sim')
<1>1. Sound(sim)
  BY WorkingIs
<1>2. sim' = [sim EXCEPT !.host = {}, !.project = {}, !.rows = {}]
  BY DEF Close
<1>3. /\ sim'.host = {} /\ sim'.project = {} /\ sim'.rows = {} /\ sim'.masks = sim.masks
      /\ sim'.stale = sim.stale /\ sim'.loose = sim.loose /\ sim'.phase = sim.phase
      /\ sim'.age = sim.age /\ sim'.history = sim.history
  BY <1>1, <1>2 DEF Sound, Covered, SimFields
<1> QED
  BY <1>1, <1>3 DEF Sound, Shape

(* The table of graphs and the expectations. *)
GraphsTyped ==
  /\ graphState \in {"disabled", "pending", "captured", "eager_fallback"}
  /\ graphs \in [Phases -> Phases \cup {None}]
  /\ \A p \in Phases : graphs[p] \in {p, None}

LEMMA NoGraphsTyped ==
  /\ NoGraphs \in [Phases -> Phases \cup {None}]
  /\ \A p \in Phases : NoGraphs[p] \in {p, None}
BY DEF NoGraphs, Phases

LEMMA GraphsKept == ASSUME Working, Next PROVE GraphsTyped'
<1>1. GraphsTyped
  BY DEF Working, TypedInvariant, GraphsTyped
<1>2. cadence' = cadence
  BY DEF Next, InitializeWorlds, Step, Reset, CommitInitialState, Forward, Render,
         SetGravity, ModelWrite, MirrorWrite, MirrorRestore, MirrorRestoreUndone, ResetRows,
         WriteState, ProductFails, Close
<1>3. \/ UNCHANGED <<graphs, graphState>>
      \/ /\ graphs' = NoGraphs
         /\ graphState' \in {graphState, "disabled", "pending", "eager_fallback"}
      \/ /\ graphs' = [graphs EXCEPT ![Flush(sim).phase] = Flush(sim).phase]
         /\ graphState' = "captured"
  BY DEF Next, InitializeWorlds, Step, Reset, CommitInitialState, Forward, Render,
         SetGravity, ModelWrite, MirrorWrite, MirrorRestore, MirrorRestoreUndone, ResetRows,
         WriteState, ProductFails, Close, DropGraphs, GraphSlot
<1>4. Flush(sim).phase \in Phases
  BY WorkingIs, FlushSettles DEF Sound, Shape
<1>5. /\ graphState' \in {"disabled", "pending", "captured", "eager_fallback"}
      /\ graphs' \in [Phases -> Phases \cup {None}]
      /\ \A p \in Phases : graphs'[p] \in {p, None}
  BY <1>1, <1>3, <1>4, NoGraphsTyped DEF GraphsTyped
<1> QED
  BY <1>2, <1>5 DEF GraphsTyped, Phases

LEMMA ExpectedKept ==
  ASSUME Working, Next PROVE expected' \in [OwnWorlds -> Histories \cup {None}]
<1>1. Owned(sim) = OwnWorlds /\ expected \in [OwnWorlds -> Histories \cup {None}]
  BY WorkingIs DEF Working, TypedInvariant
<1>2. \/ UNCHANGED expected
      \/ expected' = NoExpectation
      \/ \E worlds : \E value \in {"positions", "saved"} : Expect(worlds, value)
      \/ \E value \in {"positions", "saved"} : expected' = History(value)
  BY DEF Next, InitializeWorlds, Step, Reset, CommitInitialState, Forward, Render,
         SetGravity, ModelWrite, MirrorWrite, MirrorRestore, MirrorRestoreUndone, ResetRows,
         WriteState, ProductFails, Close
<1> QED
  BY <1>1, <1>2 DEF NoExpectation, Expect, History, Histories

(* One step keeps the types, the graphs and the age of the contacts. *)
LEMMA TypedKept == TypedInvariant /\ RuntimeInvariant /\ [Next]_vars => TypedInvariant'
<1> SUFFICES ASSUME TypedInvariant, RuntimeInvariant, [Next]_vars PROVE TypedInvariant'
  OBVIOUS
<1>1. CASE Next
  <2>1. Working
    BY <1>1 DEF Working, RuntimeInvariant, Next, InitializeWorlds, Step, Reset,
       CommitInitialState, Forward, Render, SetGravity, ModelWrite, MirrorWrite,
       MirrorRestore, MirrorRestoreUndone, ResetRows, WriteState, ProductFails, Close,
       Ready, Mirror, Kaleidoscope
  <2>2. /\ product' = product /\ cadence' = cadence
        /\ life' \in {"created", "ready", "closed"} /\ broken' \in BOOLEAN
        /\ clock' \in {"zero", "later"}
    <3>1. CASE Step
      <4>1. /\ product' = product /\ cadence' = cadence /\ life' = life
            /\ \E s, branch : Tick(s, branch)
        BY <3>1 DEF Step
      <4> QED
        BY <4>1 DEF TypedInvariant, Tick, Simulate, SimulateHalfWay, TickRaises
    <3>2. CASE ~Step
      BY <1>1, <3>2 DEF TypedInvariant, Next, InitializeWorlds, Reset, CommitInitialState,
         Forward, Render, SetGravity, ModelWrite, MirrorWrite, MirrorRestore,
         MirrorRestoreUndone, ResetRows, WriteState, ProductFails, Close
    <3> QED
      BY <3>1, <3>2
  <2>3. behind' = behind \/ Step
    BY <1>1 DEF Next, InitializeWorlds, Reset, CommitInitialState, Forward, Render,
       SetGravity, ModelWrite, MirrorWrite, MirrorRestore, MirrorRestoreUndone, ResetRows,
       WriteState, ProductFails, Close
  <2>4. /\ Shape(sim')
        /\ life' # "closed" => Pending(sim') \/ behind' \/ OnTime(sim')
    <3>1. CASE Close
      BY <2>1, <3>1, CloseShapes DEF Close
    <3>2. CASE Step
      BY <2>1, <3>2, StepSettles
    <3>3. CASE ~Close /\ ~Step
      <4>1. Shape(sim') /\ Fresh(sim')
        BY <1>1, <2>1, <3>3, ResetSettles, QuietSettles, MirrorWriteSettles,
           MirrorRestoreSettles, MirrorRestoreUndoneSettles, ResetRowsSettles,
           WriteStateSettles DEF Next
      <4> QED
        BY <2>3, <3>3, <4>1 DEF Fresh, Settled
    <3> QED
      BY <3>1, <3>2, <3>3
  <2>5. /\ used' \in 0 .. cadence.interval /\ behind' \in BOOLEAN
        /\ behind' \/ used' < cadence.interval
    <3>1. CASE Step
      BY <2>1, <3>1, StepSettles
    <3>2. CASE ~Step
      <4>1. used' = used /\ behind' = behind
        BY <1>1, <3>2 DEF Next, InitializeWorlds, Reset, CommitInitialState,
           Forward, Render, SetGravity, ModelWrite, MirrorWrite, MirrorRestore,
           MirrorRestoreUndone, ResetRows, WriteState, ProductFails, Close
      <4> QED
        BY <4>1 DEF TypedInvariant
    <3> QED
      BY <3>1, <3>2
  <2>6. GraphsTyped'
    BY <1>1, <2>1, GraphsKept
  <2>7. expected' \in [OwnWorlds -> Histories \cup {None}]
    BY <1>1, <2>1, ExpectedKept
  <2>8. Shape(sim)' /\ (life # "closed" => Fresh(sim))' /\ OwnWorlds' = OwnWorlds
    BY <2>2, <2>4 DEF Shape, Fresh, Settled, OnTime, Pending, OwnWorlds, Phases
  <2> QED
    BY <2>2, <2>5, <2>6, <2>7, <2>8 DEF TypedInvariant, GraphsTyped
<1>2. CASE UNCHANGED vars
  BY <1>2 DEF vars, TypedInvariant, Shape, Fresh, Settled, OnTime, Pending, OwnWorlds, Phases
<1> QED
  BY <1>1, <1>2

(* The books, the table of graphs and the age of the contacts have their types
   in every reachable state, the contacts are flushed or young enough, and every
   graph is the one of its phase. *)
THEOREM ClockworkRight == Spec => []TypedInvariant
<1>1. Init => TypedInvariant
  BY InitTyped
<1> QED
  BY <1>1, TypedKept, BooksCorrect, PTL DEF Spec

(* Every variable has its type: the phase stays within the interval, and no
   follower is out of date whose world is not. *)
THEOREM RuntimeTyped == Spec => []TypeOK
<1>1. TypedInvariant => TypeOK
  <2> SUFFICES ASSUME TypedInvariant PROVE TypeOK
    OBVIOUS
  <2>1. Owned(sim) = OwnWorlds
    BY DEF TypedInvariant, Shape, Owned
  <2>2. cadence.interval \in Nat \ {0}
    BY CadencesAssumption DEF TypedInvariant
  <2> QED
    BY <2>1, <2>2 DEF TypedInvariant, Shape, TypeOK
<1> QED
  BY <1>1, ClockworkRight, PTL

(* No substep of a whole tick solves with contacts older than the collision
   interval, for every cadence, whether it is run eagerly or replayed from a
   captured graph, unless a tick failed half-way at another phase than zero and
   none has started there since. *)
THEOREM ContactsFresh == Spec => []ContactsAreFresh
<1>1. TypedInvariant => ContactsAreFresh
  BY DEF TypedInvariant, ContactsAreFresh
<1> QED
  BY <1>1, ClockworkRight, PTL
=============================================================================
