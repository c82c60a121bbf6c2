-------------------------- MODULE SessionLifecycle --------------------------
(***************************************************************************)
(* How Isaac sessions of one process come and go: mirror/runtime.py closes *)
(* a product in phases and then its session, isaac/session.py creates the  *)
(* App and the physics runtime or takes them down, isaac/lifecycle.py does *)
(* the teardown in stages it can retry, and isaac/physics/manager.py and   *)
(* backend.py keep the process-wide owner and the registrations of the     *)
(* Newton backend.                                                         *)
(*                                                                         *)
(* Every session runs on a thread of its own, interleaved at the locks and *)
(* calls of the teardown.  A step of it may raise, MaxFailures times in    *)
(* all.  All sessions are Newton sessions of the same execution; a PhysX   *)
(* session touches neither registry.                                       *)
(***************************************************************************)
EXTENDS Naturals, FiniteSets

CONSTANTS
  Sessions,
  Hubs,         \* transport hubs a caller may attach to a runtime
  MaxFailures,  \* bound: calls of the teardown that raise or do not stop
  NoOwner

ASSUME OwnerAssumption == NoOwner \notin Sessions
ASSUME SessionsAssumption == IsFiniteSet(Sessions)
ASSUME FailuresAssumption == MaxFailures \in Nat

VARIABLES
  at,            \* session -> where its thread is
  app,           \* session -> the native App: "none", "live" or "closed"
  physics,       \* session -> its NewtonRuntime; "broken": its close raised
  owner,         \* _active_manager
  registrations, \* _RUNTIME_REGISTRATION_COUNT
  done,          \* session -> the stages its _AppPhysicsBinding has as done
  raised,        \* session -> first_error of the teardown under way is set
  imports,       \* sessions with entries in _live_import_directories
  composed,      \* session -> a MirrorRuntime owns it
  live,          \* session -> product resources not yet stopped
  completed,     \* session -> number of _completed_phases before the session's
  ingress,       \* session -> hubs ever attached
  late,          \* history: those attached after the ingress phase
  failures       \* bound: calls that have raised so far

vars == <<at, app, physics, owner, registrations, done, raised, imports,
          composed, live, completed, ingress, late, failures>>

product == <<composed, live, completed, ingress, late>>

(* The phases of MirrorRuntime.close before the session's, and who is in them. *)
Phase(n) ==
  CASE n = 1 -> Hubs \cup {"controller"}
    [] n = 2 -> {"rendering", "motion"}
    [] OTHER -> {"views"}
Assembled == {"controller", "rendering", "motion", "views"}

Stages == {"runtime", "backend", "imports", "app"}

(* A call that may raise, within the bound. *)
Outcome(ok) ==
  /\ ok \/ failures < MaxFailures
  /\ failures' = IF ok THEN failures ELSE failures + 1

Goto(s, place) == at' = [at EXCEPT ![s] = place]

Init ==
  /\ at = [s \in Sessions |-> "none"]
  /\ app = [s \in Sessions |-> "none"]
  /\ physics = [s \in Sessions |-> "none"]
  /\ owner = NoOwner /\ registrations = 0
  /\ done = [s \in Sessions |-> {}]
  /\ raised = [s \in Sessions |-> FALSE]
  /\ imports = {}
  /\ composed = [s \in Sessions |-> FALSE]
  /\ live = [s \in Sessions |-> {}]
  /\ completed = [s \in Sessions |-> 0]
  /\ ingress = [s \in Sessions |-> {}]
  /\ late = [s \in Sessions |-> {}]
  /\ failures = 0

-----------------------------------------------------------------------------
(* launch_simulation_app: the App exists before its backend is registered. *)
Launch(s) ==
  /\ at[s] = "none"
  /\ Goto(s, "starting")
  /\ app' = [app EXCEPT ![s] = "live"]
  /\ UNCHANGED <<physics, owner, registrations, done, raised, imports, product, failures>>

RegisterBackend(s) ==
  /\ at[s] = "starting"
  /\ Goto(s, "validating")
  /\ registrations' = registrations + 1
  /\ UNCHANGED <<app, physics, owner, done, raised, imports, product, failures>>

Validated(s) ==
  /\ at[s] = "validating"
  /\ Goto(s, "launched")
  /\ UNCHANGED <<app, physics, owner, registrations, done, raised, imports, product, failures>>

(* clear_runtime_physics_backend: with nothing registered it returns. *)
Cleared == IF registrations = 0 THEN 0 ELSE registrations - 1

(* A launch that fails returns the registration it took, if it took one; the
   close of its App may fail too, and nobody retries it. *)
LaunchFails(s) ==
  /\ at[s] \in {"starting", "validating"}
  /\ Goto(s, "failed")
  /\ registrations' = IF at[s] = "validating" THEN Cleared ELSE registrations
  /\ \E end \in {"live", "closed"} : app' = [app EXCEPT ![s] = end]
  /\ UNCHANGED <<physics, owner, done, raised, imports, product, failures>>

(* create_physics_runtime builds the runtime and then claims the process. *)
BuildRuntime(s) ==
  /\ at[s] = "launched"
  /\ Goto(s, "built")
  /\ physics' = [physics EXCEPT ![s] = "fresh"]
  /\ UNCHANGED <<app, owner, registrations, done, raised, imports, product, failures>>

(* install_physics_manager, and the binding of App and runtime. *)
InstallPhysicsManager(s) ==
  /\ at[s] = "built"
  /\ owner = NoOwner
  /\ owner' = s
  /\ physics' = [physics EXCEPT ![s] = "live"]
  /\ Goto(s, "session")
  /\ UNCHANGED <<app, registrations, done, raised, imports, product, failures>>

InstallRefused(s) ==
  /\ at[s] = "built"
  /\ owner # NoOwner
  /\ physics' = [physics EXCEPT ![s] = "closed"]
  /\ Goto(s, "abandoning")
  /\ UNCHANGED <<app, owner, registrations, done, raised, imports, product, failures>>

(* The stage or the constructor of the runtime fails. *)
CreateFails(s) ==
  /\ at[s] = "launched"
  /\ Goto(s, "abandoning")
  /\ UNCHANGED <<app, physics, owner, registrations, done, raised, imports, product, failures>>

(* create_isaac_session_from_spec without a runtime: the App is closed once,
   and the registration its launch took is returned.  The release of imported
   assets is the whole process's. *)
AbandonSession(s) ==
  /\ at[s] = "abandoning"
  /\ imports' \in SUBSET imports
  /\ \E end \in {"live", "closed"} : app' = [app EXCEPT ![s] = end]
  /\ registrations' = Cleared
  /\ Goto(s, "failed")
  /\ UNCHANGED <<physics, owner, done, raised, product, failures>>

-----------------------------------------------------------------------------
ImportAssets(s) ==
  /\ at[s] = "session"
  /\ imports' = imports \cup {s}
  /\ Goto(s, "imported")
  /\ UNCHANGED <<app, physics, owner, registrations, done, raised, product, failures>>

(* create_mirror_runtime. *)
Compose(s) ==
  /\ at[s] = "imported"
  /\ composed' = [composed EXCEPT ![s] = TRUE]
  /\ live' = [live EXCEPT ![s] = Assembled]
  /\ Goto(s, "open")
  /\ UNCHANGED <<app, physics, owner, registrations, done, raised, imports, completed, ingress, late, failures>>

(* The assembly fails: what exists of the product is closed best-effort, and
   the session once; its errors are swallowed and nobody can retry. *)
CompositionFails(s) ==
  /\ at[s] \in {"session", "imported"}
  /\ \E left \in SUBSET Assembled : live' = [live EXCEPT ![s] = left]
  /\ Goto(s, "closing")
  /\ UNCHANGED <<app, physics, owner, registrations, done, raised, imports, composed, completed, ingress, late, failures>>

Owned(s) == composed[s] /\ at[s] \in {"open", "half"}

(* attach_ingress refuses only a runtime whose close has succeeded. *)
AttachIngress(s) ==
  /\ Owned(s)
  /\ \E hub \in Hubs \ ingress[s] :
       /\ ingress' = [ingress EXCEPT ![s] = @ \cup {hub}]
       /\ live' = [live EXCEPT ![s] = @ \cup {hub}]
       /\ late' = IF completed[s] > 0 THEN [late EXCEPT ![s] = @ \cup {hub}] ELSE late
  /\ UNCHANGED <<at, app, physics, owner, registrations, done, raised, imports, composed, completed, failures>>

ClosePhase_RunsAgain(s) ==
  /\ Owned(s)
  /\ \E left \in SUBSET (live[s] \cap Phase(completed[s] + 1)) :
       /\ Outcome(left = {})
       /\ live' = [live EXCEPT ![s] = (@ \ Phase(completed[s] + 1)) \cup left]
       /\ completed' = IF left = {} THEN [completed EXCEPT ![s] = @ + 1] ELSE completed
  /\ UNCHANGED <<at, app, physics, owner, registrations, done, raised, imports, composed, ingress, late>>

ClosePhase_ContinuesOnError(s) ==
  /\ Owned(s)
  /\ completed[s] < 3
  /\ \E left \in SUBSET (live[s] \cap Phase(completed[s] + 1)) :
       /\ Outcome(left = {})
       /\ live' = [live EXCEPT ![s] = (@ \ Phase(completed[s] + 1)) \cup left]
  /\ completed' = [completed EXCEPT ![s] = @ + 1]
  /\ UNCHANGED <<at, app, physics, owner, registrations, done, raised, imports, composed, ingress, late>>

(* _close_phase: every resource of the phase is tried; those that raise or do
   not stop keep the phase, and all later ones, for the next close. *)
ClosePhase(s) ==
  /\ Owned(s)
  /\ completed[s] < 3
  /\ \E left \in SUBSET (live[s] \cap Phase(completed[s] + 1)) :
       /\ Outcome(left = {})
       /\ live' = [live EXCEPT ![s] = (@ \ Phase(completed[s] + 1)) \cup left]
       /\ completed' = IF left = {} THEN [completed EXCEPT ![s] = @ + 1] ELSE completed
  /\ UNCHANGED <<at, app, physics, owner, registrations, done, raised, imports, composed, ingress, late>>

BeginSessionClose_Once(s) ==
  /\ Owned(s) /\ at[s] = "open"
  /\ completed[s] = 3
  /\ raised' = [raised EXCEPT ![s] = FALSE]
  /\ Goto(s, "closing")
  /\ UNCHANGED <<app, physics, owner, registrations, done, imports, product, failures>>

(* The session's phase; before_session_close raising leaves all as it was. *)
BeginSessionClose(s) ==
  /\ Owned(s)
  /\ completed[s] = 3
  /\ raised' = [raised EXCEPT ![s] = FALSE]
  /\ Goto(s, "closing")
  /\ UNCHANGED <<app, physics, owner, registrations, done, imports, product, failures>>

-----------------------------------------------------------------------------
(* close_simulation_app, stage by stage.  A stage done before is skipped. *)
Needs(s, stage) == stage \notin done[s]

SkipRuntime(s) ==
  /\ at[s] = "closing"
  /\ ~Needs(s, "runtime")
  /\ Goto(s, "backend")
  /\ UNCHANGED <<app, physics, owner, registrations, done, raised, imports, product, failures>>

CloseRuntime_ForgetsOwner(s) ==
  /\ at[s] = "closing"
  /\ Needs(s, "runtime")
  /\ \E ok \in BOOLEAN :
       /\ Outcome(ok)
       /\ physics' = [physics EXCEPT ![s] = IF ok THEN "closed" ELSE "broken"]
       /\ raised' = [raised EXCEPT ![s] = @ \/ ~ok]
       /\ Goto(s, IF ok THEN "releasing" ELSE "imports")
  /\ owner' = NoOwner
  /\ UNCHANGED <<app, registrations, done, imports, product>>

(* _close_exact_physics_runtime refuses while another session's runtime is the
   owner.  A NewtonRuntime whose close raised has closed; the next returns. *)
CloseRuntime(s) ==
  /\ at[s] = "closing"
  /\ Needs(s, "runtime")
  /\ \E ok \in BOOLEAN :
       LET refused == owner \notin {s, NoOwner}
           stops == ok /\ ~refused
       IN  /\ ok \/ (physics[s] = "live" /\ ~refused)
           /\ Outcome(ok)
           /\ physics' = [physics EXCEPT ![s] = IF refused THEN @
                                                ELSE IF ok THEN "closed" ELSE "broken"]
           /\ raised' = [raised EXCEPT ![s] = @ \/ ~stops]
           /\ Goto(s, IF stops THEN "releasing" ELSE "imports")
  /\ UNCHANGED <<app, owner, registrations, done, imports, product>>

(* release_physics_manager lets go of the owner after its close returned. *)
ReleasePhysicsManager(s) ==
  /\ at[s] = "releasing"
  /\ owner' = IF owner = s THEN NoOwner ELSE owner
  /\ done' = [done EXCEPT ![s] = @ \cup {"runtime"}]
  /\ Goto(s, "backend")
  /\ UNCHANGED <<app, physics, registrations, raised, imports, product, failures>>

ClearBackend_EveryTime(s) ==
  /\ at[s] = "backend"
  /\ registrations' = Cleared
  /\ done' = [done EXCEPT ![s] = @ \cup {"backend"}]
  /\ Goto(s, "imports")
  /\ UNCHANGED <<app, physics, owner, raised, imports, product, failures>>

ClearBackend(s) ==
  /\ at[s] = "backend"
  /\ registrations' = IF Needs(s, "backend") THEN Cleared ELSE registrations
  /\ done' = [done EXCEPT ![s] = @ \cup {"backend"}]
  /\ Goto(s, "imports")
  /\ UNCHANGED <<app, physics, owner, raised, imports, product, failures>>

(* release_imported_asset_files pops the list of the whole process; one that
   raises leaves the entries after it. *)
ReleaseImports(s) ==
  /\ at[s] = "imports"
  /\ \/ /\ Needs(s, "imports")
        /\ imports' = {}
        /\ done' = [done EXCEPT ![s] = @ \cup {"imports"}]
        /\ UNCHANGED <<raised, failures>>
     \/ /\ Needs(s, "imports") /\ imports # {}
        /\ Outcome(FALSE)
        /\ imports' \in SUBSET imports
        /\ raised' = [raised EXCEPT ![s] = TRUE]
        /\ UNCHANGED done
     \/ /\ ~Needs(s, "imports")
        /\ UNCHANGED <<imports, done, raised, failures>>
  /\ Goto(s, "native")
  /\ UNCHANGED <<app, physics, owner, registrations, product>>

(* The native App is closed whatever failed before it; the binding goes, and
   the session counts as closed, only when nothing failed. *)
CloseApp(s) ==
  /\ at[s] = "native"
  /\ \E ok \in BOOLEAN :
       /\ ok \/ Needs(s, "app")
       /\ Outcome(ok)
       /\ app' = [app EXCEPT ![s] = IF ok THEN "closed" ELSE @]
       /\ raised' = [raised EXCEPT ![s] = @ \/ ~ok]
       /\ done' = [done EXCEPT ![s] = IF ~raised'[s] THEN {} ELSE IF ok THEN @ \cup {"app"} ELSE @]
       /\ Goto(s, IF raised'[s] THEN "half" ELSE "closed")
  /\ UNCHANGED <<physics, owner, registrations, imports, product>>

-----------------------------------------------------------------------------
Creation(s) ==
  \/ Launch(s) \/ RegisterBackend(s) \/ Validated(s) \/ LaunchFails(s)
  \/ BuildRuntime(s) \/ InstallPhysicsManager(s) \/ InstallRefused(s)
  \/ CreateFails(s) \/ AbandonSession(s)
  \/ ImportAssets(s) \/ Compose(s) \/ CompositionFails(s) \/ AttachIngress(s)

Teardown(s) ==
  \/ BeginSessionClose(s) \/ SkipRuntime(s) \/ CloseRuntime(s)
  \/ ReleasePhysicsManager(s) \/ ClearBackend(s) \/ ReleaseImports(s) \/ CloseApp(s)

Next == \E s \in Sessions : Creation(s) \/ ClosePhase(s) \/ Teardown(s)

Spec == Init /\ [][Next]_vars

(* A caller whose close did not stop everything calls it again: fairness of
   the closes already begun, and of nothing else. *)
Begun(s) == composed[s] /\ completed[s] > 0

FairSpec ==
  Spec /\ \A s \in Sessions : WF_vars(Begun(s) /\ (ClosePhase(s) \/ Teardown(s)))

-----------------------------------------------------------------------------
Places ==
  {"none", "starting", "validating", "launched", "built", "abandoning", "failed", "session",
   "imported", "open", "closing", "releasing", "backend", "imports", "native", "half", "closed"}

TypeOK ==
  /\ at \in [Sessions -> Places]
  /\ app \in [Sessions -> {"none", "live", "closed"}]
  /\ physics \in [Sessions -> {"none", "fresh", "live", "broken", "closed"}]
  /\ owner \in Sessions \cup {NoOwner}
  /\ registrations \in 0 .. Cardinality(Sessions)
  /\ done \in [Sessions -> SUBSET Stages] /\ raised \in [Sessions -> BOOLEAN]
  /\ imports \subseteq Sessions
  /\ composed \in [Sessions -> BOOLEAN]
  /\ live \in [Sessions -> SUBSET (Assembled \cup Hubs)]
  /\ completed \in [Sessions -> 0 .. 3]
  /\ ingress \in [Sessions -> SUBSET Hubs] /\ late \in [Sessions -> SUBSET Hubs]
  /\ failures \in 0 .. MaxFailures

(* A runtime that runs, or whose close raised, is the process's owner, so no
   two ever are, and a session that is through owns nothing: manager.py keeps
   the identity until the close has returned. *)
OneOwner ==
  \A s \in Sessions :
    /\ physics[s] \in {"live", "broken"} => owner = s
    /\ at[s] \in {"closed", "failed"} => owner # s

(* The sessions whose launch registered the backend and that did not yet
   return it. *)
Registered ==
  {s \in Sessions : at[s] \notin {"none", "starting", "failed", "closed"} /\ Needs(s, "backend")}

(* Failed launches, abandoned creations and retried teardowns return each
   registration once, and never that of another session. *)
RegistrationsBalanced == registrations = Cardinality(Registered)

(* The physics runtime and the App of a product outlive every resource of it
   that was there when its phase was closed, over all retries. *)
SessionOutlivesProduct ==
  \A s \in Sessions :
    composed[s] /\ (physics[s] # "live" \/ app[s] # "live") => live[s] \subseteq late[s]

Released(s) ==
  /\ at[s] = "closed"
  /\ app[s] = "closed" /\ physics[s] = "closed" /\ owner # s /\ s \notin imports

(* A close that got past the ingress and is retried ends with everything
   released, if what raises stops raising, and whatever sessions are created
   in between. *)
BegunCloseEnds == \A s \in Sessions : Begun(s) ~> Released(s)
=============================================================================
