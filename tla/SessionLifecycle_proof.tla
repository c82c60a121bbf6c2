----------------------- MODULE SessionLifecycle_proof -----------------------
(***************************************************************************)
(* Proofs about SessionLifecycle, for every finite set of sessions, every  *)
(* set of hubs and every number of failures.  The inductive invariant says *)
(* of each session what its place in the code tells about its runtime, its *)
(* App, its binding and its product; the count of registrations follows in *)
(* a second step, and the calls a begun close has left in a third.         *)
(***************************************************************************)
EXTENDS SessionLifecycle, FiniteSetTheorems, TLAPS

Early == {"none", "starting", "validating", "launched", "built", "abandoning", "failed"}
Working == {"session", "imported", "open"}
Ending == {"closing", "releasing", "backend", "imports", "native", "half"}

(* Every variable but the count of registrations has its type. *)
Typed ==
  /\ at \in [Sessions -> Places]
  /\ app \in [Sessions -> {"none", "live", "closed"}]
  /\ physics \in [Sessions -> {"none", "fresh", "live", "broken", "closed"}]
  /\ owner \in Sessions \cup {NoOwner}
  /\ done \in [Sessions -> SUBSET Stages] /\ raised \in [Sessions -> BOOLEAN]
  /\ imports \subseteq Sessions
  /\ composed \in [Sessions -> BOOLEAN]
  /\ live \in [Sessions -> SUBSET (Assembled \cup Hubs)]
  /\ completed \in [Sessions -> 0 .. 3]
  /\ ingress \in [Sessions -> SUBSET Hubs] /\ late \in [Sessions -> SUBSET Hubs]
  /\ failures \in 0 .. MaxFailures

(* The runtime of a session is owned from its installation until its close
   has returned; a stage is done once, and what it did stays done. *)
Owns(s) ==
  /\ at[s] \in Early => physics[s] \notin {"live", "broken"} /\ done[s] = {} /\ owner # s
  /\ at[s] \in {"starting", "validating", "launched", "built"} => app[s] = "live"
  /\ at[s] \in Working => physics[s] = "live" /\ app[s] = "live" /\ done[s] = {} /\ owner = s
  /\ at[s] = "closing" /\ "runtime" \notin done[s] =>
       physics[s] \in {"live", "broken"} /\ owner = s
  /\ at[s] = "releasing" => physics[s] = "closed" /\ owner = s /\ "runtime" \notin done[s]
  /\ at[s] = "backend" => "runtime" \in done[s]
  /\ at[s] \in {"imports", "native", "half"} /\ "runtime" \notin done[s] =>
       physics[s] = "broken" /\ owner = s
  /\ "runtime" \in done[s] => physics[s] = "closed" /\ owner # s

(* What a teardown that met no error has behind it. *)
Progressed(s) ==
  /\ at[s] = "imports" /\ ~raised[s] => {"runtime", "backend"} \subseteq done[s]
  /\ at[s] = "native" /\ ~raised[s] => {"runtime", "backend", "imports"} \subseteq done[s]
  /\ "imports" \in done[s] => s \notin imports
  /\ at[s] = "closed" => Released(s)

(* The resources of the phases a close has not got to. *)
Remaining(n) ==
  CASE n = 0 -> Hubs \cup Assembled
    [] n = 1 -> Phase(2) \cup Phase(3)
    [] n = 2 -> Phase(3)
    [] OTHER -> {}

Ordered(s) ==
  /\ at[s] \in Early \cup {"session", "imported"} => ~composed[s]
  /\ ~composed[s] => completed[s] = 0
  /\ composed[s] /\ at[s] \in Ending \cup {"closed"} => completed[s] = 3
  /\ composed[s] => live[s] \subseteq late[s] \cup Remaining(completed[s])

SessionsInvariant == Typed /\ \A s \in Sessions : Owns(s) /\ Progressed(s) /\ Ordered(s)

-----------------------------------------------------------------------------
LEMMA InitHolds == Init => SessionsInvariant
BY OwnerAssumption, FailuresAssumption
   DEF Init, SessionsInvariant, Typed, Owns, Progressed, Ordered, Early, Working, Ending,
       Places, Released

(* The three ways a release of the imported assets ends. *)
LEMMA ReleaseImportsEnds ==
  ASSUME NEW s \in Sessions, ReleaseImports(s)
  PROVE  /\ at[s] = "imports" /\ at' = [at EXCEPT ![s] = "native"]
         /\ UNCHANGED <<app, physics, owner, composed, live, completed, ingress, late>>
         /\ \/ /\ imports' = {} /\ raised' = raised /\ failures' = failures
               /\ done' = [done EXCEPT ![s] = @ \cup {"imports"}]
            \/ /\ imports' \in SUBSET imports /\ done' = done
               /\ raised' = [raised EXCEPT ![s] = TRUE]
               /\ failures < MaxFailures /\ failures' = failures + 1
            \/ /\ "imports" \in done[s] /\ done' = done
               /\ imports' = imports /\ raised' = raised /\ failures' = failures
BY DEF ReleaseImports, Needs, Goto, Outcome, product

LEMMA NextKeepsTypes ==
  ASSUME Typed, Next PROVE Typed'
<1> USE FailuresAssumption DEF Typed, Places, Goto, Outcome, product, Stages
<1> SUFFICES ASSUME NEW s \in Sessions, Creation(s) \/ ClosePhase(s) \/ Teardown(s)
             PROVE Typed'
  BY DEF Next
<1>1. CASE Launch(s) BY <1>1 DEF Launch
<1>2. CASE RegisterBackend(s) BY <1>2 DEF RegisterBackend
<1>3. CASE Validated(s) BY <1>3 DEF Validated
<1>4. CASE LaunchFails(s) BY <1>4 DEF LaunchFails
<1>5. CASE BuildRuntime(s) BY <1>5 DEF BuildRuntime
<1>6. CASE InstallPhysicsManager(s) BY <1>6 DEF InstallPhysicsManager
<1>7. CASE InstallRefused(s) BY <1>7 DEF InstallRefused
<1>8. CASE CreateFails(s) BY <1>8 DEF CreateFails
<1>9. CASE AbandonSession(s) BY <1>9 DEF AbandonSession
<1>10. CASE ImportAssets(s) BY <1>10 DEF ImportAssets
<1>11. CASE Compose(s) BY <1>11 DEF Compose, Assembled
<1>12. CASE CompositionFails(s) BY <1>12 DEF CompositionFails
<1>13. CASE AttachIngress(s) BY <1>13 DEF AttachIngress
<1>14. CASE ClosePhase(s) BY <1>14 DEF ClosePhase
<1>15. CASE BeginSessionClose(s) BY <1>15 DEF BeginSessionClose
<1>16. CASE SkipRuntime(s) BY <1>16 DEF SkipRuntime
<1>17. CASE CloseRuntime(s) BY <1>17 DEF CloseRuntime
<1>18. CASE ReleasePhysicsManager(s) BY <1>18 DEF ReleasePhysicsManager
<1>19. CASE ClearBackend(s) BY <1>19 DEF ClearBackend
<1>20. CASE ReleaseImports(s)
  <2>1. at' \in [Sessions -> Places]
    BY <1>20, ReleaseImportsEnds
  <2>2. done' \in [Sessions -> SUBSET Stages] /\ raised' \in [Sessions -> BOOLEAN]
    <3>1. \/ done' = done
          \/ done' = [done EXCEPT ![s] = @ \cup {"imports"}]
      BY <1>20, ReleaseImportsEnds
    <3>2. raised' = raised \/ raised' = [raised EXCEPT ![s] = TRUE]
      BY <1>20, ReleaseImportsEnds
    <3>3. done' \in [Sessions -> SUBSET Stages]
      BY <3>1
    <3> QED
      BY <3>2, <3>3
  <2>3. imports' \subseteq Sessions /\ failures' \in 0 .. MaxFailures
    BY <1>20, ReleaseImportsEnds
  <2>4. UNCHANGED <<app, physics, owner, composed, live, completed, ingress, late>>
    BY <1>20, ReleaseImportsEnds
  <2> QED
    BY <2>1, <2>2, <2>3, <2>4
<1>21. CASE CloseApp(s) BY <1>21 DEF CloseApp
<1> QED
  BY <1>1, <1>2, <1>3, <1>4, <1>5, <1>6, <1>7, <1>8, <1>9, <1>10, <1>11, <1>12, <1>13,
     <1>14, <1>15, <1>16, <1>17, <1>18, <1>19, <1>20, <1>21 DEF Creation, Teardown

-----------------------------------------------------------------------------
(* A step of one session leaves what the others' invariant speaks of alone. *)
LEMMA OwnsKept ==
  ASSUME SessionsInvariant, Next, NEW t \in Sessions PROVE Owns(t)'
<1> USE DEF Typed, Owns, Goto, Early, Working, Ending, product
<1> SUFFICES ASSUME NEW s \in Sessions, Creation(s) \/ ClosePhase(s) \/ Teardown(s)
             PROVE Owns(t)'
  BY DEF Next
<1>0. Typed /\ Owns(s) /\ Owns(t) /\ NoOwner \notin Sessions
  BY OwnerAssumption DEF SessionsInvariant
<1>1. CASE Launch(s) BY <1>0, <1>1 DEF Launch
<1>2. CASE RegisterBackend(s) BY <1>0, <1>2 DEF RegisterBackend
<1>3. CASE Validated(s) BY <1>0, <1>3 DEF Validated
<1>4. CASE LaunchFails(s) BY <1>0, <1>4 DEF LaunchFails
<1>5. CASE BuildRuntime(s) BY <1>0, <1>5 DEF BuildRuntime
<1>6. CASE InstallPhysicsManager(s)
  <2>1. owner = NoOwner /\ owner' = s /\ owner # t /\ s # NoOwner
    BY <1>0, <1>6 DEF InstallPhysicsManager
  <2>2. /\ at' = [at EXCEPT ![s] = "session"] /\ at[s] = "built"
        /\ physics' = [physics EXCEPT ![s] = "live"]
        /\ UNCHANGED <<app, done>>
    BY <1>6 DEF InstallPhysicsManager
  <2>3. CASE t = s
    BY <1>0, <2>1, <2>2, <2>3
  <2>4. CASE t # s
    <3>1. owner # t /\ at'[t] = at[t] /\ physics'[t] = physics[t] /\ done'[t] = done[t] /\ app' = app
      BY <1>0, <2>1, <2>2, <2>4
    <3>2. at[t] \notin Working /\ at[t] # "releasing"
      BY <1>0, <3>1
    <3> QED
      BY <1>0, <2>1, <2>4, <3>1, <3>2
  <2> QED
    BY <2>3, <2>4
<1>7. CASE InstallRefused(s) BY <1>0, <1>7 DEF InstallRefused
<1>8. CASE CreateFails(s) BY <1>0, <1>8 DEF CreateFails
<1>9. CASE AbandonSession(s) BY <1>0, <1>9 DEF AbandonSession
<1>10. CASE ImportAssets(s) BY <1>0, <1>10 DEF ImportAssets
<1>11. CASE Compose(s) BY <1>0, <1>11 DEF Compose
<1>12. CASE CompositionFails(s) BY <1>0, <1>12 DEF CompositionFails
<1>13. CASE AttachIngress(s) BY <1>0, <1>13 DEF AttachIngress, Owned
<1>14. CASE ClosePhase(s) BY <1>0, <1>14 DEF ClosePhase, Owned
<1>15. CASE BeginSessionClose(s) BY <1>0, <1>15 DEF BeginSessionClose, Owned
<1>16. CASE SkipRuntime(s) BY <1>0, <1>16 DEF SkipRuntime, Needs
<1>17. CASE CloseRuntime(s) BY <1>0, <1>17 DEF CloseRuntime, Needs
<1>18. CASE ReleasePhysicsManager(s) BY <1>0, <1>18 DEF ReleasePhysicsManager
<1>19. CASE ClearBackend(s) BY <1>0, <1>19 DEF ClearBackend, Needs
<1>20. CASE ReleaseImports(s)
  <2>1. /\ at[s] = "imports" /\ at' = [at EXCEPT ![s] = "native"]
        /\ UNCHANGED <<app, physics, owner, composed, live, completed, late>>
        /\ imports' \subseteq imports
    BY <1>0, <1>20, ReleaseImportsEnds
  <2>2. /\ \A x \in Sessions : x # s => done'[x] = done[x] /\ raised'[x] = raised[x]
        /\ "runtime" \in done'[s] <=> "runtime" \in done[s]
        /\ "backend" \in done'[s] <=> "backend" \in done[s]
        /\ "imports" \in done'[s] => "imports" \in done[s] \/ imports' = {}
        /\ ~raised'[s] => ~raised[s] /\ "imports" \in done'[s]
    BY <1>0, <1>20, ReleaseImportsEnds
  <2>3. CASE t = s
    BY <1>0, <2>1, <2>2, <2>3
  <2>4. CASE t # s
    BY <1>0, <2>1, <2>2, <2>4
  <2> QED
    BY <2>3, <2>4
<1>21. CASE CloseApp(s) BY <1>0, <1>21 DEF CloseApp, Needs
<1> QED
  BY <1>1, <1>2, <1>3, <1>4, <1>5, <1>6, <1>7, <1>8, <1>9, <1>10, <1>11, <1>12, <1>13,
     <1>14, <1>15, <1>16, <1>17, <1>18, <1>19, <1>20, <1>21 DEF Creation, Teardown

LEMMA ProgressedKept ==
  ASSUME SessionsInvariant, Next, NEW t \in Sessions PROVE Progressed(t)'
<1> USE DEF Typed, Progressed, Released, Goto, Early, Working, Ending, product
<1> SUFFICES ASSUME NEW s \in Sessions, Creation(s) \/ ClosePhase(s) \/ Teardown(s)
             PROVE Progressed(t)'
  BY DEF Next
<1>0. /\ Typed /\ Progressed(s) /\ Progressed(t) /\ NoOwner \notin Sessions
      /\ Owns(s) /\ Owns(t)
  BY OwnerAssumption DEF SessionsInvariant
<1>1. CASE Launch(s) BY <1>0, <1>1 DEF Launch, Owns
<1>2. CASE RegisterBackend(s) BY <1>0, <1>2 DEF RegisterBackend, Owns
<1>3. CASE Validated(s) BY <1>0, <1>3 DEF Validated, Owns
<1>4. CASE LaunchFails(s) BY <1>0, <1>4 DEF LaunchFails, Owns
<1>5. CASE BuildRuntime(s) BY <1>0, <1>5 DEF BuildRuntime, Owns
<1>6. CASE InstallPhysicsManager(s) BY <1>0, <1>6 DEF InstallPhysicsManager, Owns
<1>7. CASE InstallRefused(s) BY <1>0, <1>7 DEF InstallRefused, Owns
<1>8. CASE CreateFails(s) BY <1>0, <1>8 DEF CreateFails, Owns
<1>9. CASE AbandonSession(s) BY <1>0, <1>9 DEF AbandonSession, Owns
<1>10. CASE ImportAssets(s) BY <1>0, <1>10 DEF ImportAssets, Owns
<1>11. CASE Compose(s) BY <1>0, <1>11 DEF Compose, Owns
<1>12. CASE CompositionFails(s) BY <1>0, <1>12 DEF CompositionFails, Owns
<1>13. CASE AttachIngress(s) BY <1>0, <1>13 DEF AttachIngress, Owned, Owns
<1>14. CASE ClosePhase(s) BY <1>0, <1>14 DEF ClosePhase, Owned, Owns
<1>15. CASE BeginSessionClose(s) BY <1>0, <1>15 DEF BeginSessionClose, Owned, Owns
<1>16. CASE SkipRuntime(s) BY <1>0, <1>16 DEF SkipRuntime, Needs, Owns
<1>17. CASE CloseRuntime(s) BY ZenonT(60), <1>0, <1>17 DEF CloseRuntime, Needs, Owns
<1>18. CASE ReleasePhysicsManager(s) BY <1>0, <1>18 DEF ReleasePhysicsManager, Owns
<1>19. CASE ClearBackend(s) BY <1>0, <1>19 DEF ClearBackend, Needs, Owns
<1>20. CASE ReleaseImports(s)
  <2>1. /\ at[s] = "imports" /\ at' = [at EXCEPT ![s] = "native"]
        /\ UNCHANGED <<app, physics, owner, composed, live, completed, late>>
        /\ imports' \subseteq imports
    BY <1>0, <1>20, ReleaseImportsEnds
  <2>2. /\ \A x \in Sessions : x # s => done'[x] = done[x] /\ raised'[x] = raised[x]
        /\ "runtime" \in done'[s] <=> "runtime" \in done[s]
        /\ "backend" \in done'[s] <=> "backend" \in done[s]
        /\ "imports" \in done'[s] => "imports" \in done[s] \/ imports' = {}
        /\ ~raised'[s] => ~raised[s] /\ "imports" \in done'[s]
    BY <1>0, <1>20, ReleaseImportsEnds
  <2>3. CASE t = s
    BY <1>0, <2>1, <2>2, <2>3
  <2>4. CASE t # s
    BY <1>0, <2>1, <2>2, <2>4
  <2> QED
    BY <2>3, <2>4
<1>21. CASE CloseApp(s)
  <2>1. /\ at[s] = "native" /\ UNCHANGED <<physics, owner, imports>>
        /\ \A x \in Sessions : x # s =>
             at'[x] = at[x] /\ done'[x] = done[x] /\ raised'[x] = raised[x] /\ app'[x] = app[x]
    BY <1>0, <1>21 DEF CloseApp
  <2>2. CASE t # s
    BY <1>0, <2>1, <2>2
  <2>3. CASE t = s
    <3>1. PICK ok \in BOOLEAN :
            /\ app' = [app EXCEPT ![s] = IF ok THEN "closed" ELSE @]
            /\ raised' = [raised EXCEPT ![s] = @ \/ ~ok]
            /\ done' = [done EXCEPT ![s] = IF ~raised'[s] THEN {}
                                            ELSE IF ok THEN @ \cup {"app"} ELSE @]
            /\ at' = [at EXCEPT ![s] = IF raised'[s] THEN "half" ELSE "closed"]
      BY <1>21 DEF CloseApp
    <3>2. CASE raised'[s]
      BY <1>0, <2>1, <2>3, <3>1, <3>2
    <3>3. CASE ~raised'[s]
      <4>1. ~raised[s] /\ ok
        BY <1>0, <3>1, <3>3
      <4>2. app'[s] = "closed" /\ done'[s] = {} /\ at'[s] = "closed"
        BY <1>0, <3>1, <3>3, <4>1
      <4>3. physics[s] = "closed" /\ owner # s /\ s \notin imports
        BY <1>0, <2>1, <4>1 DEF Owns
      <4> QED
        BY <2>1, <2>3, <4>2, <4>3
    <3> QED
      BY <3>2, <3>3
  <2> QED
    BY <2>2, <2>3
<1> QED
  BY <1>1, <1>2, <1>3, <1>4, <1>5, <1>6, <1>7, <1>8, <1>9, <1>10, <1>11, <1>12, <1>13,
     <1>14, <1>15, <1>16, <1>17, <1>18, <1>19, <1>20, <1>21 DEF Creation, Teardown

LEMMA OrderedKept ==
  ASSUME SessionsInvariant, Next, NEW t \in Sessions PROVE Ordered(t)'
<1> USE DEF Typed, Ordered, Goto, Early, Working, Ending, product
<1> SUFFICES ASSUME NEW s \in Sessions, Creation(s) \/ ClosePhase(s) \/ Teardown(s)
             PROVE Ordered(t)'
  BY DEF Next
<1>0. Typed /\ Ordered(s) /\ Ordered(t)
  BY DEF SessionsInvariant
<1>1. CASE Launch(s) BY <1>0, <1>1 DEF Launch, Remaining
<1>2. CASE RegisterBackend(s) BY <1>0, <1>2 DEF RegisterBackend, Remaining
<1>3. CASE Validated(s) BY <1>0, <1>3 DEF Validated, Remaining
<1>4. CASE LaunchFails(s) BY <1>0, <1>4 DEF LaunchFails, Remaining
<1>5. CASE BuildRuntime(s) BY <1>0, <1>5 DEF BuildRuntime, Remaining
<1>6. CASE InstallPhysicsManager(s) BY <1>0, <1>6 DEF InstallPhysicsManager, Remaining
<1>7. CASE InstallRefused(s) BY <1>0, <1>7 DEF InstallRefused, Remaining
<1>8. CASE CreateFails(s) BY <1>0, <1>8 DEF CreateFails, Remaining
<1>9. CASE AbandonSession(s) BY <1>0, <1>9 DEF AbandonSession, Remaining
<1>10. CASE ImportAssets(s) BY <1>0, <1>10 DEF ImportAssets, Remaining
<1>11. CASE Compose(s) BY <1>0, <1>11 DEF Compose, Remaining
<1>12. CASE CompositionFails(s) BY <1>0, <1>12 DEF CompositionFails, Remaining
<1>13. CASE AttachIngress(s) BY <1>0, <1>13 DEF AttachIngress, Owned, Remaining
<1>14. CASE ClosePhase(s)
  <2>1. PICK left \in SUBSET (live[s] \cap Phase(completed[s] + 1)) :
          /\ live' = [live EXCEPT ![s] = (@ \ Phase(completed[s] + 1)) \cup left]
          /\ completed' = IF left = {} THEN [completed EXCEPT ![s] = @ + 1] ELSE completed
    BY <1>14 DEF ClosePhase
  <2>2. completed[s] \in {0, 1, 2} /\ composed[s] /\ UNCHANGED <<at, composed, late>>
    BY <1>0, <1>14 DEF ClosePhase, Owned
  <2>3. CASE t # s
    BY <1>0, <2>1, <2>2, <2>3
  <2>4. CASE t = s /\ left # {}
    BY <1>0, <2>1, <2>2, <2>4
  <2>5. CASE t = s /\ left = {}
    <3>1. /\ Remaining(0) = Phase(1) \cup Phase(2) \cup Phase(3)
          /\ Remaining(1) = Phase(2) \cup Phase(3) /\ Remaining(2) = Phase(3)
          /\ Remaining(3) = {}
      BY DEF Remaining, Phase, Assembled
    <3>2. live'[s] = live[s] \ Phase(completed[s] + 1) /\ completed'[s] = completed[s] + 1
      BY <1>0, <2>1, <2>5
    <3>3. Remaining(completed[s]) \ Phase(completed[s] + 1) \subseteq Remaining(completed[s] + 1)
      BY <2>2, <3>1
    <3>4. at[s] \in {"open", "half"} /\ completed[s] # 3
      BY <1>14, <2>2 DEF Owned, ClosePhase
    <3> QED
      BY <1>0, <2>2, <2>5, <3>2, <3>3, <3>4
  <2> QED
    BY <2>3, <2>4, <2>5
<1>15. CASE BeginSessionClose(s) BY <1>0, <1>15 DEF BeginSessionClose, Owned, Remaining
<1>16. CASE SkipRuntime(s) BY <1>0, <1>16 DEF SkipRuntime, Needs, Remaining
<1>17. CASE CloseRuntime(s) BY <1>0, <1>17 DEF CloseRuntime, Needs, Remaining
<1>18. CASE ReleasePhysicsManager(s) BY <1>0, <1>18 DEF ReleasePhysicsManager, Remaining
<1>19. CASE ClearBackend(s) BY <1>0, <1>19 DEF ClearBackend, Needs, Remaining
<1>20. CASE ReleaseImports(s) BY <1>0, <1>20 DEF ReleaseImports, Needs, Remaining
<1>21. CASE CloseApp(s) BY <1>0, <1>21 DEF CloseApp, Needs, Remaining
<1> QED
  BY <1>1, <1>2, <1>3, <1>4, <1>5, <1>6, <1>7, <1>8, <1>9, <1>10, <1>11, <1>12, <1>13,
     <1>14, <1>15, <1>16, <1>17, <1>18, <1>19, <1>20, <1>21 DEF Creation, Teardown

LEMMA InvariantKept == SessionsInvariant /\ [Next]_vars => SessionsInvariant'
<1> SUFFICES ASSUME SessionsInvariant, [Next]_vars PROVE SessionsInvariant'
  OBVIOUS
<1>1. CASE Next
  <2>1. Typed'
    BY <1>1, NextKeepsTypes DEF SessionsInvariant
  <2>2. \A t \in Sessions : Owns(t)' /\ Progressed(t)' /\ Ordered(t)'
    BY <1>1, OwnsKept, ProgressedKept, OrderedKept
  <2> QED
    BY <2>1, <2>2 DEF SessionsInvariant
<1>2. CASE UNCHANGED vars
  BY <1>2 DEF SessionsInvariant, Typed, Owns, Progressed, Ordered, Released, vars
<1> QED
  BY <1>1, <1>2

(* The inductive invariant: what each place in the code tells about a session
   holds in every reachable state of the process. *)
THEOREM SessionsSafe == Spec => []SessionsInvariant
BY InitHolds, InvariantKept, PTL DEF Spec

(* No two Newton runtimes are ever in use, and a session that is through owns
   nothing, whatever fails and is retried on the way. *)
THEOREM OwnerUnique == Spec => []OneOwner
<1>1. SessionsInvariant => OneOwner
  <2> SUFFICES ASSUME SessionsInvariant, NEW s \in Sessions
               PROVE  /\ physics[s] \in {"live", "broken"} => owner = s
                      /\ at[s] \in {"closed", "failed"} => owner # s
    BY DEF OneOwner
  <2>1. Typed /\ Owns(s) /\ Progressed(s)
    BY DEF SessionsInvariant
  <2>2. at[s] \in Early \cup Working \cup Ending \cup {"closed"}
    BY <2>1 DEF Typed, Places, Early, Working, Ending
  <2> QED
    BY <2>1, <2>2 DEF Owns, Progressed, Released, Early, Working, Ending
<1> QED
  BY <1>1, SessionsSafe, PTL

(* The runtime and the App of a product are taken down only after every
   resource that was there when its phase was closed has stopped. *)
THEOREM ProductClosedFirst == Spec => []SessionOutlivesProduct
<1>1. SessionsInvariant => SessionOutlivesProduct
  <2> SUFFICES ASSUME SessionsInvariant, NEW s \in Sessions,
                      composed[s], physics[s] # "live" \/ app[s] # "live"
               PROVE  live[s] \subseteq late[s]
    BY DEF SessionOutlivesProduct
  <2>1. Typed /\ Owns(s) /\ Ordered(s)
    BY DEF SessionsInvariant
  <2>2. at[s] \in Early \cup Working \cup Ending \cup {"closed"}
    BY <2>1 DEF Typed, Places, Early, Working, Ending
  <2>3. completed[s] = 3
    BY <2>1, <2>2 DEF Owns, Ordered, Working
  <2> QED
    BY <2>1, <2>3 DEF Ordered, Remaining
<1> QED
  BY <1>1, SessionsSafe, PTL

(* A session that counts as closed has released its App, its runtime, the
   ownership of the process and its imported assets. *)
THEOREM ClosedIsReleased == Spec => [](\A s \in Sessions : at[s] = "closed" => Released(s))
<1>1. SessionsInvariant => \A s \in Sessions : at[s] = "closed" => Released(s)
  BY DEF SessionsInvariant, Progressed
<1> QED
  BY <1>1, SessionsSafe, PTL

-----------------------------------------------------------------------------
Counted == registrations = Cardinality(Registered)

LEMMA RegisteredFinite ==
  IsFiniteSet(Registered) /\ Cardinality(Registered) \in 0 .. Cardinality(Sessions)
BY SessionsAssumption, FS_Subset, FS_CardinalityType DEF Registered

LEMMA OneMore ==
  ASSUME Counted, NEW s, s \notin Registered, Registered' = Registered \cup {s},
         registrations' = registrations + 1
  PROVE  Counted'
BY RegisteredFinite, FS_AddElement DEF Counted

LEMMA OneLess ==
  ASSUME Counted, NEW s, s \in Registered, Registered' = Registered \ {s},
         registrations' = Cleared
  PROVE  Counted'
<1>1. Cardinality(Registered) # 0
  BY RegisteredFinite, FS_EmptySet
<1>2. registrations' = registrations - 1
  BY <1>1 DEF Counted, Cleared
<1> QED
  BY <1>2, RegisteredFinite, FS_RemoveElement DEF Counted

LEMMA CountKept == SessionsInvariant /\ Counted /\ [Next]_vars => Counted'
<1> USE DEF Goto, product, Registered, Needs, Early
<1> SUFFICES ASSUME SessionsInvariant, Counted, [Next]_vars PROVE Counted'
  OBVIOUS
<1>0. CASE UNCHANGED vars
  BY <1>0 DEF vars, Counted
<1> SUFFICES ASSUME NEW s \in Sessions, Creation(s) \/ ClosePhase(s) \/ Teardown(s)
             PROVE Counted'
  BY <1>0 DEF Next
<1>a. /\ at \in [Sessions -> Places] /\ done \in [Sessions -> SUBSET Stages]
      /\ raised \in [Sessions -> BOOLEAN]
      /\ Owns(s) /\ Progressed(s)
  BY DEF SessionsInvariant, Typed
<1>b. ASSUME Registered' = Registered, registrations' = registrations PROVE Counted'
  BY <1>b DEF Counted
<1>1. CASE Launch(s) BY <1>a, <1>b, <1>1 DEF Launch
<1>2. CASE Validated(s) BY <1>a, <1>b, <1>2 DEF Validated
<1>3. CASE BuildRuntime(s) BY <1>a, <1>b, <1>3 DEF BuildRuntime
<1>4. CASE InstallPhysicsManager(s) BY <1>a, <1>b, <1>4 DEF InstallPhysicsManager
<1>5. CASE InstallRefused(s) BY <1>a, <1>b, <1>5 DEF InstallRefused
<1>6. CASE CreateFails(s) BY <1>a, <1>b, <1>6 DEF CreateFails
<1>7. CASE ImportAssets(s) BY <1>a, <1>b, <1>7 DEF ImportAssets
<1>8. CASE Compose(s) BY <1>a, <1>b, <1>8 DEF Compose
<1>9. CASE CompositionFails(s) BY <1>a, <1>b, <1>9 DEF CompositionFails
<1>10. CASE AttachIngress(s) BY <1>a, <1>b, <1>10 DEF AttachIngress
<1>11. CASE ClosePhase(s) BY <1>a, <1>b, <1>11 DEF ClosePhase
<1>12. CASE BeginSessionClose(s) BY <1>a, <1>b, <1>12 DEF BeginSessionClose, Owned
<1>13. CASE SkipRuntime(s) BY <1>a, <1>b, <1>13 DEF SkipRuntime
<1>14. CASE CloseRuntime(s) BY <1>a, <1>b, <1>14 DEF CloseRuntime
<1>15. CASE ReleasePhysicsManager(s) BY <1>a, <1>b, <1>15 DEF ReleasePhysicsManager
<1>16. CASE ReleaseImports(s)
  <2>1. /\ at[s] = "imports" /\ at' = [at EXCEPT ![s] = "native"]
        /\ registrations' = registrations
        /\ done' = done \/ done' = [done EXCEPT ![s] = @ \cup {"imports"}]
    BY <1>16, ReleaseImportsEnds DEF ReleaseImports
  <2>2. Registered' = Registered
    BY <1>a, <2>1
  <2> QED
    BY <1>b, <2>1, <2>2
<1>17. CASE RegisterBackend(s)
  <2>1. s \notin Registered /\ Registered' = Registered \cup {s}
    BY <1>a, <1>17 DEF RegisterBackend, Owns
  <2> QED
    BY <1>17, <2>1, OneMore DEF RegisterBackend
<1>18. CASE LaunchFails(s)
  <2>1. CASE at[s] = "starting"
    BY <1>a, <1>b, <1>18, <2>1 DEF LaunchFails
  <2>2. CASE at[s] = "validating"
    <3>1. s \in Registered /\ Registered' = Registered \ {s}
      BY <1>a, <1>18, <2>2 DEF LaunchFails, Owns
    <3> QED
      BY <1>18, <2>2, <3>1, OneLess DEF LaunchFails
  <2> QED
    BY <1>18, <2>1, <2>2 DEF LaunchFails
<1>19. CASE AbandonSession(s)
  BY <1>a, <1>19, OneLess DEF AbandonSession, Owns
<1>20. CASE ClearBackend(s)
  <2>1. /\ at[s] = "backend" /\ at' = [at EXCEPT ![s] = "imports"]
        /\ done' = [done EXCEPT ![s] = @ \cup {"backend"}]
    BY <1>20 DEF ClearBackend
  <2>2. CASE "backend" \notin done[s]
    <3>1. s \in Registered /\ Registered' = Registered \ {s}
      BY <1>a, <2>1, <2>2
    <3>2. registrations' = Cleared
      BY <1>20, <2>2 DEF ClearBackend
    <3> QED
      BY <3>1, <3>2, OneLess
  <2>3. CASE "backend" \in done[s]
    <3>1. Registered' = Registered
      BY <1>a, <2>1, <2>3
    <3>2. registrations' = registrations
      BY <1>20, <2>3 DEF ClearBackend
    <3> QED
      BY <1>b, <3>1, <3>2
  <2> QED
    BY <2>2, <2>3
<1>21. CASE CloseApp(s)
  <2>1. PICK ok \in BOOLEAN :
          /\ raised' = [raised EXCEPT ![s] = @ \/ ~ok]
          /\ done' = [done EXCEPT ![s] = IF ~raised'[s] THEN {}
                                          ELSE IF ok THEN @ \cup {"app"} ELSE @]
          /\ at' = [at EXCEPT ![s] = IF raised'[s] THEN "half" ELSE "closed"]
    BY <1>21 DEF CloseApp
  <2>2. at[s] = "native" /\ registrations' = registrations
    BY <1>21 DEF CloseApp
  <2>3. ~raised'[s] => "backend" \in done[s]
    BY <1>a, <2>1, <2>2 DEF Progressed
  <2>4. \A t \in Sessions : t # s => at'[t] = at[t] /\ done'[t] = done[t]
    BY <1>a, <2>1
  <2>5. s \in Registered' <=> s \in Registered
    BY <1>a, <2>1, <2>2, <2>3
  <2> QED
    BY <1>b, <2>2, <2>4, <2>5
<1> QED
  BY <1>1, <1>2, <1>3, <1>4, <1>5, <1>6, <1>7, <1>8, <1>9, <1>10,
     <1>11, <1>12, <1>13, <1>14, <1>15, <1>16, <1>17, <1>18, <1>19, <1>20, <1>21 DEF Creation, Teardown

(* Every registration of the backend is returned exactly once: by the launch,
   the creation or the teardown that took it, over all retries. *)
THEOREM RegistrationsCounted == Spec => []RegistrationsBalanced
<1>1. Init => Counted
  BY FS_EmptySet DEF Init, Counted, Registered
<1>2. SessionsInvariant /\ Counted /\ [Next]_vars => Counted'
  BY CountKept
<1>3. Counted => RegistrationsBalanced
  BY DEF Counted, RegistrationsBalanced
<1> QED
  BY <1>1, <1>2, <1>3, SessionsSafe, PTL DEF Spec

(* Every variable keeps its type and the count its bound. *)
THEOREM SessionsTyped == Spec => []TypeOK
<1>1. SessionsInvariant /\ RegistrationsBalanced => TypeOK
  BY RegisteredFinite DEF SessionsInvariant, Typed, RegistrationsBalanced, TypeOK
<1> QED
  BY <1>1, SessionsSafe, RegistrationsCounted, PTL

-----------------------------------------------------------------------------
(* The variant behind BegunCloseEnds. *)

(* The calls from a place of the teardown to its end. *)
Calls ==
  [open |-> 7, half |-> 7, closing |-> 6, releasing |-> 5, backend |-> 4, imports |-> 3,
   native |-> 2, closed |-> 0]

(* An error of the pass under way asks for another one. *)
Again(s) == IF raised[s] /\ at[s] \notin {"open", "half"} THEN 6 ELSE 0

(* How far a begun close is from its end: the phases and the calls of this
   pass, what is added if an error already asks for another one, and a pass
   for every call that may still raise. *)
CallsLeft(s) ==
  (3 - completed[s]) + Calls[at[s]] + Again(s) + 7 * (MaxFailures - failures)

CloseProgresses ==
  [][\A s \in Sessions : Begun(s) =>
       /\ CallsLeft(s)' <= CallsLeft(s)
       /\ ClosePhase(s) \/ Teardown(s) => CallsLeft(s)' < CallsLeft(s)]_vars

(* Where a begun close is. *)
LEMMA BegunTyped ==
  ASSUME SessionsInvariant, NEW s \in Sessions, Begun(s)
  PROVE  /\ at[s] \in {"open", "half", "closing", "releasing", "backend", "imports", "native", "closed"}
         /\ at[s] # "open" => completed[s] = 3
         /\ at[s] = "closing" /\ Needs(s, "runtime") => owner = s
         /\ completed[s] \in 0 .. 3 /\ raised[s] \in BOOLEAN /\ failures \in 0 .. MaxFailures
BY DEF SessionsInvariant, Typed, Places, Owns, Ordered, Early, Working, Ending, Begun, Needs

(* The measure in the places of a begun close. *)
LEMMA CallsLeftIs ==
  ASSUME NEW p \in {"open", "half", "closing", "releasing", "backend", "imports", "native", "closed"}
  PROVE  /\ Calls[p] \in {0, 2, 3, 4, 5, 6, 7}
         /\ p \in {"open", "half"} => Calls[p] = 7
         /\ p = "closing" => Calls[p] = 6
         /\ p = "releasing" => Calls[p] = 5
         /\ p = "backend" => Calls[p] = 4
         /\ p = "imports" => Calls[p] = 3
         /\ p = "native" => Calls[p] = 2
         /\ p = "closed" => Calls[p] = 0
BY DEF Calls

LEMMA CallsLeftIsNat ==
  ASSUME SessionsInvariant, NEW s \in Sessions, Begun(s)
  PROVE  CallsLeft(s) \in Nat
<1>1. /\ completed[s] \in 0 .. 3 /\ failures \in 0 .. MaxFailures /\ MaxFailures \in Nat
      /\ Calls[at[s]] \in {0, 2, 3, 4, 5, 6, 7}
      /\ Again(s) \in {0, 6}
  BY BegunTyped, CallsLeftIs, FailuresAssumption DEF Again
<1> QED
  BY <1>1 DEF CallsLeft

(* A pass over the phases and the stages, with or without an error. *)
LEMMA OwnStepAdvances ==
  ASSUME SessionsInvariant, Typed', NEW s \in Sessions, Begun(s), ClosePhase(s) \/ Teardown(s)
  PROVE  CallsLeft(s)' < CallsLeft(s) /\ CallsLeft(s)' <= CallsLeft(s)
<1> DEFINE Failed == failures' = failures + 1
           Fine == failures' = failures
<1>1. /\ at[s] \in {"open", "half", "closing", "releasing", "backend", "imports", "native", "closed"}
      /\ at[s] # "open" => completed[s] = 3
      /\ at[s] = "closing" /\ Needs(s, "runtime") => owner = s
      /\ completed[s] \in 0 .. 3 /\ raised[s] \in BOOLEAN
      /\ failures \in 0 .. MaxFailures /\ MaxFailures \in Nat
      /\ Typed /\ completed'[s] \in 0 .. 3 /\ failures' \in 0 .. MaxFailures
      /\ raised'[s] \in BOOLEAN
  BY BegunTyped, FailuresAssumption DEF SessionsInvariant, Typed
<1>2. /\ CallsLeft(s) = (3 - completed[s]) + Calls[at[s]] + Again(s) + 7 * (MaxFailures - failures)
      /\ CallsLeft(s)' =
           (3 - completed'[s]) + Calls[at'[s]] + Again(s)' + 7 * (MaxFailures - failures')
  BY DEF CallsLeft, Calls
<1>3. CASE ClosePhase(s)
  <2>1. /\ at'[s] = at[s] /\ Again(s) = 0 /\ Again(s)' = 0
        /\ \/ Fine /\ completed'[s] = completed[s] + 1
           \/ Failed /\ completed'[s] = completed[s]
    BY <1>1, <1>3 DEF ClosePhase, Owned, Outcome, Again, Typed
  <2>2. Calls[at[s]] \in {0, 2, 3, 4, 5, 6, 7}
    BY <1>1, CallsLeftIs
  <2> QED
    BY <1>1, <1>2, <2>1, <2>2
<1> DEFINE Goes(p, q) == at[s] = p /\ at'[s] = q /\ completed'[s] = completed[s]
<1>a. \A p, q \in {"open", "half", "closing", "releasing", "backend", "imports", "native", "closed"} :
        Goes(p, q) =>
          /\ CallsLeft(s) = (3 - completed[s]) + Calls[p] + Again(s) + 7 * (MaxFailures - failures)
          /\ CallsLeft(s)' = (3 - completed[s]) + Calls[q] + Again(s)' + 7 * (MaxFailures - failures')
  BY <1>2
<1>b. Again(s) \in {0, 6} /\ Again(s)' \in {0, 6}
  BY DEF Again
<1>4. CASE BeginSessionClose(s)
  <2>1. /\ Goes("open", "closing") \/ Goes("half", "closing")
        /\ Again(s)' = 0 /\ Fine
    BY <1>1, <1>4 DEF BeginSessionClose, Owned, Goto, Again, Typed, product
  <2> QED
    BY <1>1, <1>a, <1>b, <2>1, CallsLeftIs
<1>5. CASE SkipRuntime(s) \/ ReleasePhysicsManager(s) \/ ClearBackend(s)
  <2>1. /\ \/ Goes("closing", "backend") \/ Goes("releasing", "backend")
           \/ Goes("backend", "imports")
        /\ raised' = raised /\ Fine
    BY <1>1, <1>5 DEF SkipRuntime, ReleasePhysicsManager, ClearBackend, Goto, Typed, product
  <2>2. Again(s)' = Again(s)
    BY <2>1 DEF Again
  <2> QED
    BY <1>1, <1>a, <1>b, <2>1, <2>2, CallsLeftIs
<1>6. CASE CloseRuntime(s)
  <2>1. owner = s
    BY <1>1, <1>6 DEF CloseRuntime
  <2>2. \/ Goes("closing", "releasing") /\ Fine /\ raised'[s] = raised[s]
        \/ Goes("closing", "imports") /\ Failed
    BY <1>1, <1>6, <2>1 DEF CloseRuntime, Outcome, Goto, Typed, product
  <2>3. CASE Goes("closing", "releasing") /\ Fine /\ raised'[s] = raised[s]
    <3>1. Again(s)' = Again(s)
      BY <2>3 DEF Again
    <3> QED
      BY <1>1, <1>a, <1>b, <2>3, <3>1, CallsLeftIs
  <2>4. CASE Goes("closing", "imports") /\ Failed
    BY <1>1, <1>a, <1>b, <2>4, CallsLeftIs
  <2> QED
    BY <2>2, <2>3, <2>4
<1>7. CASE ReleaseImports(s)
  <2>1. /\ Goes("imports", "native")
        /\ Failed \/ (Fine /\ raised' = raised)
    BY <1>1, <1>7, ReleaseImportsEnds DEF Typed
  <2>2. Fine => Again(s)' = Again(s)
    BY <1>1, <2>1 DEF Again
  <2> QED
    BY <1>1, <1>a, <1>b, <2>1, <2>2, CallsLeftIs
<1>8. CASE CloseApp(s)
  <2>1. /\ \/ Goes("native", "closed") /\ ~raised'[s]
           \/ Goes("native", "half") /\ raised'[s]
        /\ Failed \/ (Fine /\ raised'[s] = raised[s])
    BY <1>1, <1>8 DEF CloseApp, Outcome, Goto, Typed, product
  <2>2. CASE Goes("native", "closed") /\ ~raised'[s]
    <3>1. Again(s)' = 0
      BY <2>2 DEF Again
    <3> QED
      BY <1>1, <1>a, <1>b, <2>1, <2>2, <3>1, CallsLeftIs
  <2>3. CASE Goes("native", "half") /\ raised'[s]
    <3>1. Again(s)' = 0 /\ (Failed \/ (Fine /\ Again(s) = 6))
      BY <2>1, <2>3 DEF Again
    <3> QED
      BY <1>1, <1>a, <1>b, <2>3, <3>1, CallsLeftIs
  <2> QED
    BY <2>1, <2>2, <2>3
<1> QED
  BY <1>3, <1>4, <1>5, <1>6, <1>7, <1>8 DEF Teardown

(* The other sessions can only use up failures. *)
LEMMA OtherStepsKeep ==
  ASSUME SessionsInvariant, SessionsInvariant', NEW s \in Sessions, Begun(s),
         NEW t \in Sessions, t # s \/ ~(ClosePhase(s) \/ Teardown(s)),
         Creation(t) \/ ClosePhase(t) \/ Teardown(t)
  PROVE  /\ at'[s] = at[s] /\ completed'[s] = completed[s] /\ raised'[s] = raised[s]
         /\ failures' \in {failures, failures + 1}
<1>1. at[s] \in {"open", "half", "closing", "releasing", "backend", "imports", "native", "closed"}
  BY BegunTyped
<1>2. Typed /\ failures \in Nat
  BY DEF SessionsInvariant, Typed
<1>3. CASE Creation(t)
  <2>1. CASE t = s
    <3>1. AttachIngress(s)
      BY <1>1, <1>3, <2>1 DEF Creation, Launch, RegisterBackend, Validated, LaunchFails, BuildRuntime,
         InstallPhysicsManager, InstallRefused, CreateFails, AbandonSession, ImportAssets,
         Compose, CompositionFails
    <3> QED
      BY <3>1 DEF AttachIngress
  <2>2. CASE t # s
    BY <1>2, <1>3, <2>2 DEF Creation, Launch, RegisterBackend, Validated, LaunchFails, BuildRuntime,
       InstallPhysicsManager, InstallRefused, CreateFails, AbandonSession, ImportAssets,
       Compose, CompositionFails, AttachIngress, Goto, product, Typed
  <2> QED
    BY <2>1, <2>2
<1>4. CASE ClosePhase(t) /\ t # s
  BY <1>2, <1>4 DEF ClosePhase, Outcome, Typed
<1>5. CASE Teardown(t) /\ t # s
  <2>1. CASE ReleaseImports(t)
    BY <1>2, <1>5, <2>1, ReleaseImportsEnds DEF Typed
  <2>2. CASE BeginSessionClose(t) \/ SkipRuntime(t) \/ ReleasePhysicsManager(t) \/ ClearBackend(t)
    BY <1>2, <1>5, <2>2 DEF BeginSessionClose, SkipRuntime, ReleasePhysicsManager, ClearBackend,
       Goto, product, Typed
  <2>3. CASE CloseRuntime(t) \/ CloseApp(t)
    BY <1>2, <1>5, <2>3 DEF CloseRuntime, CloseApp, Outcome, Goto, product, Typed
  <2> QED
    BY <1>5, <2>1, <2>2, <2>3 DEF Teardown
<1> QED
  BY <1>3, <1>4, <1>5

(* A begun close comes nearer to its end with every call it makes, those
   that raise included, and what other sessions do meanwhile takes it no
   further away: at most CallsLeft calls are to come. *)
THEOREM BegunCloseProgresses == Spec => CloseProgresses
<1> DEFINE Progress(s) ==
      /\ CallsLeft(s)' <= CallsLeft(s)
      /\ ClosePhase(s) \/ Teardown(s) => CallsLeft(s)' < CallsLeft(s)
<1>1. ASSUME SessionsInvariant, SessionsInvariant', Next, NEW s \in Sessions, Begun(s)
      PROVE  Progress(s)
  <2>1. ASSUME ClosePhase(s) \/ Teardown(s)
        PROVE  CallsLeft(s)' < CallsLeft(s) /\ CallsLeft(s)' <= CallsLeft(s)
    BY <1>1, <2>1, OwnStepAdvances DEF SessionsInvariant
  <2>2. ASSUME ~(ClosePhase(s) \/ Teardown(s)) PROVE CallsLeft(s)' <= CallsLeft(s)
    <3>1. /\ at'[s] = at[s] /\ completed'[s] = completed[s] /\ raised'[s] = raised[s]
          /\ failures' \in {failures, failures + 1}
      BY <1>1, <2>2, OtherStepsKeep DEF Next
    <3>2. /\ completed[s] \in 0 .. 3 /\ failures \in 0 .. MaxFailures /\ MaxFailures \in Nat
          /\ Calls[at[s]] \in {0, 2, 3, 4, 5, 6, 7} /\ Again(s) \in {0, 6}
      BY <1>1, BegunTyped, CallsLeftIs, FailuresAssumption DEF Again
    <3>3. Again(s)' = Again(s)
      BY <3>1 DEF Again
    <3>4. CallsLeft(s)' =
            (3 - completed[s]) + Calls[at[s]] + Again(s) + 7 * (MaxFailures - failures')
      BY <3>1, <3>3 DEF CallsLeft, Calls
    <3> QED
      BY <3>1, <3>2, <3>4 DEF CallsLeft
  <2> QED
    BY <2>1, <2>2
<1>2. SessionsInvariant /\ SessionsInvariant' /\ [Next]_vars
        => [\A s \in Sessions : Begun(s) => Progress(s)]_vars
  BY <1>1
<1> QED
  BY <1>2, SessionsSafe, PTL DEF Spec, CloseProgresses
=============================================================================
