------------------------ MODULE MirrorTransports_proof ------------------------
(***************************************************************************)
(* Type correctness and StoppedIsSilent of MirrorTransports, for every     *)
(* set of hubs, every finite set of peers and every limit.                 *)
(*                                                                         *)
(* The argument follows the two races of the code.  A listener that is     *)
(* published after its close finds the stop event; so an open one always   *)
(* has a thread that serves it (OpenIsServed).  A connection accepted      *)
(* while close takes its snapshot is with the accepting thread alone       *)
(* (Accepting), which close joins; so when the thread has ended, whoever   *)
(* is not in the snapshot is a worker about to read the stop event         *)
(* (JoinsAll).  Last, the places a stopped thread has left before it ends. *)
(***************************************************************************)
EXTENDS MirrorTransports, FiniteSetTheorems, TLAPS

Places == {"none", "binding", "serving", "accepting", "registering",
           "spawning", "top", "selecting", "handling", "ended"}
ConnPlaces == {"none", "backlog", "accepted", "added", "top", "reading", "handling", "gone"}
ServingPlaces == {"serving", "accepting", "registering", "spawning"}

(* TypeOK without the connection limit, and the bound of both places a line
   of stdin can be in. *)
Types ==
  /\ pc \in {"starting", "waiting", "up", "closing", "unlistening", "snapshot", "joining",
             "half", "down"}
  /\ order \in Orders
  /\ at \in 0 .. Len(order) + 1
  /\ joining \subseteq Clients /\ live \in BOOLEAN /\ started \subseteq Endpoints
  /\ thread \in [Endpoints -> Places]
  /\ sock \in [Endpoints -> {"none", "open", "closed"}]
  /\ stop \subseteq Endpoints
  /\ server \in [Clients -> Endpoints \cup {"none"}]
  /\ conn \in [Clients -> ConnPlaces]
  /\ unread \subseteq Clients /\ timedOut \subseteq Clients
  /\ hungup \subseteq Clients /\ shut \subseteq Clients
  /\ piped \in Nat /\ buffered \in Nat /\ piped + buffered <= MaxLines /\ eof \in BOOLEAN

WithinLimit == \A e \in Endpoints : Cardinality(Serves(e)) <= MaxConnections

(* Where the owner thread is says which endpoint it is at. *)
HubPlace ==
  /\ pc \in {"waiting", "unlistening", "snapshot", "joining"} => at \in DOMAIN order
  /\ pc = "starting" => at # 0
  /\ pc = "closing" => at <= Len(order)
  /\ pc = "snapshot" => Current = "tcp"
  /\ pc \in {"unlistening", "snapshot", "joining"} => Current \in stop

(* What was started is registered, and what comes later was not started. *)
Registered ==
  /\ pc \in {"starting", "waiting", "up"} =>
       \A e \in Endpoints : thread[e] # "none" => e \in started
  /\ pc \in {"starting", "waiting"} =>
       \A i \in DOMAIN order :
         (IF pc = "starting" THEN i >= at ELSE i > at) => thread[order[i]] = "none"

OpenIsServed == \A e \in Endpoints : sock[e] = "open" => thread[e] \in ServingPlaces

(* A connection between accept and the start of its worker is the only one,
   and in the hand of the accepting thread. *)
Accepting ==
  /\ \A c \in Clients :
       /\ conn[c] = "accepted" /\ server[c] = "tcp" => thread["tcp"] = "registering"
       /\ conn[c] = "added" => server[c] = "tcp" /\ thread["tcp"] = "spawning"
  /\ \A c, d \in Clients :
       /\ conn[c] \in {"accepted", "added"} /\ server[c] = "tcp"
       /\ conn[d] \in {"accepted", "added"} /\ server[d] = "tcp"
       => c = d

JoinsAll ==
  pc = "joining" /\ Current = "tcp" =>
    \A c \in Serves("tcp") \ joining : conn[c] \in {"added", "top"}

LetGo ==
  \A e \in Endpoints \ started :
    thread[e] # "none" =>
      /\ e \in stop /\ thread[e] = "ended" /\ sock[e] # "open"
      /\ e = "tcp" => \A c \in Serves(e) : conn[c] = "top"

Inv == Types /\ WithinLimit /\ HubPlace /\ Registered /\ OpenIsServed /\ Accepting
         /\ JoinsAll /\ LetGo

(* The hub's endpoints are a sequence without repetition. *)
LEMMA OrderIsSequence ==
  ASSUME Types
  PROVE  /\ Len(order) \in Nat /\ DOMAIN order = 1 .. Len(order)
         /\ \A i \in 1 .. Len(order) : order[i] \in Endpoints
         /\ \A i, j \in 1 .. Len(order) : order[i] = order[j] => i = j
<1>1. order \in Orders
  BY DEF Types
<1>2. order \in Seq(Endpoints) /\ \A i, j \in DOMAIN order : order[i] = order[j] => i = j
  BY <1>1, OrdersAssumption
<1> QED
  BY <1>2

(* The limit survives when no connection of an endpoint joins the others. *)
LEMMA FewerServed ==
  ASSUME WithinLimit, \A e \in Endpoints : Serves(e)' \subseteq Serves(e)
  PROVE  WithinLimit'
<1> SUFFICES ASSUME NEW e \in Endpoints
             PROVE  Cardinality(Serves(e)') <= MaxConnections
  BY DEF WithinLimit
<1>1. IsFiniteSet(Serves(e))
  BY CapacityAssumption, FS_Subset DEF Serves, Tracked
<1>2. /\ Cardinality(Serves(e)') <= Cardinality(Serves(e))
      /\ Cardinality(Serves(e)) \in Nat /\ Cardinality(Serves(e)') \in Nat
  BY <1>1, FS_Subset, FS_CardinalityType
<1>3. Cardinality(Serves(e)) <= MaxConnections
  BY DEF WithinLimit
<1> QED
  BY <1>2, <1>3, CapacityAssumption

(* ... or when one joins that has found room. *)
LEMMA OneMoreServed ==
  ASSUME WithinLimit, NEW e \in Endpoints, NEW c \in Clients,
         Cardinality(Serves(e)) < MaxConnections,
         Serves(e)' \subseteq Serves(e) \cup {c},
         \A x \in Endpoints \ {e} : Serves(x)' \subseteq Serves(x)
  PROVE  WithinLimit'
<1> SUFFICES ASSUME NEW x \in Endpoints
             PROVE  Cardinality(Serves(x)') <= MaxConnections
  BY DEF WithinLimit
<1>1. IsFiniteSet(Serves(x)) /\ Cardinality(Serves(x)) \in Nat
  BY CapacityAssumption, FS_Subset, FS_CardinalityType DEF Serves, Tracked
<1>2. CASE x = e
  <2>1. /\ IsFiniteSet(Serves(e) \cup {c})
        /\ Cardinality(Serves(e) \cup {c}) <= Cardinality(Serves(e)) + 1
        /\ Cardinality(Serves(e) \cup {c}) \in Nat
    <3>1. /\ IsFiniteSet(Serves(e) \cup {c})
          /\ Cardinality(Serves(e) \cup {c})
               = IF c \in Serves(e) THEN Cardinality(Serves(e)) ELSE Cardinality(Serves(e)) + 1
      BY <1>1, <1>2, FS_AddElement
    <3> QED
      BY <1>1, <1>2, <3>1
  <2>2. /\ Cardinality(Serves(e)') <= Cardinality(Serves(e) \cup {c})
        /\ Cardinality(Serves(e)') \in Nat
    BY <2>1, FS_Subset, FS_CardinalityType
  <2> QED
    BY <1>1, <1>2, <2>1, <2>2, CapacityAssumption
<1>3. CASE x # e
  <2>1. /\ Cardinality(Serves(x)') <= Cardinality(Serves(x))
        /\ Cardinality(Serves(x)') \in Nat
    BY <1>1, <1>3, FS_Subset, FS_CardinalityType
  <2>2. Cardinality(Serves(x)) <= MaxConnections
    BY DEF WithinLimit
  <2> QED
    BY <1>1, <2>1, <2>2, CapacityAssumption
<1> QED
  BY <1>2, <1>3

-----------------------------------------------------------------------------
(* The hub *)

LEMMA StartEndpointPreserves ==
  ASSUME Inv, StartEndpoint
  PROVE  Inv'
<1>1. /\ Current \in Endpoints /\ at \in 1 .. Len(order) /\ thread[Current] = "none"
      /\ started' = started \cup {Current} /\ at' \in {at, at + 1}
      /\ pc = "starting" /\ pc' \in {"starting", "waiting"}
      /\ pc' = "starting" => at' = at + 1
      /\ pc' = "waiting" => at' = at
      /\ \E p \in {"top", "binding"} : thread' = [thread EXCEPT ![Current] = p]
  BY OrderIsSequence DEF Inv, Types, HubPlace, Registered, StartEndpoint, Run, Current, Endpoints
<1>2. UNCHANGED <<order, joining, live, sock, stop, peerVars, stdinVars>>
  BY DEF StartEndpoint
<1>3. Types'
  BY <1>1, <1>2, OrderIsSequence DEF Inv, Types, Places, peerVars, stdinVars
<1>4. WithinLimit'
  BY <1>2 DEF Inv, WithinLimit, Serves, Tracked, peerVars
<1>5. HubPlace' /\ Registered'
  BY <1>1, <1>2, OrderIsSequence DEF Inv, Types, HubPlace, Registered, Current
<1>6. OpenIsServed'
  BY <1>1, <1>2 DEF Inv, Types, OpenIsServed, ServingPlaces
<1>7. Accepting'
  BY <1>1, <1>2 DEF Inv, Types, Accepting, peerVars
<1>8. JoinsAll' /\ LetGo'
  BY <1>1, <1>2 DEF Inv, Types, JoinsAll, LetGo, Serves, Tracked, peerVars
<1> QED
  BY <1>1, <1>2, <1>3, <1>4, <1>5, <1>6, <1>7, <1>8 DEF Inv

LEMMA AllStartedPreserves ==
  ASSUME Inv, AllStarted
  PROVE  Inv'
<1>1. Types'
  BY OrderIsSequence
  DEF Inv, Types, HubPlace, AllStarted, Current, ownerVars, threadVars, peerVars, stdinVars
<1>2. WithinLimit'
  BY DEF Inv, WithinLimit, Serves, Tracked, AllStarted, Current, ownerVars, threadVars, peerVars,
      stdinVars
<1>3. HubPlace' /\ Registered'
  BY OrderIsSequence
  DEF Inv, Types, HubPlace, Registered, AllStarted, Current, ownerVars, threadVars, peerVars,
      stdinVars
<1>4. OpenIsServed' /\ Accepting'
  BY DEF Inv, Types, OpenIsServed, Accepting, AllStarted, Current, ownerVars, threadVars,
      peerVars, stdinVars
<1>5. JoinsAll' /\ LetGo'
  BY OrderIsSequence
  DEF Inv, Types, HubPlace, Registered, OpenIsServed, Accepting, JoinsAll, LetGo,
      ServingPlaces, Serves, Tracked, AllStarted, Current, ownerVars, threadVars, peerVars,
      stdinVars
<1> QED
  BY <1>1, <1>2, <1>3, <1>4, <1>5 DEF Inv

LEMMA EndpointReadyPreserves ==
  ASSUME Inv, EndpointReady
  PROVE  Inv'
<1>1. Types'
  BY OrderIsSequence
  DEF Inv, Types, HubPlace, EndpointReady, Current, ownerVars, threadVars, peerVars, stdinVars
<1>2. WithinLimit'
  BY DEF Inv, WithinLimit, Serves, Tracked, EndpointReady, Current, ownerVars, threadVars,
      peerVars, stdinVars
<1>3. HubPlace' /\ Registered'
  BY OrderIsSequence
  DEF Inv, Types, HubPlace, Registered, EndpointReady, Current, ownerVars, threadVars,
      peerVars, stdinVars
<1>4. OpenIsServed' /\ Accepting'
  BY DEF Inv, Types, OpenIsServed, Accepting, EndpointReady, Current, ownerVars, threadVars,
      peerVars, stdinVars
<1>5. JoinsAll' /\ LetGo'
  BY OrderIsSequence
  DEF Inv, Types, HubPlace, Registered, OpenIsServed, Accepting, JoinsAll, LetGo,
      ServingPlaces, Serves, Tracked, EndpointReady, Current, ownerVars, threadVars, peerVars,
      stdinVars
<1> QED
  BY <1>1, <1>2, <1>3, <1>4, <1>5 DEF Inv

LEMMA StartFailsPreserves ==
  ASSUME Inv, StartFails
  PROVE  Inv'
<1>1. order' = order /\ at' \in 0 .. Len(order) + 1
  BY OrderIsSequence
  DEF Inv, Types, HubPlace, StartFails, BeginClose, Current, ownerVars, threadVars, peerVars,
      stdinVars
<1>2. Types'
  BY <1>1, OrderIsSequence
  DEF Inv, Types, StartFails, BeginClose, Current, ownerVars, threadVars, peerVars, stdinVars
<1>3. WithinLimit'
  BY DEF Inv, WithinLimit, Serves, Tracked, StartFails, BeginClose, Current, ownerVars,
      threadVars, peerVars, stdinVars
<1>4. HubPlace' /\ Registered'
  BY OrderIsSequence
  DEF Inv, Types, HubPlace, Registered, StartFails, BeginClose, Current, ownerVars,
      threadVars, peerVars, stdinVars
<1>5. OpenIsServed' /\ Accepting'
  BY DEF Inv, Types, OpenIsServed, Accepting, StartFails, BeginClose, Current, ownerVars,
      threadVars, peerVars, stdinVars
<1>6. JoinsAll' /\ LetGo'
  BY OrderIsSequence
  DEF Inv, Types, HubPlace, Registered, OpenIsServed, Accepting, JoinsAll, LetGo,
      ServingPlaces, Serves, Tracked, StartFails, BeginClose, Current, ownerVars, threadVars,
      peerVars, stdinVars
<1> QED
  BY <1>1, <1>2, <1>3, <1>4, <1>5, <1>6 DEF Inv

LEMMA ClosePreserves ==
  ASSUME Inv, Close
  PROVE  Inv'
<1>1. order' = order /\ at' \in 0 .. Len(order) + 1
  BY OrderIsSequence
  DEF Inv, Types, HubPlace, Close, BeginClose, Current, ownerVars, threadVars, peerVars,
      stdinVars
<1>2. Types'
  BY <1>1, OrderIsSequence
  DEF Inv, Types, Close, BeginClose, Current, ownerVars, threadVars, peerVars, stdinVars
<1>3. WithinLimit'
  BY DEF Inv, WithinLimit, Serves, Tracked, Close, BeginClose, Current, ownerVars, threadVars,
      peerVars, stdinVars
<1>4. HubPlace' /\ Registered'
  BY OrderIsSequence
  DEF Inv, Types, HubPlace, Registered, Close, BeginClose, Current, ownerVars, threadVars,
      peerVars, stdinVars
<1>5. OpenIsServed' /\ Accepting'
  BY DEF Inv, Types, OpenIsServed, Accepting, Close, BeginClose, Current, ownerVars, threadVars,
      peerVars, stdinVars
<1>6. JoinsAll' /\ LetGo'
  BY OrderIsSequence
  DEF Inv, Types, HubPlace, Registered, OpenIsServed, Accepting, JoinsAll, LetGo,
      ServingPlaces, Serves, Tracked, Close, BeginClose, Current, ownerVars, threadVars,
      peerVars, stdinVars
<1> QED
  BY <1>1, <1>2, <1>3, <1>4, <1>5, <1>6 DEF Inv

LEMMA SkipEndpointPreserves ==
  ASSUME Inv, SkipEndpoint
  PROVE  Inv'
<1>1. Types'
  BY OrderIsSequence
  DEF Inv, Types, HubPlace, SkipEndpoint, Current, ownerVars, threadVars, peerVars, stdinVars
<1>2. WithinLimit'
  BY DEF Inv, WithinLimit, Serves, Tracked, SkipEndpoint, Current, ownerVars, threadVars,
      peerVars, stdinVars
<1>3. HubPlace' /\ Registered'
  BY OrderIsSequence
  DEF Inv, Types, HubPlace, Registered, SkipEndpoint, Current, ownerVars, threadVars,
      peerVars, stdinVars
<1>4. OpenIsServed' /\ Accepting'
  BY DEF Inv, Types, OpenIsServed, Accepting, SkipEndpoint, Current, ownerVars, threadVars,
      peerVars, stdinVars
<1>5. JoinsAll' /\ LetGo'
  BY OrderIsSequence
  DEF Inv, Types, HubPlace, Registered, OpenIsServed, Accepting, JoinsAll, LetGo,
      ServingPlaces, Serves, Tracked, SkipEndpoint, Current, ownerVars, threadVars, peerVars,
      stdinVars
<1> QED
  BY <1>1, <1>2, <1>3, <1>4, <1>5 DEF Inv

LEMMA SetStopPreserves ==
  ASSUME Inv, SetStop
  PROVE  Inv'
<1>1. Types'
  BY OrderIsSequence
  DEF Inv, Types, HubPlace, SetStop, Current, ownerVars, threadVars, peerVars, stdinVars
<1>2. WithinLimit'
  BY DEF Inv, WithinLimit, Serves, Tracked, SetStop, Current, ownerVars, threadVars, peerVars,
      stdinVars
<1>3. HubPlace' /\ Registered'
  BY OrderIsSequence
  DEF Inv, Types, HubPlace, Registered, SetStop, Current, ownerVars, threadVars, peerVars,
      stdinVars
<1>4. OpenIsServed' /\ Accepting'
  BY DEF Inv, Types, OpenIsServed, Accepting, SetStop, Current, ownerVars, threadVars, peerVars,
      stdinVars
<1>5. JoinsAll' /\ LetGo'
  BY OrderIsSequence
  DEF Inv, Types, HubPlace, Registered, OpenIsServed, Accepting, JoinsAll, LetGo,
      ServingPlaces, Serves, Tracked, SetStop, Current, ownerVars, threadVars, peerVars,
      stdinVars
<1> QED
  BY <1>1, <1>2, <1>3, <1>4, <1>5 DEF Inv

LEMMA CloseListenerPreserves ==
  ASSUME Inv, CloseListener
  PROVE  Inv'
<1>1. Types'
  BY OrderIsSequence
  DEF Inv, Types, HubPlace, CloseListener, Current, ownerVars, threadVars, peerVars, stdinVars
<1>2. WithinLimit'
  BY DEF Inv, WithinLimit, Serves, Tracked, CloseListener, Current, ownerVars, threadVars,
      peerVars, stdinVars
<1>3. HubPlace' /\ Registered'
  BY OrderIsSequence
  DEF Inv, Types, HubPlace, Registered, CloseListener, Current, ownerVars, threadVars,
      peerVars, stdinVars
<1>4. OpenIsServed' /\ Accepting'
  BY DEF Inv, Types, OpenIsServed, Accepting, CloseListener, Current, ownerVars, threadVars,
      peerVars, stdinVars
<1>5. JoinsAll' /\ LetGo'
  BY OrderIsSequence
  DEF Inv, Types, HubPlace, Registered, OpenIsServed, Accepting, JoinsAll, LetGo,
      ServingPlaces, Serves, Tracked, CloseListener, Current, ownerVars, threadVars, peerVars,
      stdinVars
<1> QED
  BY <1>1, <1>2, <1>3, <1>4, <1>5 DEF Inv

LEMMA ShutConnectionsPreserves ==
  ASSUME Inv, ShutConnections
  PROVE  Inv'
<1>1. Types'
  BY OrderIsSequence
  DEF Inv, Types, HubPlace, ShutConnections, Current, ownerVars, threadVars, peerVars,
      stdinVars, Serves, Tracked
<1>2. WithinLimit'
  BY DEF Inv, WithinLimit, Serves, Tracked, ShutConnections, Current, ownerVars, threadVars,
      peerVars, stdinVars
<1>3. HubPlace' /\ Registered'
  BY OrderIsSequence
  DEF Inv, Types, HubPlace, Registered, ShutConnections, Current, ownerVars, threadVars,
      peerVars, stdinVars
<1>4. OpenIsServed' /\ Accepting'
  BY DEF Inv, Types, OpenIsServed, Accepting, ShutConnections, Current, ownerVars, threadVars,
      peerVars, stdinVars
<1>5. JoinsAll' /\ LetGo'
  BY OrderIsSequence
  DEF Inv, Types, HubPlace, Registered, OpenIsServed, Accepting, JoinsAll, LetGo,
      ServingPlaces, Serves, Tracked, ShutConnections, Current, ownerVars, threadVars,
      peerVars, stdinVars
<1> QED
  BY <1>1, <1>2, <1>3, <1>4, <1>5 DEF Inv

LEMMA JoinedPreserves ==
  ASSUME Inv, Joined
  PROVE  Inv'
<1>1. order' = order /\ at' \in 0 .. Len(order) + 1
  BY OrderIsSequence
  DEF Inv, Types, HubPlace, Joined, Alive, Current, ownerVars, threadVars, peerVars, stdinVars
<1>2. Types'
  BY <1>1, OrderIsSequence
  DEF Inv, Types, Joined, Alive, Current, ownerVars, threadVars, peerVars, stdinVars
<1>3. WithinLimit'
  BY DEF Inv, WithinLimit, Serves, Tracked, Joined, Alive, Current, ownerVars, threadVars,
      peerVars, stdinVars
<1>4. HubPlace' /\ Registered'
  BY OrderIsSequence
  DEF Inv, Types, HubPlace, Registered, Joined, Alive, Current, ownerVars, threadVars,
      peerVars, stdinVars
<1>5. OpenIsServed' /\ Accepting'
  BY DEF Inv, Types, OpenIsServed, Accepting, Joined, Alive, Current, ownerVars, threadVars,
      peerVars, stdinVars
<1>6. JoinsAll' /\ LetGo'
  BY OrderIsSequence
  DEF Inv, Types, HubPlace, Registered, OpenIsServed, Accepting, JoinsAll, LetGo,
      ServingPlaces, Serves, Tracked, Joined, Alive, Current, ownerVars, threadVars, peerVars,
      stdinVars
<1> QED
  BY <1>1, <1>2, <1>3, <1>4, <1>5, <1>6 DEF Inv

LEMMA EndClosePreserves ==
  ASSUME Inv, EndClose
  PROVE  Inv'
<1>1. Types'
  BY OrderIsSequence
  DEF Inv, Types, HubPlace, EndClose, Current, ownerVars, threadVars, peerVars, stdinVars
<1>2. WithinLimit'
  BY DEF Inv, WithinLimit, Serves, Tracked, EndClose, Current, ownerVars, threadVars, peerVars,
      stdinVars
<1>3. HubPlace' /\ Registered'
  BY OrderIsSequence
  DEF Inv, Types, HubPlace, Registered, EndClose, Current, ownerVars, threadVars, peerVars,
      stdinVars
<1>4. OpenIsServed' /\ Accepting'
  BY DEF Inv, Types, OpenIsServed, Accepting, EndClose, Current, ownerVars, threadVars, peerVars,
      stdinVars
<1>5. JoinsAll' /\ LetGo'
  BY OrderIsSequence
  DEF Inv, Types, HubPlace, Registered, OpenIsServed, Accepting, JoinsAll, LetGo,
      ServingPlaces, Serves, Tracked, EndClose, Current, ownerVars, threadVars, peerVars,
      stdinVars
<1> QED
  BY <1>1, <1>2, <1>3, <1>4, <1>5 DEF Inv

-----------------------------------------------------------------------------
(* The threads of the endpoints *)

LEMMA BindPreserves ==
  ASSUME NEW e \in Endpoints, Inv, Bind(e)
  PROVE  Inv'
<1>1. Types'
  BY OrderIsSequence
  DEF Inv, Types, HubPlace, Bind, Run, ownerVars, threadVars, peerVars, stdinVars, Places
<1>2. WithinLimit'
  BY DEF Inv, WithinLimit, Serves, Tracked, Bind, Run, ownerVars, threadVars, peerVars, stdinVars
<1>3. HubPlace' /\ Registered'
  BY OrderIsSequence
  DEF Inv, Types, HubPlace, Registered, Current, Endpoints, Bind, Run, ownerVars, threadVars,
      peerVars, stdinVars
<1>4. OpenIsServed' /\ Accepting'
  BY DEF Inv, Types, OpenIsServed, Accepting, ServingPlaces, Endpoints, Bind, Run, ownerVars,
      threadVars, peerVars, stdinVars
<1>5. JoinsAll' /\ LetGo'
  BY DEF Inv, Types, JoinsAll, LetGo, Serves, Tracked, Current, Endpoints, Bind, Run, ownerVars,
      threadVars, peerVars, stdinVars
<1> QED
  BY <1>1, <1>2, <1>3, <1>4, <1>5 DEF Inv

LEMMA CheckStopPreserves ==
  ASSUME NEW e \in Endpoints, Inv, CheckStop(e)
  PROVE  Inv'
<1>1. Types'
  BY OrderIsSequence
  DEF Inv, Types, HubPlace, CheckStop, Run, ownerVars, threadVars, peerVars, stdinVars, Places
<1>2. WithinLimit'
  BY DEF Inv, WithinLimit, Serves, Tracked, CheckStop, Run, ownerVars, threadVars, peerVars,
      stdinVars
<1>3. HubPlace' /\ Registered'
  BY OrderIsSequence
  DEF Inv, Types, HubPlace, Registered, Current, Endpoints, CheckStop, Run, ownerVars,
      threadVars, peerVars, stdinVars
<1>4. OpenIsServed' /\ Accepting'
  BY DEF Inv, Types, OpenIsServed, Accepting, ServingPlaces, Endpoints, CheckStop, Run,
      ownerVars, threadVars, peerVars, stdinVars
<1>5. JoinsAll' /\ LetGo'
  BY DEF Inv, Types, JoinsAll, LetGo, Serves, Tracked, Current, Endpoints, CheckStop, Run,
      ownerVars, threadVars, peerVars, stdinVars
<1> QED
  BY <1>1, <1>2, <1>3, <1>4, <1>5 DEF Inv

LEMMA AcceptEndsPreserves ==
  ASSUME NEW e \in Endpoints, Inv, AcceptEnds(e)
  PROVE  Inv'
<1>1. Types'
  BY OrderIsSequence
  DEF Inv, Types, HubPlace, AcceptEnds, Run, ownerVars, threadVars, peerVars, stdinVars,
      Places
<1>2. WithinLimit'
  BY DEF Inv, WithinLimit, Serves, Tracked, AcceptEnds, Run, ownerVars, threadVars, peerVars,
      stdinVars
<1>3. HubPlace' /\ Registered'
  BY OrderIsSequence
  DEF Inv, Types, HubPlace, Registered, Current, Endpoints, AcceptEnds, Run, ownerVars,
      threadVars, peerVars, stdinVars
<1>4. OpenIsServed' /\ Accepting'
  BY DEF Inv, Types, OpenIsServed, Accepting, ServingPlaces, Endpoints, AcceptEnds, Run,
      ownerVars, threadVars, peerVars, stdinVars
<1>5. JoinsAll' /\ LetGo'
  BY DEF Inv, Types, JoinsAll, LetGo, Serves, Tracked, Current, Endpoints, AcceptEnds, Run,
      ownerVars, threadVars, peerVars, stdinVars
<1> QED
  BY <1>1, <1>2, <1>3, <1>4, <1>5 DEF Inv

LEMMA AcceptTimesOutPreserves ==
  ASSUME Inv, AcceptTimesOut
  PROVE  Inv'
<1>1. Types'
  BY OrderIsSequence
  DEF Inv, Types, HubPlace, AcceptTimesOut, Run, ownerVars, threadVars, peerVars, stdinVars,
      Places, Endpoints
<1>2. WithinLimit'
  BY DEF Inv, WithinLimit, Serves, Tracked, AcceptTimesOut, Run, ownerVars, threadVars, peerVars,
      stdinVars
<1>3. HubPlace' /\ Registered'
  BY OrderIsSequence
  DEF Inv, Types, HubPlace, Registered, Current, Endpoints, AcceptTimesOut, Run, ownerVars,
      threadVars, peerVars, stdinVars
<1>4. OpenIsServed' /\ Accepting'
  BY DEF Inv, Types, OpenIsServed, Accepting, ServingPlaces, Endpoints, AcceptTimesOut, Run,
      ownerVars, threadVars, peerVars, stdinVars
<1>5. JoinsAll' /\ LetGo'
  BY DEF Inv, Types, JoinsAll, LetGo, Serves, Tracked, Current, Endpoints, AcceptTimesOut, Run,
      ownerVars, threadVars, peerVars, stdinVars
<1> QED
  BY <1>1, <1>2, <1>3, <1>4, <1>5 DEF Inv

LEMMA AcceptPreserves ==
  ASSUME NEW e \in Endpoints, Inv, Accept(e)
  PROVE  Inv'
<1>1. Types'
  BY OrderIsSequence
  DEF Inv, Types, HubPlace, Accept, Run, Put, ownerVars, threadVars, peerVars, stdinVars,
      Places, ConnPlaces, Endpoints
<1>2. WithinLimit'
  <2>1. \A x \in Endpoints : Serves(x)' \subseteq Serves(x)
    BY DEF Inv, Types, Serves, Tracked, Accept, Run, Put, ownerVars, threadVars, peerVars,
        stdinVars
  <2> QED
    BY <2>1, FewerServed DEF Inv
<1>3. HubPlace' /\ Registered'
  BY OrderIsSequence
  DEF Inv, Types, HubPlace, Registered, Current, Endpoints, Accept, Run, Put, ownerVars,
      threadVars, peerVars, stdinVars
<1>4. OpenIsServed' /\ Accepting'
  BY DEF Inv, Types, OpenIsServed, Accepting, ServingPlaces, Endpoints, Accept, Run, Put,
      ownerVars, threadVars, peerVars, stdinVars
<1>5. JoinsAll' /\ LetGo'
  BY DEF Inv, Types, Accepting, JoinsAll, LetGo, Serves, Tracked, Current, Endpoints, Accept,
      Run, Put, ownerVars, threadVars, peerVars, stdinVars
<1> QED
  BY <1>1, <1>2, <1>3, <1>4, <1>5 DEF Inv

LEMMA TcpRegisterPreserves ==
  ASSUME Inv, TcpRegister
  PROVE  Inv'
<1>1. Types'
  BY OrderIsSequence
  DEF Inv, Types, HubPlace, TcpRegister, Run, Put, ownerVars, threadVars, peerVars, stdinVars,
      Places, ConnPlaces, Endpoints
<1>2. WithinLimit'
  <2>1. PICK c \in Clients :
          /\ server[c] = "tcp" /\ conn[c] = "accepted"
          /\ conn' = [conn EXCEPT ![c] = IF Cardinality(Serves("tcp")) >= MaxConnections
                                          THEN "gone" ELSE "added"]
    BY DEF TcpRegister, Put
  <2>2. UNCHANGED server /\ conn \in [Clients -> ConnPlaces] /\ "tcp" \in Endpoints
    BY DEF Inv, Types, TcpRegister, Endpoints
  <2>3. CASE Cardinality(Serves("tcp")) >= MaxConnections
    <3>1. \A x \in Endpoints : Serves(x)' \subseteq Serves(x)
      BY <2>1, <2>2, <2>3 DEF Serves, Tracked
    <3> QED
      BY <3>1, FewerServed DEF Inv
  <2>4. CASE ~(Cardinality(Serves("tcp")) >= MaxConnections)
    <3>1. Cardinality(Serves("tcp")) < MaxConnections
      <4>1. Cardinality(Serves("tcp")) \in Nat
        BY CapacityAssumption, FS_Subset, FS_CardinalityType DEF Serves, Tracked
      <4> QED
        BY <4>1, <2>4, CapacityAssumption
    <3>2. /\ Serves("tcp")' \subseteq Serves("tcp") \cup {c}
          /\ \A x \in Endpoints \ {"tcp"} : Serves(x)' \subseteq Serves(x)
      BY <2>1, <2>2, <2>4 DEF Serves, Tracked
    <3> QED
      BY <2>2, <3>1, <3>2, OneMoreServed DEF Inv
  <2> QED
    BY <2>3, <2>4
<1>3. HubPlace' /\ Registered'
  BY OrderIsSequence
  DEF Inv, Types, HubPlace, Registered, Current, Endpoints, TcpRegister, Run, Put, ownerVars,
      threadVars, peerVars, stdinVars
<1>4. OpenIsServed' /\ Accepting'
  BY DEF Inv, Types, OpenIsServed, Accepting, ServingPlaces, Endpoints, TcpRegister, Run, Put,
      ownerVars, threadVars, peerVars, stdinVars
<1>5. JoinsAll' /\ LetGo'
  BY DEF Inv, Types, Accepting, JoinsAll, LetGo, Serves, Tracked, Current, Endpoints,
      TcpRegister, Run, Put, ownerVars, threadVars, peerVars, stdinVars
<1> QED
  BY <1>1, <1>2, <1>3, <1>4, <1>5 DEF Inv

LEMMA TcpSpawnPreserves ==
  ASSUME Inv, TcpSpawn
  PROVE  Inv'
<1>1. Types'
  BY OrderIsSequence
  DEF Inv, Types, HubPlace, TcpSpawn, Run, Put, ownerVars, threadVars, peerVars, stdinVars,
      Places, ConnPlaces, Endpoints
<1>2. WithinLimit'
  <2>1. \A x \in Endpoints : Serves(x)' \subseteq Serves(x)
    BY DEF Inv, Types, Serves, Tracked, TcpSpawn, Run, Put, ownerVars, threadVars, peerVars,
        stdinVars
  <2> QED
    BY <2>1, FewerServed DEF Inv
<1>3. HubPlace' /\ Registered'
  BY OrderIsSequence
  DEF Inv, Types, HubPlace, Registered, Current, Endpoints, TcpSpawn, Run, Put, ownerVars,
      threadVars, peerVars, stdinVars
<1>4. OpenIsServed' /\ Accepting'
  BY DEF Inv, Types, OpenIsServed, Accepting, ServingPlaces, Endpoints, TcpSpawn, Run, Put,
      ownerVars, threadVars, peerVars, stdinVars
<1>5. JoinsAll' /\ LetGo'
  BY DEF Inv, Types, Accepting, JoinsAll, LetGo, Serves, Tracked, Current, Endpoints, TcpSpawn,
      Run, Put, ownerVars, threadVars, peerVars, stdinVars
<1> QED
  BY <1>1, <1>2, <1>3, <1>4, <1>5 DEF Inv

-----------------------------------------------------------------------------
(* The threads of the connections *)

(* A worker that moves on, and that reads the stop event when it is at the top
   of its loop, disturbs neither the hub nor the accepting thread. *)
LEMMA WorkerMoves ==
  ASSUME Inv, Types', NEW c \in Clients, NEW place \in {"top", "reading", "handling", "gone"},
         conn[c] \in {"top", "reading", "handling"},
         conn' = [conn EXCEPT ![c] = place],
         conn[c] = "top" /\ "tcp" \in stop => place = "gone",
         UNCHANGED <<ownerVars, threadVars, server>>
  PROVE  Inv'
<1>1. WithinLimit'
  <2>1. \A x \in Endpoints : Serves(x)' \subseteq Serves(x)
    BY DEF Inv, Types, Serves, Tracked
  <2> QED
    BY <2>1, FewerServed DEF Inv
<1>2. HubPlace' /\ Registered' /\ OpenIsServed'
  BY DEF Inv, HubPlace, Registered, OpenIsServed, Current, ownerVars, threadVars
<1>3. Accepting'
  BY DEF Inv, Types, Accepting, threadVars
<1>4. JoinsAll' /\ LetGo'
  BY DEF Inv, Types, HubPlace, JoinsAll, LetGo, Serves, Tracked, Current, ownerVars, threadVars
<1> QED
  BY <1>1, <1>2, <1>3, <1>4 DEF Inv

LEMMA WebSocketAdmitPreserves ==
  ASSUME NEW c \in Clients, Inv, WebSocketAdmit(c)
  PROVE  Inv'
<1>1. Types'
  BY OrderIsSequence
  DEF Inv, Types, HubPlace, WebSocketAdmit, Put, ConnPlaces, ownerVars, threadVars, peerVars,
      stdinVars
<1>2. WithinLimit'
  <2>1. /\ server[c] = "websocket" /\ conn[c] = "accepted" /\ UNCHANGED server
        /\ conn' = [conn EXCEPT ![c] = IF Cardinality(Serves("websocket")) >= MaxConnections
                                        THEN "gone" ELSE "reading"]
        /\ conn \in [Clients -> ConnPlaces] /\ "websocket" \in Endpoints
    BY DEF Inv, Types, WebSocketAdmit, Put, Endpoints
  <2>2. CASE Cardinality(Serves("websocket")) >= MaxConnections
    <3>1. \A x \in Endpoints : Serves(x)' \subseteq Serves(x)
      BY <2>1, <2>2 DEF Serves, Tracked
    <3> QED
      BY <3>1, FewerServed DEF Inv
  <2>3. CASE ~(Cardinality(Serves("websocket")) >= MaxConnections)
    <3>1. Cardinality(Serves("websocket")) < MaxConnections
      <4>1. Cardinality(Serves("websocket")) \in Nat
        BY CapacityAssumption, FS_Subset, FS_CardinalityType DEF Serves, Tracked
      <4> QED
        BY <4>1, <2>3, CapacityAssumption
    <3>2. /\ Serves("websocket")' \subseteq Serves("websocket") \cup {c}
          /\ \A x \in Endpoints \ {"websocket"} : Serves(x)' \subseteq Serves(x)
      BY <2>1, <2>3 DEF Serves, Tracked
    <3> QED
      BY <2>1, <3>1, <3>2, OneMoreServed DEF Inv
  <2> QED
    BY <2>2, <2>3
<1>3. HubPlace' /\ Registered' /\ OpenIsServed'
  BY DEF Inv, HubPlace, Registered, OpenIsServed, Current, WebSocketAdmit, ownerVars, threadVars
<1>4. Accepting'
  BY DEF Inv, Types, Accepting, WebSocketAdmit, Put, threadVars
<1>5. JoinsAll' /\ LetGo'
  BY DEF Inv, Types, JoinsAll, LetGo, Serves, Tracked, Current, WebSocketAdmit, Put, ownerVars,
      threadVars
<1> QED
  BY <1>1, <1>2, <1>3, <1>4, <1>5 DEF Inv

LEMMA WorkerPreserves ==
  ASSUME NEW c \in Clients, Inv, Worker(c)
  PROVE  Inv'
<1>1. CASE WorkerChecksStop(c)
  <2>1. Types'
    BY <1>1
    DEF Inv, Types, WorkerChecksStop, Put, ConnPlaces, ownerVars, threadVars, peerVars,
        stdinVars
  <2>2. /\ conn[c] \in {"top", "reading", "handling"}
        /\ \E place \in {"top", "reading", "handling", "gone"} :
             /\ conn' = [conn EXCEPT ![c] = place]
             /\ conn[c] = "top" /\ "tcp" \in stop => place = "gone"
        /\ UNCHANGED <<ownerVars, threadVars, server>>
    BY <1>1 DEF WorkerChecksStop, Put
  <2> QED
    BY <2>1, <2>2, WorkerMoves
<1>2. CASE ReadRequest(c)
  <2>1. Types'
    BY <1>2
    DEF Inv, Types, ReadRequest, Put, ConnPlaces, ownerVars, threadVars, peerVars, stdinVars
  <2>2. /\ conn[c] \in {"top", "reading", "handling"}
        /\ \E place \in {"top", "reading", "handling", "gone"} :
             /\ conn' = [conn EXCEPT ![c] = place]
             /\ conn[c] = "top" /\ "tcp" \in stop => place = "gone"
        /\ UNCHANGED <<ownerVars, threadVars, server>>
    BY <1>2 DEF ReadRequest, Put
  <2> QED
    BY <2>1, <2>2, WorkerMoves
<1>3. CASE ReadEnds(c)
  <2>1. Types'
    BY <1>3 DEF Inv, Types, ReadEnds, Put, ConnPlaces, ownerVars, threadVars, peerVars, stdinVars
  <2>2. /\ conn[c] \in {"top", "reading", "handling"}
        /\ \E place \in {"top", "reading", "handling", "gone"} :
             /\ conn' = [conn EXCEPT ![c] = place]
             /\ conn[c] = "top" /\ "tcp" \in stop => place = "gone"
        /\ UNCHANGED <<ownerVars, threadVars, server>>
    BY <1>3 DEF ReadEnds, Put
  <2> QED
    BY <2>1, <2>2, WorkerMoves
<1>4. CASE ReadTimesOut(c)
  <2>1. Types'
    BY <1>4
    DEF Inv, Types, ReadTimesOut, Put, ConnPlaces, ownerVars, threadVars, peerVars,
        stdinVars
  <2>2. /\ conn[c] \in {"top", "reading", "handling"}
        /\ \E place \in {"top", "reading", "handling", "gone"} :
             /\ conn' = [conn EXCEPT ![c] = place]
             /\ conn[c] = "top" /\ "tcp" \in stop => place = "gone"
        /\ UNCHANGED <<ownerVars, threadVars, server>>
    BY <1>4 DEF ReadTimesOut, Put
  <2> QED
    BY <2>1, <2>2, WorkerMoves
<1>5. CASE ReadAfterTimeout(c)
  <2>1. Types'
    BY <1>5
    DEF Inv, Types, ReadAfterTimeout, Put, ConnPlaces, ownerVars, threadVars, peerVars,
        stdinVars
  <2>2. /\ conn[c] \in {"top", "reading", "handling"}
        /\ \E place \in {"top", "reading", "handling", "gone"} :
             /\ conn' = [conn EXCEPT ![c] = place]
             /\ conn[c] = "top" /\ "tcp" \in stop => place = "gone"
        /\ UNCHANGED <<ownerVars, threadVars, server>>
    BY <1>5 DEF ReadAfterTimeout, Put
  <2> QED
    BY <2>1, <2>2, WorkerMoves
<1>6. CASE Handle(c)
  <2>1. Types'
    BY <1>6 DEF Inv, Types, Handle, Put, ConnPlaces, ownerVars, threadVars, peerVars, stdinVars
  <2>2. /\ conn[c] \in {"top", "reading", "handling"}
        /\ \E place \in {"top", "reading", "handling", "gone"} :
             /\ conn' = [conn EXCEPT ![c] = place]
             /\ conn[c] = "top" /\ "tcp" \in stop => place = "gone"
        /\ UNCHANGED <<ownerVars, threadVars, server>>
    BY <1>6 DEF Handle, Put
  <2> QED
    BY <2>1, <2>2, WorkerMoves
<1> QED
  BY <1>1, <1>2, <1>3, <1>4, <1>5, <1>6, WebSocketAdmitPreserves DEF Worker

-----------------------------------------------------------------------------
(* The thread of stdin and the peers *)

LEMMA StdinThreadPreserves ==
  ASSUME Inv, StdinThread
  PROVE  Inv'
<1>1. /\ thread["stdin"] \in {"top", "selecting", "handling"}
      /\ \E place \in {"top", "selecting", "handling", "ended"} :
           thread' = [thread EXCEPT !["stdin"] = place]
      /\ UNCHANGED <<ownerVars, sock, stop, peerVars, eof>>
  BY DEF StdinThread, StdinTop, StdinReads, StdinEnds, StdinSelectTimesOut, StdinAnswers, Run,
      stdinVars
<1>2. piped' \in Nat /\ buffered' \in Nat /\ piped' + buffered' <= MaxLines
  <2>1. /\ piped \in Nat /\ buffered \in Nat /\ MaxLines \in Nat
        /\ piped + buffered <= MaxLines
    BY LinesAssumption DEF Inv, Types
  <2>2. CASE StdinReads
    <3>1. \/ buffered > 0 /\ buffered' = buffered - 1 /\ piped' = piped
          \/ buffered = 0 /\ piped > 0 /\ buffered' = piped - 1 /\ piped' = 0
      BY <2>1, <2>2 DEF StdinReads
    <3> QED
      BY <2>1, <3>1
  <2>3. CASE ~StdinReads
    <3>1. UNCHANGED stdinVars
      BY <2>3 DEF StdinThread, StdinTop, StdinEnds, StdinSelectTimesOut, StdinAnswers
    <3> QED
      BY <2>1, <3>1 DEF stdinVars
  <2> QED
    BY <2>2, <2>3
<1>3. Types'
  <2>1. thread' \in [Endpoints -> Places]
    BY <1>1 DEF Inv, Types, Places
  <2> QED
    BY <1>1, <1>2, <2>1 DEF Inv, Types, ownerVars, peerVars
<1>4. WithinLimit'
  BY <1>1 DEF Inv, WithinLimit, Serves, Tracked, peerVars
<1>5. HubPlace' /\ Registered'
  BY <1>1, OrderIsSequence DEF Inv, Types, HubPlace, Registered, Current, Endpoints, ownerVars
<1>6. OpenIsServed' /\ Accepting'
  BY <1>1 DEF Inv, Types, OpenIsServed, Accepting, ServingPlaces, Endpoints, peerVars
<1>7. JoinsAll' /\ LetGo'
  BY <1>1
  DEF Inv, Types, JoinsAll, LetGo, Serves, Tracked, Current, Endpoints, ownerVars, peerVars
<1> QED
  BY <1>2, <1>3, <1>4, <1>5, <1>6, <1>7 DEF Inv

(* What a peer does beside connecting reaches no thread yet. *)
LEMMA PeersPreserve ==
  ASSUME Inv, Peers
  PROVE  Inv'
<1>1. ASSUME UNCHANGED <<ownerVars, threadVars, server, conn>>, Types'
      PROVE  Inv'
  BY <1>1 DEF Inv, WithinLimit, HubPlace, Registered, OpenIsServed, Accepting, JoinsAll, LetGo,
              Serves, Tracked, Current, ownerVars, threadVars
<1>2. ASSUME WriteLine \/ CloseStdin
      PROVE  Inv'
  <2>1. piped' \in Nat /\ buffered' \in Nat /\ piped' + buffered' <= MaxLines
    <3>1. \/ piped' = piped + 1 /\ piped + buffered < MaxLines /\ buffered' = buffered
          \/ piped' = piped /\ buffered' = buffered
      BY <1>2 DEF WriteLine, CloseStdin
    <3> QED
      BY <3>1, LinesAssumption DEF Inv, Types
  <2>2. UNCHANGED <<ownerVars, threadVars, peerVars>> /\ eof' \in BOOLEAN
    BY <1>2 DEF Inv, Types, WriteLine, CloseStdin
  <2>3. Types'
    BY <2>1, <2>2 DEF Inv, Types, ownerVars, threadVars, peerVars
  <2> QED
    BY <1>1, <2>2, <2>3 DEF peerVars
<1>3. ASSUME NEW c \in Clients, Send(c) \/ HangUp(c)
      PROVE  Inv'
  <2>1. Types'
    BY <1>3 DEF Inv, Types, Send, HangUp, ownerVars, threadVars, stdinVars
  <2> QED
    BY <1>1, <1>3, <2>1 DEF Send, HangUp
<1>4. ASSUME NEW c \in Clients, Connect(c)
      PROVE  Inv'
  <2>1. Types'
    BY <1>4 DEF Inv, Types, Connect, Put, ConnPlaces, ownerVars, threadVars, stdinVars
  <2>2. WithinLimit'
    <3>1. \A x \in Endpoints : Serves(x)' \subseteq Serves(x)
      BY <1>4 DEF Inv, Types, Connect, Put, Serves, Tracked
    <3> QED
      BY <3>1, FewerServed DEF Inv
  <2>3. HubPlace' /\ Registered' /\ OpenIsServed'
    BY <1>4 DEF Inv, HubPlace, Registered, OpenIsServed, Current, Connect, ownerVars, threadVars
  <2>4. Accepting'
    BY <1>4 DEF Inv, Types, Accepting, Connect, Put, threadVars
  <2>5. JoinsAll' /\ LetGo'
    BY <1>4
    DEF Inv, Types, JoinsAll, LetGo, Serves, Tracked, Current, Connect, Put, ownerVars,
        threadVars
  <2> QED
    BY <2>1, <2>2, <2>3, <2>4, <2>5 DEF Inv
<1> QED
  BY <1>2, <1>3, <1>4 DEF Peers

-----------------------------------------------------------------------------
(* The theorems *)

LEMMA InitEstablishes == Init => Inv
<1> SUFFICES ASSUME Init
             PROVE  Inv
  OBVIOUS
<1>1. Types
  <2>1. order \in Seq(Endpoints)
    BY OrdersAssumption DEF Init
  <2>2. at \in 0 .. Len(order) + 1
    BY <2>1 DEF Init
  <2>3. piped \in Nat /\ buffered \in Nat /\ piped + buffered <= MaxLines
    BY LinesAssumption DEF Init
  <2> QED
    BY <2>2, <2>3 DEF Init, Types, Places, ConnPlaces
<1>2. WithinLimit
  <2>1. \A e \in Endpoints : Serves(e) = {}
    BY DEF Init, Serves, Tracked
  <2> QED
    BY <2>1, FS_EmptySet, CapacityAssumption DEF WithinLimit
<1>3. HubPlace /\ Registered /\ OpenIsServed /\ Accepting /\ JoinsAll /\ LetGo
  BY OrderIsSequence, <1>1
  DEF Init, HubPlace, Registered, OpenIsServed, Accepting, JoinsAll, LetGo
<1> QED
  BY <1>1, <1>2, <1>3 DEF Inv

LEMMA StepPreserves == Inv /\ [Next]_vars => Inv'
<1> SUFFICES ASSUME Inv, [Next]_vars
             PROVE  Inv'
  OBVIOUS
<1>1. CASE Owner
  BY <1>1, StartEndpointPreserves, AllStartedPreserves, EndpointReadyPreserves,
     StartFailsPreserves, ClosePreserves, SkipEndpointPreserves, SetStopPreserves,
     CloseListenerPreserves, ShutConnectionsPreserves, JoinedPreserves, EndClosePreserves
  DEF Owner
<1>2. CASE StdinThread
  BY <1>2, StdinThreadPreserves
<1>3. CASE TcpThread
  BY <1>3, AcceptTimesOutPreserves, TcpRegisterPreserves, TcpSpawnPreserves DEF TcpThread
<1>4. CASE Peers
  BY <1>4, PeersPreserve
<1>5. ASSUME NEW e \in Endpoints, ServerThread(e)
      PROVE  Inv'
  BY <1>5, BindPreserves, CheckStopPreserves, AcceptEndsPreserves, AcceptPreserves
  DEF ServerThread
<1>6. ASSUME NEW c \in Clients, Worker(c)
      PROVE  Inv'
  BY <1>6, WorkerPreserves
<1>7. CASE UNCHANGED vars
  BY <1>7 DEF vars, ownerVars, threadVars, peerVars, stdinVars, Inv, Types, WithinLimit, HubPlace,
              Registered, OpenIsServed, Accepting, JoinsAll, LetGo, Serves, Tracked, Current
<1> QED
  BY <1>1, <1>2, <1>3, <1>4, <1>5, <1>6, <1>7 DEF Next

(* The inductive invariant holds in every state of the ingress: of the hub of
   transport.py, its endpoints, their connections and peers. *)
THEOREM TransportsInvariant == Spec => []Inv
<1> QED
  BY InitEstablishes, StepPreserves, PTL DEF Spec

LEMMA InvIsTyped == Inv => TypeOK
<1> SUFFICES ASSUME Inv
             PROVE  TypeOK
  OBVIOUS
<1>1. piped \in 0 .. MaxLines /\ buffered \in 0 .. MaxLines
  BY LinesAssumption DEF Inv, Types
<1> QED
  BY <1>1 DEF Inv, Types, WithinLimit, TypeOK, Places, ConnPlaces

(* Every variable keeps its shape, and neither endpoint serves more than
   max_connections: the accepting thread of TCP checks and adds under its lock
   and alone, the WebSocket handlers check and count under theirs. *)
THEOREM TransportsTyped == Spec => []TypeOK
<1> QED
  BY TransportsInvariant, InvIsTyped, PTL

(* An endpoint the hub has let go of has no thread, no listener and, for TCP,
   no worker that will handle another request, whatever bound late and whatever
   was accepted while close was under way. *)
THEOREM LetGoIsSilent == Spec => []StoppedIsSilent
<1>1. Inv => StoppedIsSilent
  BY DEF Inv, LetGo, StoppedIsSilent
<1> QED
  BY <1>1, TransportsInvariant, PTL

-----------------------------------------------------------------------------
(* The variant behind CloseEnds. *)

(* The steps to the end of an endpoint's thread, and of the thread of a TCP
   connection, when the stop event is set. *)
ThreadLeft ==
  [none |-> 6, binding |-> 5, accepting |-> 4, registering |-> 3, spawning |-> 2, serving |-> 1,
   selecting |-> 3, handling |-> 2, top |-> 1, ended |-> 0]
ConnLeft ==
  [none |-> 7, backlog |-> 6, accepted |-> 5, added |-> 4, reading |-> 3, handling |-> 2,
   top |-> 1, gone |-> 0]

StopWindsDown ==
  [][ /\ stop \subseteq stop'
      /\ \A e \in stop : thread'[e] # thread[e] => ThreadLeft[thread'[e]] < ThreadLeft[thread[e]]
      /\ "tcp" \in stop =>
           \A c \in Clients :
             server'[c] = "tcp" /\ conn'[c] # conn[c]
               => ConnLeft[conn'[c]] < ConnLeft[conn[c]] ]_vars

(* A thread whose stop event is set only goes on towards its end. *)
LEMMA ThreadWindsDown ==
  ASSUME Inv, Next, NEW e \in stop, thread'[e] # thread[e]
  PROVE  ThreadLeft[thread'[e]] < ThreadLeft[thread[e]]
<1>1. Types /\ e \in Endpoints
  BY DEF Inv, Types
<1> DEFINE Goes(p, q) == thread[e] = p /\ thread'[e] = q
<1>2. CASE Owner
  <2>1. StartEndpoint
    BY <1>2 DEF Owner, StartEndpoint, AllStarted, EndpointReady, StartFails, Close, BeginClose,
       SkipEndpoint, SetStop, CloseListener, ShutConnections, Joined, EndClose, threadVars
  <2>2. at \in DOMAIN order
    BY <1>1, <2>1, OrderIsSequence DEF Inv, HubPlace, StartEndpoint, Types
  <2>3. Current = e /\ thread[Current] = "none"
    BY <1>1, <2>1, <2>2 DEF Inv, Registered, StartEndpoint, Run, Types, Current
  <2>4. Goes("none", "top") \/ Goes("none", "binding")
    BY <1>1, <2>1, <2>3 DEF StartEndpoint, Run, Types
  <2> QED
    BY <2>4 DEF ThreadLeft
<1>3. CASE StdinThread
  <2>1. \/ Goes("top", "ended") \/ Goes("selecting", "handling") \/ Goes("selecting", "ended")
        \/ Goes("selecting", "top") \/ Goes("handling", "top")
        \/ Goes("handling", "ended")
    BY <1>1, <1>3 DEF StdinThread, StdinTop, StdinReads, StdinEnds, StdinSelectTimesOut,
       StdinAnswers, Run, Types
  <2> QED
    BY <2>1 DEF ThreadLeft
<1>4. CASE TcpThread
  <2>1. \/ Goes("accepting", "serving") \/ Goes("registering", "serving")
        \/ Goes("registering", "spawning") \/ Goes("spawning", "serving")
    BY <1>1, <1>4 DEF TcpThread, AcceptTimesOut, TcpRegister, TcpSpawn, Run, Types
  <2> QED
    BY <2>1 DEF ThreadLeft
<1>5. ASSUME NEW f \in Endpoints, ServerThread(f)
      PROVE  ThreadLeft[thread'[e]] < ThreadLeft[thread[e]]
  <2>1. \/ Goes("binding", "serving") \/ Goes("binding", "ended") \/ Goes("serving", "ended")
        \/ Goes("accepting", "ended") \/ Goes("accepting", "registering")
    BY <1>1, <1>5 DEF ServerThread, Bind, CheckStop, AcceptEnds, Accept, Run, Types
  <2> QED
    BY <2>1 DEF ThreadLeft
<1>6. CASE Peers \/ \E c \in Clients : Worker(c)
  BY <1>6 DEF Peers, WriteLine, CloseStdin, Connect, Send, HangUp, Worker, WebSocketAdmit,
     WorkerChecksStop, ReadRequest, ReadEnds, ReadTimesOut, ReadAfterTimeout, Handle, threadVars
<1> QED
  BY <1>2, <1>3, <1>4, <1>5, <1>6 DEF Next

(* So does a TCP connection, accepted before the stop event was set or after. *)
LEMMA ConnectionWindsDown ==
  ASSUME Inv, Next, "tcp" \in stop, NEW c \in Clients, server'[c] = "tcp", conn'[c] # conn[c]
  PROVE  ConnLeft[conn'[c]] < ConnLeft[conn[c]]
<1>1. Types
  BY DEF Inv
<1> DEFINE Goes(p, q) == conn[c] = p /\ conn'[c] = q
<1>2. CASE Owner \/ StdinThread
  BY <1>2 DEF Owner, StartEndpoint, AllStarted, EndpointReady, StartFails, Close, BeginClose,
     SkipEndpoint, SetStop, CloseListener, ShutConnections, Joined, EndClose, StdinThread,
     StdinTop, StdinReads, StdinEnds, StdinSelectTimesOut, StdinAnswers, peerVars
<1>3. CASE TcpThread
  <2>1. Goes("accepted", "gone") \/ Goes("accepted", "added") \/ Goes("added", "top")
    BY <1>1, <1>3 DEF TcpThread, AcceptTimesOut, TcpRegister, TcpSpawn, Put, Types, peerVars
  <2> QED
    BY <2>1 DEF ConnLeft
<1>4. ASSUME NEW e \in Endpoints, ServerThread(e)
      PROVE  ConnLeft[conn'[c]] < ConnLeft[conn[c]]
  <2>1. Goes("backlog", "accepted")
    BY <1>1, <1>4 DEF ServerThread, Bind, CheckStop, AcceptEnds, Accept, Put, Types, peerVars
  <2> QED
    BY <2>1 DEF ConnLeft
<1>5. CASE Peers
  <2>1. Goes("none", "backlog")
    BY <1>1, <1>5 DEF Peers, WriteLine, CloseStdin, Connect, Send, HangUp, Put, Types, peerVars
  <2> QED
    BY <2>1 DEF ConnLeft
<1>6. ASSUME NEW d \in Clients, Worker(d)
      PROVE  ConnLeft[conn'[c]] < ConnLeft[conn[c]]
  <2>1. server[c] = "tcp"
    BY <1>6 DEF Worker, WebSocketAdmit, WorkerChecksStop, ReadRequest, ReadEnds, ReadTimesOut,
       ReadAfterTimeout, Handle
  <2>2. \/ Goes("top", "gone") \/ Goes("reading", "handling") \/ Goes("reading", "gone")
        \/ Goes("reading", "top") \/ Goes("handling", "gone") \/ Goes("handling", "top")
    BY <1>1, <1>6, <2>1 DEF Worker, WebSocketAdmit, WorkerChecksStop, ReadRequest, ReadEnds,
       ReadTimesOut, ReadAfterTimeout, Handle, Put, Types
  <2> QED
    BY <2>2 DEF ConnLeft
<1> QED
  BY <1>2, <1>3, <1>4, <1>5, <1>6 DEF Next

(* Once the stop event of an endpoint is set it stays set, and every move of
   its thread and, for TCP, of its connections is one towards their end,
   whatever the peers connect, send or leave open meanwhile; so a close that
   is called again finds less alive. *)
THEOREM StoppedThreadsWindDown == Spec => StopWindsDown
<1> DEFINE Down ==
      /\ stop \subseteq stop'
      /\ \A e \in stop : thread'[e] # thread[e] => ThreadLeft[thread'[e]] < ThreadLeft[thread[e]]
      /\ "tcp" \in stop =>
           \A c \in Clients :
             server'[c] = "tcp" /\ conn'[c] # conn[c]
               => ConnLeft[conn'[c]] < ConnLeft[conn[c]]
<1>1. ASSUME Inv, Next PROVE Down
  <2>1. stop \subseteq stop'
    <3>1. CASE Owner
      BY <3>1 DEF Owner, StartEndpoint, AllStarted, EndpointReady, StartFails, Close, BeginClose,
         SkipEndpoint, SetStop, CloseListener, ShutConnections, Joined, EndClose, threadVars
    <3>2. CASE StdinThread \/ TcpThread
      BY <3>2 DEF StdinThread, StdinTop, StdinReads, StdinEnds, StdinSelectTimesOut, StdinAnswers,
         TcpThread, AcceptTimesOut, TcpRegister, TcpSpawn
    <3>3. CASE \E e \in Endpoints : ServerThread(e)
      BY <3>3 DEF ServerThread, Bind, CheckStop, AcceptEnds, Accept
    <3>4. CASE Peers \/ \E c \in Clients : Worker(c)
      BY <3>4 DEF Peers, WriteLine, CloseStdin, Connect, Send, HangUp, Worker, WebSocketAdmit,
         WorkerChecksStop, ReadRequest, ReadEnds, ReadTimesOut, ReadAfterTimeout, Handle, threadVars
    <3> QED
      BY <1>1, <3>1, <3>2, <3>3, <3>4 DEF Next
  <2> QED
    BY <1>1, <2>1, ThreadWindsDown, ConnectionWindsDown
<1>2. Inv /\ [Next]_vars => [Down]_vars
  BY <1>1
<1> QED
  BY <1>2, TransportsInvariant, PTL DEF Spec, StopWindsDown
===============================================================================
