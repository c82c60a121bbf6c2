-------------------------- MODULE MirrorTransports --------------------------
(***************************************************************************)
(* The ingress of Mirror, mirror/interface/transport.py: the hub that      *)
(* starts and closes the endpoints on the owner thread, the thread of each *)
(* endpoint, and a thread per TCP or WebSocket connection, interleaved at  *)
(* every lock, event and system call.                                      *)
(*                                                                         *)
(* A request is a whole line or frame; what it says is MirrorService's.    *)
(* Timeouts are choices: a wait may expire whenever what it waits for is   *)
(* not there.  After a close that did not stop everything the owner calls  *)
(* close again.                                                            *)
(***************************************************************************)
EXTENDS Naturals, Sequences, FiniteSets

CONSTANTS
  Orders,          \* the endpoints a hub may be given, in the order of their start
  Clients,         \* peers; each makes one connection
  MaxConnections,
  MaxLines         \* bound: lines of stdin written and not yet handled

Endpoints == {"stdin", "tcp", "websocket"}

ASSUME OrdersAssumption ==
  \A o \in Orders :
    /\ o \in Seq(Endpoints)
    /\ \A i, j \in DOMAIN o : o[i] = o[j] => i = j
ASSUME CapacityAssumption == IsFiniteSet(Clients) /\ MaxConnections \in Nat \ {0}
ASSUME LinesAssumption == MaxLines \in Nat

VARIABLES
  order,     \* the hub's endpoints
  pc,        \* where the owner thread is in start or close of the hub
  at,        \* index of the endpoint it is at
  joining,   \* the connections whose workers close took to join
  live,      \* this close found something that did not stop
  started,   \* _started
  thread,    \* endpoint -> its _thread
  sock,      \* endpoint -> its listener or server, "none" until published
  stop,      \* endpoints whose _stop is set
  server,    \* client -> the endpoint it connected to
  conn,      \* client -> its connection and the thread that serves it
  unread,    \* clients with a request the server did not read yet
  timedOut,  \* connections whose socket object has raised a read timeout
  hungup,    \* clients that closed their end
  shut,      \* connections close() has shut
  piped,     \* lines in the pipe of stdin
  buffered,  \* lines in the buffer of the text stream over it
  eof        \* the other end of the pipe is closed

ownerVars == <<order, pc, at, joining, live, started>>
threadVars == <<thread, sock, stop>>
peerVars == <<server, conn, unread, timedOut, hungup, shut>>
stdinVars == <<piped, buffered, eof>>
vars == <<ownerVars, threadVars, peerVars, stdinVars>>

Current == order[at]

(* _connections and _workers of TCP, _connections of WebSocket: who is in
   there is where its thread is. *)
Tracked == {c \in Clients : conn[c] \in {"added", "top", "reading", "handling"}}
Serves(e) == {c \in Tracked : server[c] = e}

Run(e, place) == thread' = [thread EXCEPT ![e] = place]
Put(c, place) == conn' = [conn EXCEPT ![c] = place]

Init ==
  /\ order \in Orders
  /\ pc = "starting" /\ at = 1 /\ joining = {} /\ live = FALSE /\ started = {}
  /\ thread = [e \in Endpoints |-> "none"]
  /\ sock = [e \in Endpoints |-> "none"]
  /\ stop = {}
  /\ server = [c \in Clients |-> "none"]
  /\ conn = [c \in Clients |-> "none"]
  /\ unread = {} /\ timedOut = {} /\ hungup = {} /\ shut = {}
  /\ piped = 0 /\ buffered = 0 /\ eof = FALSE

-----------------------------------------------------------------------------
(* The hub, on the owner thread *)

(* An endpoint is registered before it is started, so that the rollback of a
   start that fails half-way reaches it. *)
StartEndpoint ==
  /\ pc = "starting" /\ at <= Len(order)
  /\ started' = started \cup {Current}
  /\ IF Current = "stdin"
       THEN Run("stdin", "top") /\ at' = at + 1 /\ pc' = pc
       ELSE Run(Current, "binding") /\ at' = at /\ pc' = "waiting"
  /\ UNCHANGED <<order, joining, live, sock, stop, peerVars, stdinVars>>

AllStarted ==
  /\ pc = "starting" /\ at > Len(order)
  /\ pc' = "up"
  /\ UNCHANGED <<order, at, joining, live, started, threadVars, peerVars, stdinVars>>

BeginClose ==
  /\ pc' = "closing" /\ at' = Len(order) /\ live' = FALSE
  /\ UNCHANGED <<order, joining, started, threadVars, peerVars, stdinVars>>

EndpointReady ==
  /\ pc = "waiting" /\ sock[Current] # "none"
  /\ pc' = "starting" /\ at' = at + 1
  /\ UNCHANGED <<order, joining, live, started, threadVars, peerVars, stdinVars>>

(* start raises, because the endpoint could not bind or did not say in time
   that it could: the hub closes what was started. *)
StartFails ==
  /\ pc = "waiting" /\ sock[Current] = "none"
  /\ BeginClose

(* MirrorRuntime.close, from run_mirror or from a caller that retries it. *)
Close == pc \in {"up", "half"} /\ BeginClose

SkipEndpoint ==
  /\ pc = "closing" /\ at > 0 /\ Current \notin started
  /\ at' = at - 1
  /\ UNCHANGED <<order, pc, joining, live, started, threadVars, peerVars, stdinVars>>

SetStop ==
  /\ pc = "closing" /\ at > 0 /\ Current \in started
  /\ stop' = stop \cup {Current}
  /\ pc' = "unlistening"
  /\ UNCHANGED <<order, at, joining, live, started, thread, sock, peerVars, stdinVars>>

(* The listener or server is closed if it was published by now. *)
CloseListener ==
  /\ pc = "unlistening"
  /\ sock' = [sock EXCEPT ![Current] = IF @ = "open" THEN "closed" ELSE @]
  /\ pc' = IF Current = "tcp" THEN "snapshot" ELSE "joining"
  /\ UNCHANGED <<order, at, joining, live, started, thread, stop, peerVars, stdinVars>>

(* TCP only: the connections and workers of this moment are shut and joined. *)
ShutConnections ==
  /\ pc = "snapshot"
  /\ joining' = Serves("tcp")
  /\ shut' = shut \cup Serves("tcp")
  /\ pc' = "joining"
  /\ UNCHANGED <<order, at, live, started, threadVars, server, conn, unread, timedOut, hungup, stdinVars>>

Alive_ThreadOnly == thread[Current] # "ended"

Alive == thread[Current] # "ended" \/ \E c \in joining : conn[c] # "gone"

(* The joins ended or expired: an endpoint that did not stop stays with the
   hub for the next close. *)
Joined ==
  /\ pc = "joining"
  /\ started' = IF Alive THEN started ELSE started \ {Current}
  /\ live' = (live \/ Alive)
  /\ joining' = {}
  /\ at' = at - 1 /\ pc' = "closing"
  /\ UNCHANGED <<order, threadVars, peerVars, stdinVars>>

EndClose ==
  /\ pc = "closing" /\ at = 0
  /\ pc' = IF live THEN "half" ELSE "down"
  /\ UNCHANGED <<order, at, joining, live, started, threadVars, peerVars, stdinVars>>

Owner ==
  \/ StartEndpoint \/ AllStarted \/ EndpointReady \/ StartFails \/ Close
  \/ SkipEndpoint \/ SetStop \/ CloseListener \/ ShutConnections \/ Joined \/ EndClose

-----------------------------------------------------------------------------
(* The thread of the TCP and of the WebSocket endpoint *)

Bind(e) ==
  /\ e # "stdin" /\ thread[e] = "binding"
  /\ \/ Run(e, "serving") /\ sock' = [sock EXCEPT ![e] = "open"]
     \/ Run(e, "ended") /\ UNCHANGED sock
  /\ UNCHANGED <<ownerVars, stop, peerVars, stdinVars>>

(* TCP asks for the stop event between two accepts; WebSocket once, after the
   server was published, and then serves until it is shut down. *)
CheckStop(e) ==
  /\ e # "stdin" /\ thread[e] = "serving"
  /\ IF e \in stop
       THEN Run(e, "ended") /\ sock' = [sock EXCEPT ![e] = "closed"]
       ELSE Run(e, "accepting") /\ UNCHANGED sock
  /\ UNCHANGED <<ownerVars, stop, peerVars, stdinVars>>

AcceptEnds(e) ==
  /\ e # "stdin" /\ thread[e] = "accepting" /\ sock[e] = "closed"
  /\ Run(e, "ended")
  /\ UNCHANGED <<ownerVars, sock, stop, peerVars, stdinVars>>

AcceptTimesOut ==
  /\ thread["tcp"] = "accepting" /\ sock["tcp"] = "open"
  /\ Run("tcp", "serving")
  /\ UNCHANGED <<ownerVars, sock, stop, peerVars, stdinVars>>

(* WebSocket gives each connection a thread at once, TCP after its capacity
   was checked by the thread that accepted it. *)
Accept(e) ==
  /\ e # "stdin" /\ thread[e] = "accepting" /\ sock[e] = "open"
  /\ \E c \in Clients :
       /\ server[c] = e /\ conn[c] = "backlog"
       /\ Put(c, "accepted")
  /\ Run(e, IF e = "tcp" THEN "registering" ELSE "accepting")
  /\ UNCHANGED <<ownerVars, sock, stop, server, unread, timedOut, hungup, shut, stdinVars>>

TcpRegister_OneTooMany ==
  /\ thread["tcp"] = "registering"
  /\ \E c \in Clients :
       /\ server[c] = "tcp" /\ conn[c] = "accepted"
       /\ Put(c, IF Cardinality(Serves("tcp")) > MaxConnections THEN "gone" ELSE "added")
  /\ Run("tcp", IF Cardinality(Serves("tcp")) > MaxConnections THEN "serving" ELSE "spawning")
  /\ UNCHANGED <<ownerVars, sock, stop, server, unread, timedOut, hungup, shut, stdinVars>>

(* Under the lock: rejected, or added with a worker that does not run yet. *)
TcpRegister ==
  /\ thread["tcp"] = "registering"
  /\ \E c \in Clients :
       /\ server[c] = "tcp" /\ conn[c] = "accepted"
       /\ Put(c, IF Cardinality(Serves("tcp")) >= MaxConnections THEN "gone" ELSE "added")
  /\ Run("tcp", IF Cardinality(Serves("tcp")) >= MaxConnections THEN "serving" ELSE "spawning")
  /\ UNCHANGED <<ownerVars, sock, stop, server, unread, timedOut, hungup, shut, stdinVars>>

TcpSpawn ==
  /\ thread["tcp"] = "spawning"
  /\ \E c \in Clients : conn[c] = "added" /\ Put(c, "top")
  /\ Run("tcp", "serving")
  /\ UNCHANGED <<ownerVars, sock, stop, server, unread, timedOut, hungup, shut, stdinVars>>

ServerThread(e) == Bind(e) \/ CheckStop(e) \/ AcceptEnds(e) \/ Accept(e)
TcpThread == AcceptTimesOut \/ TcpRegister \/ TcpSpawn

-----------------------------------------------------------------------------
(* The threads of the connections.  A worker that ends leaves the sets, or the
   count, in its finally clause: that and the end of its thread are one step. *)

(* websocket_handler: the count is checked and raised under the lock. *)
WebSocketAdmit(c) ==
  /\ server[c] = "websocket" /\ conn[c] = "accepted"
  /\ Put(c, IF Cardinality(Serves("websocket")) >= MaxConnections THEN "gone" ELSE "reading")
  /\ UNCHANGED <<ownerVars, threadVars, server, unread, timedOut, hungup, shut, stdinVars>>

WorkerChecksStop(c) ==
  /\ conn[c] = "top"
  /\ Put(c, IF "tcp" \in stop THEN "gone" ELSE "reading")
  /\ UNCHANGED <<ownerVars, threadVars, server, unread, timedOut, hungup, shut, stdinVars>>

ReadRequest(c) ==
  /\ conn[c] = "reading" /\ c \in unread /\ c \notin timedOut
  /\ unread' = unread \ {c}
  /\ Put(c, "handling")
  /\ UNCHANGED <<ownerVars, threadVars, server, timedOut, hungup, shut, stdinVars>>

ReadEnds(c) ==
  /\ conn[c] = "reading" /\ c \notin unread /\ c \in hungup \cup shut
  /\ Put(c, "gone")
  /\ UNCHANGED <<ownerVars, threadVars, server, unread, timedOut, hungup, shut, stdinVars>>

(* TCP reads with a timeout and goes on after it, but the file object over a
   socket that has timed out raises OSError for every later read. *)
ReadTimesOut(c) ==
  /\ server[c] = "tcp" /\ conn[c] = "reading"
  /\ c \notin unread \cup hungup \cup shut \cup timedOut
  /\ timedOut' = timedOut \cup {c}
  /\ Put(c, "top")
  /\ UNCHANGED <<ownerVars, threadVars, server, unread, hungup, shut, stdinVars>>

ReadAfterTimeout(c) ==
  /\ conn[c] = "reading" /\ c \in timedOut
  /\ Put(c, "gone")
  /\ UNCHANGED <<ownerVars, threadVars, server, unread, timedOut, hungup, shut, stdinVars>>

(* submit_and_wait returns, with an answer or at its deadline, and the answer
   is written, or not to a connection that is closed at either end. *)
Handle(c) ==
  /\ conn[c] = "handling"
  /\ \/ c \in hungup \cup shut /\ Put(c, "gone")
     \/ c \notin shut /\ Put(c, IF server[c] = "tcp" THEN "top" ELSE "reading")
  /\ UNCHANGED <<ownerVars, threadVars, server, unread, timedOut, hungup, shut, stdinVars>>

Worker(c) ==
  \/ WebSocketAdmit(c) \/ WorkerChecksStop(c) \/ ReadRequest(c) \/ ReadEnds(c)
  \/ ReadTimesOut(c) \/ ReadAfterTimeout(c) \/ Handle(c)

-----------------------------------------------------------------------------
(* The thread of stdin *)

StdinTop_NoStop ==
  /\ thread["stdin"] = "top"
  /\ Run("stdin", "selecting")
  /\ UNCHANGED <<ownerVars, sock, stop, peerVars, stdinVars>>

StdinTop ==
  /\ thread["stdin"] = "top"
  /\ Run("stdin", IF "stdin" \in stop THEN "ended" ELSE "selecting")
  /\ UNCHANGED <<ownerVars, sock, stop, peerVars, stdinVars>>

(* select looks at the pipe alone; readline takes everything out of it when
   the stream's own buffer is empty and returns one line. *)
StdinReads ==
  /\ thread["stdin"] = "selecting"
  /\ piped > 0 \/ (eof /\ buffered > 0)
  /\ IF buffered > 0
       THEN buffered' = buffered - 1 /\ piped' = piped
       ELSE buffered' = piped - 1 /\ piped' = 0
  /\ Run("stdin", "handling")
  /\ UNCHANGED <<ownerVars, sock, stop, peerVars, eof>>

(* The end of the input: the thread is done, with or without a quit request. *)
StdinEnds ==
  /\ thread["stdin"] = "selecting" /\ eof /\ piped + buffered = 0
  /\ Run("stdin", "ended")
  /\ UNCHANGED <<ownerVars, sock, stop, peerVars, stdinVars>>

StdinSelectTimesOut ==
  /\ thread["stdin"] = "selecting" /\ piped = 0 /\ ~eof
  /\ Run("stdin", "top")
  /\ UNCHANGED <<ownerVars, sock, stop, peerVars, stdinVars>>

(* Writing the answer raises when nobody reads the output any more, and the
   thread ends with it. *)
StdinAnswers ==
  /\ thread["stdin"] = "handling"
  /\ Run("stdin", "top") \/ Run("stdin", "ended")
  /\ UNCHANGED <<ownerVars, sock, stop, peerVars, stdinVars>>

StdinThread == StdinTop \/ StdinReads \/ StdinEnds \/ StdinSelectTimesOut \/ StdinAnswers

-----------------------------------------------------------------------------
(* The peers *)

Connect(c) ==
  /\ conn[c] = "none"
  /\ \E e \in Endpoints :
       /\ sock[e] = "open"
       /\ server' = [server EXCEPT ![c] = e]
  /\ Put(c, "backlog")
  /\ UNCHANGED <<ownerVars, threadVars, unread, timedOut, hungup, shut, stdinVars>>

(* What a peer does before its connection is served shows only then. *)
Send(c) ==
  /\ c \in Tracked \ (unread \cup hungup \cup shut)
  /\ unread' = unread \cup {c}
  /\ UNCHANGED <<ownerVars, threadVars, server, conn, timedOut, hungup, shut, stdinVars>>

HangUp(c) ==
  /\ c \in Tracked \ (unread \cup hungup)
  /\ hungup' = hungup \cup {c}
  /\ UNCHANGED <<ownerVars, threadVars, server, conn, unread, timedOut, shut, stdinVars>>

WriteLine ==
  /\ thread["stdin"] # "none" /\ ~eof /\ piped + buffered < MaxLines
  /\ piped' = piped + 1
  /\ UNCHANGED <<ownerVars, threadVars, peerVars, buffered, eof>>

CloseStdin ==
  /\ thread["stdin"] # "none" /\ ~eof
  /\ eof' = TRUE
  /\ UNCHANGED <<ownerVars, threadVars, peerVars, piped, buffered>>

Peers == WriteLine \/ CloseStdin \/ \E c \in Clients : Connect(c) \/ Send(c) \/ HangUp(c)

Next ==
  \/ Owner \/ StdinThread \/ TcpThread \/ Peers
  \/ \E e \in Endpoints : ServerThread(e)
  \/ \E c \in Clients : Worker(c)

Spec == Init /\ [][Next]_vars

(* Every thread runs, a handler returns, a close that was begun goes on and is
   called again.  Peers owe nothing, and no wait has to expire. *)
FairSpec ==
  /\ Spec
  /\ WF_vars(Owner /\ pc \notin {"starting", "waiting", "up"})
  /\ WF_vars(StdinThread) /\ WF_vars(TcpThread)
  /\ \A e \in Endpoints : WF_vars(ServerThread(e))
  /\ \A c \in Clients : WF_vars(Worker(c))

-----------------------------------------------------------------------------
TypeOK ==
  /\ pc \in {"starting", "waiting", "up", "closing", "unlistening", "snapshot", "joining",
             "half", "down"}
  /\ order \in Orders
  /\ at \in 0 .. Len(order) + 1
  /\ joining \subseteq Clients /\ live \in BOOLEAN /\ started \subseteq Endpoints
  /\ thread \in [Endpoints -> {"none", "binding", "serving", "accepting", "registering",
                               "spawning", "top", "selecting", "handling", "ended"}]
  /\ sock \in [Endpoints -> {"none", "open", "closed"}]
  /\ stop \subseteq Endpoints
  /\ server \in [Clients -> Endpoints \cup {"none"}]
  /\ conn \in [Clients -> {"none", "backlog", "accepted", "added", "top", "reading",
                           "handling", "gone"}]
  /\ unread \subseteq Clients /\ timedOut \subseteq Clients
  /\ hungup \subseteq Clients /\ shut \subseteq Clients
  /\ piped \in 0 .. MaxLines /\ buffered \in 0 .. MaxLines /\ eof \in BOOLEAN
  /\ \A e \in Endpoints : Cardinality(Serves(e)) <= MaxConnections

(* An endpoint the hub has let go of has no thread and no listener, even when
   its start timed out and it bound later; and no TCP worker, not even one
   that was accepted while close was under way, handles a request. *)
StoppedIsSilent ==
  \A e \in Endpoints \ started :
    thread[e] # "none" =>
      /\ thread[e] = "ended" /\ sock[e] # "open"
      /\ e = "tcp" => \A c \in Serves(e) : conn[c] = "top"

(* A close that is begun, and called again while something lives, ends with
   every endpoint stopped, whatever the peers send or leave open. *)
CloseEnds == pc = "closing" ~> pc = "down"

(* transport.py:340 goes on after a read timeout: a request that a client has
   sent on a connection that is served is read, however long the client was
   silent before, unless it hangs up or the endpoint is told to stop. *)
RequestIsRead ==
  \A c \in Clients :
    (conn[c] \in {"top", "reading", "handling"} /\ c \in unread)
      ~> (c \notin unread \/ c \in hungup \/ server[c] \in stop)
=============================================================================
