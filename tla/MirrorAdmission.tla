--------------------------- MODULE MirrorAdmission ---------------------------
(***************************************************************************)
(* The bounded admission/response queue that the ingress threads, the      *)
(* runtime owner thread and the out-of-band control operations of Mirror   *)
(* share (mirror/interface/admission.py, class MirrorAdmissionQueue).      *)
(*                                                                         *)
(* Every public method holds one condition lock from its first read to its *)
(* last write, so every method is one action here.  A method that raises   *)
(* leaves the queue unchanged: its action is simply not enabled.  Next     *)
(* lets any thread call any method at any time; MirrorService restricts    *)
(* the callers to the ones the program has.                                *)
(***************************************************************************)
EXTENDS Integers, Sequences, FiniteSets

CONSTANTS
  RequestIds,        \* request_id values chosen by the clients
  Operations,        \* classes of operation a request may carry
  GuardedOperations, \* operations submit refuses while estopped
  Tickets,           \* history: names each accepted submission
  Capacity,          \* MirrorAdmissionQueue.capacity
  TerminalCapacity,  \* MirrorAdmissionQueue.terminal_capacity
  NoRequest,         \* _active is None
  NoTicket           \* history: the response of an out-of-band operation

(* The constructor refuses any other capacities. *)
ASSUME CapacityAssumption ==
  /\ Capacity \in Nat \ {0}
  /\ TerminalCapacity \in Nat
  /\ TerminalCapacity >= Capacity

ASSUME RequestAssumption ==
  /\ GuardedOperations \subseteq Operations
  /\ NoRequest \notin [id : RequestIds, op : Operations, ticket : Tickets]

VARIABLES
  pending,    \* _pending: accepted requests, oldest first
  active,     \* _active: the request the owner thread claimed
  terminal,   \* _terminal: retained responses, oldest first
  reserved,   \* _reserved_immediate
  cancelled,  \* _cancelled
  closed,     \* _closed
  estopped    \* _estopped

admissionVars ==
  <<pending, active, terminal, reserved, cancelled, closed, estopped>>

Request == [id : RequestIds, op : Operations, ticket : Tickets]

(* executed tells a response the owner thread produced from one that was   *)
(* stored on behalf of a request that never ran (cancelled, expired,       *)
(* cleared by estop, by reset or by close).                                *)
Response == [id : RequestIds, ticket : Tickets \cup {NoTicket},
             executed : BOOLEAN]

-----------------------------------------------------------------------------
(* Helpers *)

IdsOf(s) == {s[i].id : i \in DOMAIN s}

ActiveIds == IF active = NoRequest THEN {} ELSE {active.id}

InFlight == Len(pending) + (IF active = NoRequest THEN 0 ELSE 1)

Known(id) == id \in IdsOf(terminal) \cup reserved \cup ActiveIds \cup IdsOf(pending)

(* The queue without its i-th element: deque.remove. *)
RemoveAt(s, i) ==
  [j \in 1 .. Len(s) - 1 |-> IF j < i THEN s[j] ELSE s[j + 1]]

(* popitem(last=False) until at most n entries are left. *)
Retain_OneTooFew(s, n) ==
  IF Len(s) < n THEN s ELSE SubSeq(s, Len(s) - n + 2, Len(s))
Retain(s, n) ==
  IF Len(s) <= n THEN s ELSE SubSeq(s, Len(s) - n + 1, Len(s))

(* _store_terminal of each response in turn.  move_to_end acts only on an   *)
(* id that is already retained, which HomesApart excludes.                  *)
Store(responses) == terminal' = Retain(terminal \o responses, TerminalCapacity)

Answer(r, ran) == [id |-> r.id, ticket |-> r.ticket, executed |-> ran]

-----------------------------------------------------------------------------
(* Ingress threads *)

Submit_IgnoresActive(r) ==
  /\ ~closed
  /\ ~(estopped /\ r.op \in GuardedOperations)
  /\ r.id \notin IdsOf(terminal) \cup reserved \cup IdsOf(pending)
  /\ InFlight < Capacity
  /\ pending' = Append(pending, r)
  /\ UNCHANGED <<active, terminal, reserved, cancelled, closed, estopped>>
Submit(r) ==
  /\ ~closed
  /\ ~(estopped /\ r.op \in GuardedOperations)
  /\ ~Known(r.id)
  /\ InFlight < Capacity
  /\ pending' = Append(pending, r)
  /\ UNCHANGED <<active, terminal, reserved, cancelled, closed, estopped>>

ReserveImmediate(id) ==
  /\ ~closed
  /\ ~Known(id)
  /\ reserved' = reserved \cup {id}
  /\ UNCHANGED <<pending, active, terminal, cancelled, closed, estopped>>

CompleteImmediate(id) ==
  /\ id \in reserved
  /\ reserved' = reserved \ {id}
  /\ Store(<<[id |-> id, ticket |-> NoTicket, executed |-> TRUE]>>)
  /\ UNCHANGED <<pending, active, cancelled, closed, estopped>>

(* Flag the active request, or take a pending one out and answer for it.   *)
Withdraw_StaysQueued(id) ==
  \/ /\ id \in ActiveIds
     /\ cancelled' = cancelled \cup {id}
     /\ UNCHANGED <<pending, terminal>>
  \/ /\ id \notin ActiveIds
     /\ \E i \in DOMAIN pending :
          /\ pending[i].id = id
          /\ Store(<<Answer(pending[i], FALSE)>>)
     /\ UNCHANGED <<pending, cancelled>>
  \/ /\ id \notin ActiveIds \cup IdsOf(pending)
     /\ UNCHANGED <<pending, terminal, cancelled>>
Withdraw(id) ==
  \/ /\ id \in ActiveIds
     /\ cancelled' = cancelled \cup {id}
     /\ UNCHANGED <<pending, terminal>>
  \/ /\ id \notin ActiveIds
     /\ \E i \in DOMAIN pending :
          /\ pending[i].id = id
          /\ pending' = RemoveAt(pending, i)
          /\ Store(<<Answer(pending[i], FALSE)>>)
     /\ UNCHANGED cancelled
  \/ /\ id \notin ActiveIds \cup IdsOf(pending)
     /\ UNCHANGED <<pending, terminal, cancelled>>

(* wait_response at its deadline: _expire_response_wait, then TimeoutError. *)
ExpireWait(id) ==
  /\ id \notin IdsOf(terminal)
  /\ Withdraw(id)
  /\ UNCHANGED <<active, reserved, closed, estopped>>

-----------------------------------------------------------------------------
(* Out-of-band control operations *)

Cancel(id) ==
  /\ Withdraw(id)
  /\ UNCHANGED <<active, reserved, closed, estopped>>

CancelCurrent_Unguarded ==
  /\ cancelled' = cancelled \cup {IF active = NoRequest THEN NoRequest ELSE active.id}
  /\ UNCHANGED <<pending, active, terminal, reserved, closed, estopped>>
CancelCurrent ==
  /\ cancelled' = cancelled \cup ActiveIds
  /\ UNCHANGED <<pending, active, terminal, reserved, closed, estopped>>

(* Every pending request is answered, oldest first. *)
Drain ==
  /\ pending' = <<>>
  /\ Store([i \in DOMAIN pending |-> Answer(pending[i], FALSE)])

Estop_ForgetsToAnswer ==
  /\ estopped' = TRUE
  /\ pending' = <<>>
  /\ cancelled' = cancelled \cup ActiveIds
  /\ UNCHANGED <<terminal, active, reserved, closed>>
Estop_SparesActive ==
  /\ estopped' = TRUE
  /\ Drain
  /\ UNCHANGED <<cancelled, active, reserved, closed>>
Estop ==
  /\ estopped' = TRUE
  /\ Drain
  /\ cancelled' = cancelled \cup ActiveIds
  /\ UNCHANGED <<active, reserved, closed>>

-----------------------------------------------------------------------------
(* Owner thread *)

Claim ==
  /\ active = NoRequest
  /\ pending # <<>>
  /\ active' = Head(pending)
  /\ pending' = Tail(pending)
  /\ UNCHANGED <<terminal, reserved, cancelled, closed, estopped>>

Complete ==
  /\ active # NoRequest
  /\ active' = NoRequest
  /\ cancelled' = cancelled \ {active.id}
  /\ Store(<<Answer(active, TRUE)>>)
  /\ UNCHANGED <<pending, reserved, closed, estopped>>

CancelPending ==
  /\ Drain
  /\ UNCHANGED <<active, reserved, cancelled, closed, estopped>>

ClearEstop ==
  /\ estopped' = FALSE
  /\ UNCHANGED <<pending, active, terminal, reserved, cancelled, closed>>

Close_KeepsPending ==
  /\ ~closed
  /\ closed' = TRUE
  /\ cancelled' = cancelled \cup ActiveIds
  /\ UNCHANGED <<pending, terminal, active, reserved, estopped>>
Close ==
  /\ ~closed
  /\ closed' = TRUE
  /\ Drain
  /\ cancelled' = cancelled \cup ActiveIds
  /\ UNCHANGED <<active, reserved, estopped>>

(* What a running operation reads between two of its steps. *)
ShouldCancel(id) == id \in cancelled \/ estopped \/ closed

-----------------------------------------------------------------------------
Init ==
  /\ pending = <<>>
  /\ active = NoRequest
  /\ terminal = <<>>
  /\ reserved = {}
  /\ cancelled = {}
  /\ closed = FALSE
  /\ estopped = FALSE

Next ==
  \/ \E r \in Request : Submit(r)
  \/ \E id \in RequestIds : ReserveImmediate(id)
  \/ \E id \in RequestIds : CompleteImmediate(id)
  \/ \E id \in RequestIds : ExpireWait(id)
  \/ \E id \in RequestIds : Cancel(id)
  \/ CancelCurrent
  \/ Estop
  \/ Claim
  \/ Complete
  \/ CancelPending
  \/ ClearEstop
  \/ Close

Spec == Init /\ [][Next]_admissionVars

-----------------------------------------------------------------------------
(* Properties *)

(* Every variable keeps the shape of its Python attribute. *)
TypeOK ==
  /\ pending \in Seq(Request)
  /\ active \in Request \cup {NoRequest}
  /\ terminal \in Seq(Response)
  /\ reserved \in SUBSET RequestIds
  /\ cancelled \in SUBSET RequestIds
  /\ closed \in BOOLEAN
  /\ estopped \in BOOLEAN

DistinctIds(s) == \A i, j \in DOMAIN s : s[i].id = s[j].id => i = j

(* The four places a request or its answer can be share no id.              *)
HomesApart ==
  /\ DistinctIds(pending)
  /\ DistinctIds(terminal)
  /\ IdsOf(pending) \cap IdsOf(terminal) = {}
  /\ ActiveIds \cap (IdsOf(pending) \cup IdsOf(terminal)) = {}
  /\ reserved \cap (IdsOf(pending) \cup IdsOf(terminal) \cup ActiveIds) = {}

(* The queue is bounded in what it admits (pending and active together) and *)
(* in what it remembers.                                                    *)
Bounded ==
  /\ InFlight <= Capacity
  /\ Len(terminal) <= TerminalCapacity

(* A cancellation flag names the request that is running.                   *)
CancelTargetsActive == cancelled \subseteq ActiveIds

(* The class comment's promise on duplicates: an id is in at most one of    *)
(* pending, active, reserved and terminal, and there only once, although    *)
(* eight methods move ids between them from several threads; and a          *)
(* cancellation flag lives with the running request: it never outlives it   *)
(* to strike a later request that uses the id again.                        *)
OneHome == HomesApart /\ CancelTargetsActive

(* While the estop latch is set no guarded request waits to be run, and one *)
(* that is running has been told to stop.                                   *)
EstopHolds ==
  estopped =>
    /\ \A i \in DOMAIN pending : pending[i].op \notin GuardedOperations
    /\ active # NoRequest /\ active.op \in GuardedOperations
         => active.id \in cancelled

(* Once close returned nothing waits to be run and the running request has  *)
(* been told to stop.                                                       *)
CloseHolds == closed => pending = <<>> /\ ActiveIds \subseteq cancelled

(* All of them together: each holds of the next state only because the     *)
(* others hold of this one.                                                *)
Inv ==
  /\ TypeOK
  /\ HomesApart
  /\ Bounded
  /\ CancelTargetsActive
  /\ EstopHolds
  /\ CloseHolds

(* What terminal_capacity >= capacity buys: the step that takes a request   *)
(* out of the queue leaves it running or retains its answer, even when one  *)
(* step answers the whole queue.                                            *)
KeepsAnswers ==
  \A id \in IdsOf(pending) \cup ActiveIds :
    id \in IdsOf(pending') \cup ActiveIds' \cup IdsOf(terminal')

NoAnswerLost == [][KeepsAnswers]_admissionVars

=============================================================================
