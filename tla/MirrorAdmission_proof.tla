------------------------ MODULE MirrorAdmission_proof ------------------------
(***************************************************************************)
(* The admission queue keeps its invariants for every number of clients,   *)
(* ids and slots.                                                          *)
(***************************************************************************)
EXTENDS MirrorAdmission, SequenceTheorems, TLAPS

-----------------------------------------------------------------------------
(* Lemmas on the sequence operators *)

Dropped(s, n) == IF Len(s) <= n THEN 0 ELSE Len(s) - n

(* Retain keeps the suffix of at most n elements. *)
LEMMA RetainIsSuffix ==
  ASSUME NEW S, NEW s \in Seq(S), NEW n \in Nat
  PROVE  /\ Retain(s, n) \in Seq(S)
         /\ Dropped(s, n) \in Nat
         /\ Len(Retain(s, n)) = Len(s) - Dropped(s, n)
         /\ Len(Retain(s, n)) <= n
         /\ \A i \in 1 .. Len(Retain(s, n)) :
              /\ i + Dropped(s, n) \in 1 .. Len(s)
              /\ Retain(s, n)[i] = s[i + Dropped(s, n)]
<1>0. Len(s) \in Nat
  BY LenProperties
<1>1. CASE Len(s) <= n
  BY <1>0, <1>1 DEF Retain, Dropped
<1>2. CASE Len(s) > n
  <2> DEFINE m == Len(s) - n + 1
             t == SubSeq(s, m, Len(s))
  <2>1. /\ m \in Int
        /\ m <= Len(s) + 1
        /\ m >= 1
        /\ \A i \in m .. Len(s) : s[i] \in S
    BY <1>0, <1>2, ElementOfSeq
  <2>2. /\ t \in Seq(S)
        /\ Len(t) = IF m <= Len(s) THEN Len(s) - m + 1 ELSE 0
        /\ \A i \in 1 .. Len(s) - m + 1 : t[i] = s[m + i - 1]
    BY <1>0, <2>1, SubSeqProperties
  <2>3. Retain(s, n) = t /\ Dropped(s, n) = m - 1
    BY <1>0, <1>2 DEF Retain, Dropped
  <2> HIDE DEF t
  <2>4. Len(t) = n
    BY <1>0, <1>2, <2>2
  <2>5. \A i \in 1 .. n : i + (m - 1) \in 1 .. Len(s) /\ t[i] = s[i + (m - 1)]
    BY <1>0, <1>2, <2>2
  <2> QED
    BY <1>0, <1>2, <2>2, <2>3, <2>4, <2>5
<1> QED
  BY <1>0, <1>1, <1>2

(* RemoveAt takes out exactly one element and keeps the order. *)
LEMMA RemoveAtProperties ==
  ASSUME NEW S, NEW s \in Seq(S), NEW i \in DOMAIN s
  PROVE  /\ RemoveAt(s, i) \in Seq(S)
         /\ Len(RemoveAt(s, i)) = Len(s) - 1
         /\ \A j \in 1 .. Len(s) - 1 :
              RemoveAt(s, i)[j] = s[IF j < i THEN j ELSE j + 1]
<1>1. /\ Len(s) \in Nat
      /\ DOMAIN s = 1 .. Len(s)
      /\ \A j \in 1 .. Len(s) : s[j] \in S
  BY LenProperties, ElementOfSeq
<1>2. Len(s) - 1 \in Nat
  BY <1>1
<1>3. RemoveAt(s, i) \in [1 .. Len(s) - 1 -> S]
  BY <1>1, <1>2 DEF RemoveAt
<1>4. RemoveAt(s, i) \in Seq(S)
  BY <1>2, <1>3, SeqDef
<1> QED
  BY <1>1, <1>2, <1>3, <1>4, LenProperties DEF RemoveAt

LEMMA RemoveAtIds ==
  ASSUME NEW s \in Seq(Request), NEW i \in DOMAIN s, DistinctIds(s)
  PROVE  /\ IdsOf(RemoveAt(s, i)) = IdsOf(s) \ {s[i].id}
         /\ DistinctIds(RemoveAt(s, i))
<1>1. /\ Len(s) \in Nat
      /\ DOMAIN s = 1 .. Len(s)
      /\ i \in 1 .. Len(s)
  BY LenProperties
<1>2. /\ RemoveAt(s, i) \in Seq(Request)
      /\ Len(RemoveAt(s, i)) = Len(s) - 1
      /\ \A j \in 1 .. Len(s) - 1 :
           RemoveAt(s, i)[j] = s[IF j < i THEN j ELSE j + 1]
  BY RemoveAtProperties
<1>3. DOMAIN RemoveAt(s, i) = 1 .. Len(s) - 1
  BY <1>2, LenProperties
<1>4. ASSUME NEW j \in 1 .. Len(s) - 1
      PROVE  RemoveAt(s, i)[j].id \in IdsOf(s) \ {s[i].id}
  <2> DEFINE k == IF j < i THEN j ELSE j + 1
  <2>1. k \in DOMAIN s /\ k # i
    BY <1>1
  <2>2. RemoveAt(s, i)[j] = s[k]
    BY <1>2
  <2>3. s[k].id # s[i].id
    BY <2>1 DEF DistinctIds
  <2> QED
    BY <2>1, <2>2, <2>3 DEF IdsOf
<1>5. ASSUME NEW k \in 1 .. Len(s), s[k].id # s[i].id
      PROVE  s[k].id \in IdsOf(RemoveAt(s, i))
  <2> DEFINE j == IF k < i THEN k ELSE k - 1
  <2>1. j \in 1 .. Len(s) - 1
    BY <1>1, <1>5
  <2>2. RemoveAt(s, i)[j] = s[k]
    BY <1>1, <1>2, <1>5, <2>1
  <2> QED
    BY <1>3, <2>1, <2>2 DEF IdsOf
<1>6. IdsOf(RemoveAt(s, i)) = IdsOf(s) \ {s[i].id}
  BY <1>1, <1>3, <1>4, <1>5 DEF IdsOf
<1>7. DistinctIds(RemoveAt(s, i))
  <2> DEFINE f(j) == IF j < i THEN j ELSE j + 1
  <2> SUFFICES ASSUME NEW j \in 1 .. Len(s) - 1, NEW k \in 1 .. Len(s) - 1,
                      RemoveAt(s, i)[j].id = RemoveAt(s, i)[k].id
               PROVE  j = k
    BY <1>3 DEF DistinctIds
  <2>1. f(j) \in DOMAIN s /\ f(k) \in DOMAIN s
    BY <1>1
  <2>2. s[f(j)].id = s[f(k)].id
    BY <1>2
  <2>3. f(j) = f(k)
    BY <2>1, <2>2 DEF DistinctIds
  <2> QED
    BY <1>1, <2>3
<1> QED
  BY <1>6, <1>7

(* Storing fresh answers keeps the retained ids distinct and retains the   *)
(* new answers themselves, as long as they are no more than the history    *)
(* can hold.                                                               *)
LEMMA StoreFresh ==
  ASSUME NEW rs \in Seq(Response), Store(rs),
         terminal \in Seq(Response),
         DistinctIds(terminal), DistinctIds(rs),
         IdsOf(terminal) \cap IdsOf(rs) = {}
  PROVE  /\ terminal' \in Seq(Response)
         /\ Len(terminal') <= TerminalCapacity
         /\ DistinctIds(terminal')
         /\ IdsOf(terminal') \subseteq IdsOf(terminal) \cup IdsOf(rs)
         /\ Len(rs) <= TerminalCapacity => IdsOf(rs) \subseteq IdsOf(terminal')
<1> DEFINE all == terminal \o rs
           d == Dropped(all, TerminalCapacity)
<1>1. /\ all \in Seq(Response)
      /\ Len(all) = Len(terminal) + Len(rs)
      /\ \A i \in 1 .. Len(terminal) + Len(rs) :
           all[i] = IF i <= Len(terminal) THEN terminal[i] ELSE rs[i - Len(terminal)]
  BY ConcatProperties
<1>2. /\ Len(terminal) \in Nat /\ DOMAIN terminal = 1 .. Len(terminal)
      /\ Len(rs) \in Nat /\ DOMAIN rs = 1 .. Len(rs)
      /\ DOMAIN all = 1 .. Len(all)
  BY <1>1, LenProperties
<1>3. terminal' = Retain(all, TerminalCapacity) /\ TerminalCapacity \in Nat
  BY CapacityAssumption DEF Store
<1> HIDE DEF all, d
<1>4. /\ terminal' \in Seq(Response)
      /\ d \in Nat
      /\ Len(terminal') = Len(all) - d
      /\ Len(terminal') <= TerminalCapacity
      /\ \A i \in 1 .. Len(terminal') :
           i + d \in 1 .. Len(all) /\ terminal'[i] = all[i + d]
  BY <1>1, <1>3, RetainIsSuffix DEF d
<1>5. DOMAIN terminal' = 1 .. Len(terminal') /\ Len(terminal') \in Nat
  BY <1>4, LenProperties
<1>6. \A i \in 1 .. Len(all) : all[i].id \in IdsOf(terminal) \cup IdsOf(rs)
  <2> TAKE i \in 1 .. Len(all)
  <2>1. CASE i <= Len(terminal)
    <3>1. i \in DOMAIN terminal /\ all[i] = terminal[i]
      BY <1>1, <1>2, <2>1
    <3> QED
      BY <3>1 DEF IdsOf
  <2>2. CASE i > Len(terminal)
    <3>1. i - Len(terminal) \in DOMAIN rs /\ all[i] = rs[i - Len(terminal)]
      BY <1>1, <1>2, <2>2
    <3> QED
      BY <3>1 DEF IdsOf
  <2> QED
    BY <1>2, <2>1, <2>2
<1>7. DistinctIds(all)
  <2> SUFFICES ASSUME NEW i \in 1 .. Len(all), NEW j \in 1 .. Len(all),
                      all[i].id = all[j].id
               PROVE  i = j
    BY <1>2 DEF DistinctIds
  <2> DEFINE T == Len(terminal)
  <2>1. CASE i <= T /\ j <= T
    <3>1. i \in DOMAIN terminal /\ j \in DOMAIN terminal
          /\ all[i] = terminal[i] /\ all[j] = terminal[j]
      BY <1>1, <1>2, <2>1
    <3> QED
      BY <3>1 DEF DistinctIds
  <2>2. CASE i > T /\ j > T
    <3>1. i - T \in DOMAIN rs /\ j - T \in DOMAIN rs
          /\ all[i] = rs[i - T] /\ all[j] = rs[j - T]
      BY <1>1, <1>2, <2>2
    <3>2. i - T = j - T
      BY <3>1 DEF DistinctIds
    <3> QED
      BY <1>2, <3>2
  <2>3. ASSUME NEW a \in 1 .. Len(all), NEW b \in 1 .. Len(all), a <= T, b > T
        PROVE  all[a].id # all[b].id
    <3>1. a \in DOMAIN terminal /\ b - T \in DOMAIN rs
          /\ all[a] = terminal[a] /\ all[b] = rs[b - T]
      BY <1>1, <1>2, <2>3
    <3> QED
      BY <3>1 DEF IdsOf
  <2> QED
    BY <1>1, <1>2, <2>1, <2>2, <2>3
<1>8. DistinctIds(terminal')
  <2> SUFFICES ASSUME NEW i \in 1 .. Len(terminal'), NEW j \in 1 .. Len(terminal'),
                      terminal'[i].id = terminal'[j].id
               PROVE  i = j
    BY <1>5 DEF DistinctIds
  <2>1. i + d \in DOMAIN all /\ j + d \in DOMAIN all
    BY <1>2, <1>4
  <2>2. all[i + d].id = all[j + d].id
    BY <1>4
  <2>3. i + d = j + d
    BY <1>7, <2>1, <2>2 DEF DistinctIds
  <2> QED
    BY <1>4, <1>5, <2>3
<1>9. IdsOf(terminal') \subseteq IdsOf(terminal) \cup IdsOf(rs)
  <2> SUFFICES ASSUME NEW i \in 1 .. Len(terminal')
               PROVE  terminal'[i].id \in IdsOf(terminal) \cup IdsOf(rs)
    BY <1>5 DEF IdsOf
  <2>1. i + d \in 1 .. Len(all) /\ terminal'[i] = all[i + d]
    BY <1>4
  <2> QED
    BY <1>6, <2>1
<1>10. ASSUME Len(rs) <= TerminalCapacity, NEW k \in 1 .. Len(rs)
       PROVE  rs[k].id \in IdsOf(terminal')
  <2> DEFINE i == Len(terminal) + k - d
  <2>1. d = IF Len(all) <= TerminalCapacity THEN 0 ELSE Len(all) - TerminalCapacity
    BY DEF d, Dropped
  <2>2. i \in 1 .. Len(terminal')
    BY <1>1, <1>2, <1>3, <1>4, <1>10, <2>1
  <2>3. terminal'[i] = all[Len(terminal) + k]
    BY <1>2, <1>4, <2>2
  <2>4. all[Len(terminal) + k] = rs[k]
    BY <1>1, <1>2
  <2> QED
    BY <1>5, <2>2, <2>3, <2>4 DEF IdsOf
<1> QED
  BY <1>2, <1>4, <1>8, <1>9, <1>10 DEF IdsOf

-----------------------------------------------------------------------------
(* Lemmas on the queue's operations *)

LEMMA AnswerProperties ==
  ASSUME NEW r \in Request, NEW ran \in BOOLEAN
  PROVE  /\ <<Answer(r, ran)>> \in Seq(Response)
         /\ Len(<<Answer(r, ran)>>) = 1
         /\ DistinctIds(<<Answer(r, ran)>>)
         /\ IdsOf(<<Answer(r, ran)>>) = {r.id}
<1>1. Answer(r, ran) \in Response
  BY DEF Answer, Request, Response
<1>2. Answer(r, ran).id = r.id
  BY DEF Answer
<1> QED
  BY <1>1, <1>2 DEF DistinctIds, IdsOf

(* Answering for the whole queue at once loses none of the answers, because *)
(* the history holds at least as many as the queue.                        *)
LEMMA DrainAnswersAll ==
  ASSUME TypeOK, HomesApart, Bounded, Drain
  PROVE  /\ pending' = <<>>
         /\ terminal' \in Seq(Response)
         /\ Len(terminal') <= TerminalCapacity
         /\ DistinctIds(terminal')
         /\ IdsOf(terminal') \subseteq IdsOf(terminal) \cup IdsOf(pending)
         /\ IdsOf(pending) \subseteq IdsOf(terminal')
<1> DEFINE rs == [i \in DOMAIN pending |-> Answer(pending[i], FALSE)]
<1>1. /\ Len(pending) \in Nat
      /\ DOMAIN pending = 1 .. Len(pending)
      /\ \A i \in 1 .. Len(pending) : pending[i] \in Request
  BY LenProperties, ElementOfSeq DEF TypeOK
<1>2. \A i \in 1 .. Len(pending) : rs[i] \in Response /\ rs[i].id = pending[i].id
  BY <1>1 DEF Answer, Request, Response
<1>3. /\ rs \in Seq(Response)
      /\ Len(rs) = Len(pending)
      /\ DOMAIN rs = 1 .. Len(pending)
  <2>1. rs \in [1 .. Len(pending) -> Response]
    BY <1>1, <1>2
  <2> HIDE DEF rs
  <2>2. rs \in Seq(Response)
    BY <1>1, <2>1, SeqDef
  <2> QED
    BY <1>1, <2>1, <2>2, LenProperties
<1>4. Store(rs) /\ pending' = <<>>
  BY DEF Drain
<1> HIDE DEF rs
<1>5. IdsOf(rs) = IdsOf(pending)
  BY <1>1, <1>2, <1>3 DEF IdsOf
<1>6. DistinctIds(rs)
  <2> SUFFICES ASSUME NEW i \in 1 .. Len(pending), NEW j \in 1 .. Len(pending),
                      rs[i].id = rs[j].id
               PROVE  i = j
    BY <1>3 DEF DistinctIds
  <2>1. pending[i].id = pending[j].id
    BY <1>2
  <2> QED
    BY <1>1, <2>1 DEF HomesApart, DistinctIds
<1>7. Len(rs) <= TerminalCapacity
  <2>1. Len(pending) <= Capacity
    BY <1>1, CapacityAssumption DEF Bounded, InFlight
  <2> QED
    BY <1>1, <1>3, <2>1, CapacityAssumption
<1> QED
  BY <1>3, <1>4, <1>5, <1>6, <1>7, StoreFresh DEF TypeOK, HomesApart

LEMMA EmptyQueue == IdsOf(<<>>) = {} /\ DistinctIds(<<>>) /\ Len(<<>>) = 0
  BY DEF IdsOf, DistinctIds

(* A queue operation that leaves a part of the state alone leaves alone     *)
(* what is read off that part.                                              *)
LEMMA Unchanged ==
  /\ pending' = pending => IdsOf(pending') = IdsOf(pending)
  /\ terminal' = terminal => IdsOf(terminal') = IdsOf(terminal)
  /\ active' = active => ActiveIds' = ActiveIds
BY DEF ActiveIds

(* The draining operations (estop, reset, close) differ only in the flags   *)
(* they set.                                                                *)
LEMMA DrainKeepsHomes ==
  ASSUME Inv, Drain, UNCHANGED <<active, reserved>>
  PROVE  /\ HomesApart'
         /\ Bounded'
         /\ KeepsAnswers
         /\ pending' = <<>>
         /\ pending' \in Seq(Request)
         /\ terminal' \in Seq(Response)
         /\ ActiveIds' = ActiveIds
<1>1. /\ pending' = <<>>
      /\ terminal' \in Seq(Response)
      /\ Len(terminal') <= TerminalCapacity
      /\ DistinctIds(terminal')
      /\ IdsOf(terminal') \subseteq IdsOf(terminal) \cup IdsOf(pending)
      /\ IdsOf(pending) \subseteq IdsOf(terminal')
  BY DrainAnswersAll DEF Inv
<1>2. IdsOf(pending') = {} /\ DistinctIds(pending') /\ Len(pending') = 0
      /\ pending' \in Seq(Request)
  BY <1>1, EmptyQueue
<1>3. ActiveIds' = ActiveIds
  BY Unchanged
<1>4. HomesApart'
  BY <1>1, <1>2, <1>3 DEF Inv, HomesApart
<1>5. Bounded'
  BY <1>1, <1>2, CapacityAssumption DEF Bounded, InFlight
<1>6. KeepsAnswers
  BY <1>1, <1>2, <1>3 DEF KeepsAnswers
<1> QED
  BY <1>1, <1>2, <1>3, <1>4, <1>5, <1>6

(* cancel and the response deadline change the queue in the same way.       *)
LEMMA WithdrawKeepsInv ==
  ASSUME Inv, NEW id \in RequestIds, Withdraw(id),
         UNCHANGED <<active, reserved, closed, estopped>>
  PROVE  Inv' /\ KeepsAnswers
<1>1. ActiveIds' = ActiveIds
  BY Unchanged
<1>2. CASE id \in ActiveIds /\ cancelled' = cancelled \cup {id}
           /\ UNCHANGED <<pending, terminal>>
  <2>1. TypeOK'
    BY <1>2 DEF Inv, TypeOK
  <2>2. HomesApart' /\ Bounded' /\ KeepsAnswers
    BY <1>1, <1>2 DEF Inv, HomesApart, Bounded, InFlight, KeepsAnswers
  <2>3. CancelTargetsActive' /\ EstopHolds' /\ CloseHolds'
    BY <1>1, <1>2 DEF Inv, CancelTargetsActive, EstopHolds, CloseHolds
  <2> QED
    BY <2>1, <2>2, <2>3 DEF Inv
<1>3. ASSUME NEW i \in DOMAIN pending, pending[i].id = id,
             pending' = RemoveAt(pending, i),
             Store(<<Answer(pending[i], FALSE)>>),
             cancelled' = cancelled
      PROVE  Inv' /\ KeepsAnswers
  <2> DEFINE rs == <<Answer(pending[i], FALSE)>>
  <2>1. /\ Len(pending) \in Nat
        /\ DOMAIN pending = 1 .. Len(pending)
        /\ i \in 1 .. Len(pending)
        /\ \A j \in DOMAIN pending : pending[j] \in Request
    BY LenProperties, ElementOfSeq DEF Inv, TypeOK
  <2>2. /\ pending' \in Seq(Request)
        /\ Len(pending') = Len(pending) - 1
        /\ \A j \in 1 .. Len(pending) - 1 :
             pending'[j] = pending[IF j < i THEN j ELSE j + 1]
    BY <1>3, RemoveAtProperties DEF Inv, TypeOK
  <2>3. /\ IdsOf(pending') = IdsOf(pending) \ {id}
        /\ DistinctIds(pending')
    BY <1>3, RemoveAtIds DEF Inv, TypeOK, HomesApart
  <2>4. id \in IdsOf(pending)
    BY <1>3 DEF IdsOf
  <2>5. /\ rs \in Seq(Response) /\ Len(rs) = 1
        /\ DistinctIds(rs) /\ IdsOf(rs) = {id}
    BY <1>3, <2>1, AnswerProperties
  <2> HIDE DEF rs
  <2>6. Store(rs)
    BY <1>3 DEF rs
  <2>7. /\ terminal' \in Seq(Response)
        /\ Len(terminal') <= TerminalCapacity
        /\ DistinctIds(terminal')
        /\ IdsOf(terminal') \subseteq IdsOf(terminal) \cup {id}
        /\ id \in IdsOf(terminal')
    <3>1. IdsOf(terminal) \cap IdsOf(rs) = {} /\ DistinctIds(terminal)
          /\ terminal \in Seq(Response)
      BY <2>4, <2>5 DEF Inv, HomesApart, TypeOK
    <3>2. Len(rs) <= TerminalCapacity
      BY <2>5, CapacityAssumption
    <3> QED
      BY <2>5, <2>6, <3>1, <3>2, StoreFresh
  <2>8. TypeOK'
    BY <1>3, <2>2, <2>7 DEF Inv, TypeOK
  <2>9. HomesApart'
    BY <1>1, <2>3, <2>4, <2>7 DEF Inv, HomesApart
  <2>10. Bounded'
    BY <2>1, <2>2, <2>7, CapacityAssumption DEF Inv, Bounded, InFlight
  <2>11. KeepsAnswers
    BY <1>1, <2>3, <2>7 DEF KeepsAnswers
  <2>12. CancelTargetsActive'
    BY <1>1, <1>3 DEF Inv, CancelTargetsActive
  <2>13. EstopHolds'
    <3>1. \A j \in DOMAIN pending' : \E k \in DOMAIN pending : pending'[j] = pending[k]
      BY <2>1, <2>2, LenProperties
    <3> QED
      BY <1>3, <3>1 DEF Inv, EstopHolds
  <2>14. CloseHolds'
    BY <1>1, <1>3, <2>1 DEF Inv, CloseHolds
  <2> QED
    BY <2>8, <2>9, <2>10, <2>11, <2>12, <2>13, <2>14 DEF Inv
<1>4. CASE UNCHANGED <<pending, terminal, cancelled>>
  <2>1. TypeOK' /\ HomesApart' /\ Bounded' /\ KeepsAnswers
    BY <1>1, <1>4 DEF Inv, TypeOK, HomesApart, Bounded, InFlight, KeepsAnswers
  <2>2. CancelTargetsActive' /\ EstopHolds' /\ CloseHolds'
    BY <1>1, <1>4 DEF Inv, CancelTargetsActive, EstopHolds, CloseHolds
  <2> QED
    BY <2>1, <2>2 DEF Inv
<1> QED
  BY <1>2, <1>3, <1>4 DEF Withdraw

-----------------------------------------------------------------------------
(* The inductive step: every method of the queue, called by any thread in   *)
(* any state the invariant allows, re-establishes the invariant and leaves  *)
(* every request running or answered.                                       *)
LEMMA NextKeepsInv ==
  ASSUME Inv, [Next]_admissionVars
  PROVE  Inv' /\ [KeepsAnswers]_admissionVars
<1> USE DEF Inv
<1>0. /\ Len(pending) \in Nat
      /\ DOMAIN pending = 1 .. Len(pending)
      /\ \A i \in 1 .. Len(pending) : pending[i] \in Request
  BY LenProperties, ElementOfSeq DEF TypeOK
<1>1. ASSUME NEW r \in Request, Submit(r)
      PROVE  Inv' /\ KeepsAnswers
  <2>1. /\ pending' \in Seq(Request)
        /\ Len(pending') = Len(pending) + 1
        /\ \A i \in 1 .. Len(pending) : pending'[i] = pending[i]
        /\ pending'[Len(pending) + 1] = r
        /\ DOMAIN pending' = 1 .. Len(pending) + 1
    BY <1>1, AppendProperties, LenProperties DEF Submit, TypeOK
  <2>2. IdsOf(pending') = IdsOf(pending) \cup {r.id}
    <3>1. \A i \in 1 .. Len(pending) + 1 : pending'[i].id \in IdsOf(pending) \cup {r.id}
      BY <1>0, <2>1 DEF IdsOf
    <3>2. \A i \in 1 .. Len(pending) : pending[i].id \in IdsOf(pending')
      BY <1>0, <2>1 DEF IdsOf
    <3>3. r.id \in IdsOf(pending')
      BY <1>0, <2>1 DEF IdsOf
    <3> QED
      BY <1>0, <2>1, <3>1, <3>2, <3>3 DEF IdsOf
  <2>3. r.id \notin IdsOf(terminal) \cup reserved \cup ActiveIds \cup IdsOf(pending)
    BY <1>1 DEF Submit, Known
  <2>4. DistinctIds(pending')
    <3> SUFFICES ASSUME NEW i \in 1 .. Len(pending) + 1, NEW j \in 1 .. Len(pending) + 1,
                        pending'[i].id = pending'[j].id
                 PROVE  i = j
      BY <2>1 DEF DistinctIds
    <3>1. \A k \in 1 .. Len(pending) : pending'[k].id # r.id
      BY <1>0, <2>1, <2>3 DEF IdsOf
    <3>2. CASE i \in 1 .. Len(pending) /\ j \in 1 .. Len(pending)
      BY <1>0, <2>1, <3>2 DEF HomesApart, DistinctIds
    <3> QED
      BY <1>0, <2>1, <3>1, <3>2
  <2>5. ActiveIds' = ActiveIds /\ terminal' = terminal /\ active' = active
        /\ UNCHANGED <<reserved, cancelled, closed, estopped>>
    BY <1>1, Unchanged DEF Submit
  <2>6. TypeOK'
    BY <2>1, <2>5 DEF TypeOK
  <2>7. HomesApart'
    BY <2>2, <2>3, <2>4, <2>5 DEF HomesApart
  <2>8. Bounded'
    BY <1>0, <1>1, <2>1, <2>5, CapacityAssumption DEF Submit, Bounded, InFlight
  <2>9. CancelTargetsActive'
    BY <2>5 DEF CancelTargetsActive
  <2>10. EstopHolds'
    BY <1>0, <1>1, <2>1, <2>5 DEF Submit, EstopHolds
  <2>11. CloseHolds'
    BY <1>1, <2>5 DEF Submit, CloseHolds
  <2>12. KeepsAnswers
    BY <2>2, <2>5 DEF KeepsAnswers
  <2> QED
    BY <2>6, <2>7, <2>8, <2>9, <2>10, <2>11, <2>12
<1>2. ASSUME NEW id \in RequestIds, ReserveImmediate(id)
      PROVE  Inv' /\ KeepsAnswers
  <2>1. ActiveIds' = ActiveIds /\ UNCHANGED <<pending, active, terminal, cancelled, closed, estopped>>
    BY <1>2, Unchanged DEF ReserveImmediate
  <2>2. reserved' = reserved \cup {id}
        /\ id \notin IdsOf(terminal) \cup ActiveIds \cup IdsOf(pending)
    BY <1>2 DEF ReserveImmediate, Known
  <2>3. TypeOK' /\ HomesApart' /\ Bounded'
    BY <2>1, <2>2 DEF TypeOK, HomesApart, Bounded, InFlight
  <2>4. CancelTargetsActive' /\ EstopHolds' /\ CloseHolds' /\ KeepsAnswers
    BY <2>1 DEF CancelTargetsActive, EstopHolds, CloseHolds, KeepsAnswers
  <2> QED
    BY <2>3, <2>4
<1>3. ASSUME NEW id \in RequestIds, CompleteImmediate(id)
      PROVE  Inv' /\ KeepsAnswers
  <2> DEFINE e == [id |-> id, ticket |-> NoTicket, executed |-> TRUE]
             rs == <<e>>
  <2>1. ActiveIds' = ActiveIds /\ UNCHANGED <<pending, active, cancelled, closed, estopped>>
    BY <1>3, Unchanged DEF CompleteImmediate
  <2>2. id \in reserved /\ reserved' = reserved \ {id}
    BY <1>3 DEF CompleteImmediate
  <2>3. e \in Response /\ e.id = id
    BY DEF Response
  <2> HIDE DEF e
  <2>4. rs \in Seq(Response) /\ Len(rs) = 1 /\ IdsOf(rs) = {id} /\ DistinctIds(rs)
    BY <2>3 DEF IdsOf, DistinctIds
  <2>5. Store(rs)
    BY <1>3 DEF CompleteImmediate, e
  <2> HIDE DEF rs
  <2>6. IdsOf(terminal) \cap IdsOf(rs) = {}
    BY <2>2, <2>4 DEF HomesApart
  <2>7. /\ terminal' \in Seq(Response)
        /\ Len(terminal') <= TerminalCapacity
        /\ DistinctIds(terminal')
        /\ IdsOf(terminal') \subseteq IdsOf(terminal) \cup {id}
    BY <2>4, <2>5, <2>6, StoreFresh DEF TypeOK, HomesApart
  <2>8. TypeOK'
    BY <2>1, <2>2, <2>7 DEF TypeOK
  <2>9. HomesApart'
    BY <2>1, <2>2, <2>7 DEF HomesApart
  <2>10. Bounded'
    BY <2>1, <2>7 DEF Bounded, InFlight
  <2>11. CancelTargetsActive' /\ EstopHolds' /\ CloseHolds' /\ KeepsAnswers
    BY <2>1 DEF CancelTargetsActive, EstopHolds, CloseHolds, KeepsAnswers
  <2> QED
    BY <2>8, <2>9, <2>10, <2>11
<1>4. ASSUME NEW id \in RequestIds, ExpireWait(id)
      PROVE  Inv' /\ KeepsAnswers
  BY <1>4, WithdrawKeepsInv DEF ExpireWait
<1>5. ASSUME NEW id \in RequestIds, Cancel(id)
      PROVE  Inv' /\ KeepsAnswers
  BY <1>5, WithdrawKeepsInv DEF Cancel
<1>6. ASSUME CancelCurrent
      PROVE  Inv' /\ KeepsAnswers
  <2>1. ActiveIds' = ActiveIds /\ cancelled' = cancelled \cup ActiveIds
        /\ UNCHANGED <<pending, active, terminal, reserved, closed, estopped>>
    BY <1>6, Unchanged DEF CancelCurrent
  <2>2. ActiveIds \subseteq RequestIds
    BY DEF TypeOK, ActiveIds, Request
  <2>3. TypeOK' /\ HomesApart' /\ Bounded' /\ KeepsAnswers
    BY <2>1, <2>2 DEF TypeOK, HomesApart, Bounded, InFlight, KeepsAnswers
  <2>4. CancelTargetsActive' /\ EstopHolds' /\ CloseHolds'
    BY <2>1 DEF CancelTargetsActive, EstopHolds, CloseHolds
  <2> QED
    BY <2>3, <2>4
<1>7. ASSUME Estop
      PROVE  Inv' /\ KeepsAnswers
  <2>1. /\ HomesApart' /\ Bounded' /\ KeepsAnswers
        /\ pending' = <<>> /\ pending' \in Seq(Request) /\ terminal' \in Seq(Response)
        /\ ActiveIds' = ActiveIds
    BY <1>7, DrainKeepsHomes DEF Estop
  <2>2. ActiveIds \subseteq RequestIds /\ (active # NoRequest => active.id \in ActiveIds)
    BY DEF TypeOK, ActiveIds, Request
  <2>3. TypeOK'
    BY <1>7, <2>1, <2>2 DEF TypeOK, Estop
  <2>4. CancelTargetsActive' /\ CloseHolds'
    BY <1>7, <2>1 DEF Estop, CancelTargetsActive, CloseHolds
  <2>5. EstopHolds'
    BY <1>7, <2>1, <2>2 DEF Estop, EstopHolds
  <2> QED
    BY <2>1, <2>3, <2>4, <2>5
<1>8. ASSUME Claim
      PROVE  Inv' /\ KeepsAnswers
  <2>1. /\ active = NoRequest /\ pending # <<>> /\ ActiveIds = {}
        /\ active' = Head(pending) /\ pending' = Tail(pending)
        /\ UNCHANGED <<terminal, reserved, cancelled, closed, estopped>>
    BY <1>8 DEF Claim, ActiveIds
  <2>2. /\ Len(pending) >= 1
        /\ pending' \in Seq(Request)
        /\ Len(pending') = Len(pending) - 1
        /\ \A i \in 1 .. Len(pending) - 1 : pending'[i] = pending[i + 1]
        /\ DOMAIN pending' = 1 .. Len(pending) - 1
        /\ active' = pending[1]
    BY <1>0, <2>1, HeadTailProperties, LenProperties, EmptySeq DEF TypeOK
  <2>3. active' \in Request /\ active' # NoRequest /\ ActiveIds' = {pending[1].id}
    BY <1>0, <2>2, RequestAssumption DEF ActiveIds, Request
  <2>4. IdsOf(pending) = {pending[1].id} \cup IdsOf(pending')
    <3>1. \A i \in 1 .. Len(pending) : i = 1 \/ pending[i].id \in IdsOf(pending')
      <4> TAKE i \in 1 .. Len(pending)
      <4>1. CASE i > 1
        <5>1. i - 1 \in DOMAIN pending' /\ pending'[i - 1] = pending[i]
          BY <1>0, <2>2, <4>1
        <5> QED
          BY <5>1 DEF IdsOf
      <4> QED
        BY <1>0, <4>1
    <3>2. \A i \in 1 .. Len(pending) - 1 : pending'[i].id \in IdsOf(pending)
      <4> TAKE i \in 1 .. Len(pending) - 1
      <4>1. i + 1 \in DOMAIN pending /\ pending'[i] = pending[i + 1]
        BY <1>0, <2>2
      <4> QED
        BY <4>1 DEF IdsOf
    <3>3. pending[1].id \in IdsOf(pending)
      BY <1>0, <2>2 DEF IdsOf
    <3> QED
      BY <1>0, <2>2, <3>1, <3>2, <3>3 DEF IdsOf
  <2>5. pending[1].id \notin IdsOf(pending')
    <3>1. \A i \in 1 .. Len(pending) - 1 : pending'[i].id # pending[1].id
      <4> TAKE i \in 1 .. Len(pending) - 1
      <4>1. /\ i + 1 \in DOMAIN pending /\ 1 \in DOMAIN pending
            /\ i + 1 # 1 /\ pending'[i] = pending[i + 1]
        BY <1>0, <2>2
      <4> QED
        BY <4>1 DEF HomesApart, DistinctIds
    <3> QED
      BY <2>2, <3>1 DEF IdsOf
  <2>6. DistinctIds(pending')
    <3> SUFFICES ASSUME NEW i \in 1 .. Len(pending) - 1, NEW j \in 1 .. Len(pending) - 1,
                        pending'[i].id = pending'[j].id
                 PROVE  i = j
      BY <2>2 DEF DistinctIds
    <3>1. i + 1 \in DOMAIN pending /\ j + 1 \in DOMAIN pending
          /\ pending[i + 1].id = pending[j + 1].id
      BY <1>0, <2>2
    <3>2. i + 1 = j + 1
      BY <3>1 DEF HomesApart, DistinctIds
    <3> QED
      BY <1>0, <3>2
  <2>7. TypeOK'
    BY <2>1, <2>2, <2>3 DEF TypeOK
  <2>8. HomesApart'
    BY <2>1, <2>3, <2>4, <2>5, <2>6 DEF HomesApart
  <2>9. Bounded'
    BY <1>0, <2>1, <2>2, <2>3, CapacityAssumption DEF Bounded, InFlight
  <2>10. cancelled = {} /\ CancelTargetsActive'
    BY <2>1 DEF CancelTargetsActive
  <2>11. EstopHolds'
    BY <1>0, <2>1, <2>2, <2>3 DEF EstopHolds
  <2>12. CloseHolds'
    BY <2>1 DEF CloseHolds
  <2>13. KeepsAnswers
    BY <2>1, <2>3, <2>4 DEF KeepsAnswers
  <2> QED
    BY <2>7, <2>8, <2>9, <2>10, <2>11, <2>12, <2>13
<1>9. ASSUME Complete
      PROVE  Inv' /\ KeepsAnswers
  <2> DEFINE rs == <<Answer(active, TRUE)>>
  <2>1. /\ active # NoRequest /\ active \in Request /\ active' = NoRequest
        /\ ActiveIds = {active.id} /\ ActiveIds' = {}
        /\ cancelled' = cancelled \ {active.id}
        /\ UNCHANGED <<pending, reserved, closed, estopped>>
    BY <1>9 DEF Complete, ActiveIds, TypeOK
  <2>2. rs \in Seq(Response) /\ Len(rs) = 1 /\ DistinctIds(rs) /\ IdsOf(rs) = {active.id}
    BY <2>1, AnswerProperties
  <2> HIDE DEF rs
  <2>3. Store(rs)
    BY <1>9 DEF Complete, rs
  <2>4. /\ terminal' \in Seq(Response)
        /\ Len(terminal') <= TerminalCapacity
        /\ DistinctIds(terminal')
        /\ IdsOf(terminal') \subseteq IdsOf(terminal) \cup {active.id}
        /\ active.id \in IdsOf(terminal')
    <3>1. IdsOf(terminal) \cap IdsOf(rs) = {} /\ DistinctIds(terminal)
          /\ terminal \in Seq(Response)
      BY <2>1, <2>2 DEF HomesApart, TypeOK
    <3>2. Len(rs) <= TerminalCapacity
      BY <2>2, CapacityAssumption
    <3> QED
      BY <2>2, <2>3, <3>1, <3>2, StoreFresh
  <2>5. TypeOK'
    BY <2>1, <2>4 DEF TypeOK
  <2>6. HomesApart'
    BY <2>1, <2>4 DEF HomesApart
  <2>7. Bounded'
    BY <1>0, <2>1, <2>4, CapacityAssumption DEF Bounded, InFlight
  <2>8. CancelTargetsActive' /\ EstopHolds' /\ CloseHolds'
    BY <2>1 DEF CancelTargetsActive, EstopHolds, CloseHolds
  <2>9. KeepsAnswers
    BY <2>1, <2>4 DEF KeepsAnswers
  <2> QED
    BY <2>5, <2>6, <2>7, <2>8, <2>9
<1>10. ASSUME CancelPending
       PROVE  Inv' /\ KeepsAnswers
  <2>1. /\ HomesApart' /\ Bounded' /\ KeepsAnswers
        /\ pending' = <<>> /\ pending' \in Seq(Request) /\ terminal' \in Seq(Response)
        /\ ActiveIds' = ActiveIds
    BY <1>10, DrainKeepsHomes DEF CancelPending
  <2>2. TypeOK'
    BY <1>10, <2>1 DEF TypeOK, CancelPending
  <2>3. CancelTargetsActive' /\ EstopHolds' /\ CloseHolds'
    BY <1>10, <2>1 DEF CancelPending, CancelTargetsActive, EstopHolds, CloseHolds
  <2> QED
    BY <2>1, <2>2, <2>3
<1>11. ASSUME ClearEstop
       PROVE  Inv' /\ KeepsAnswers
  <2>1. ActiveIds' = ActiveIds /\ estopped' = FALSE
        /\ UNCHANGED <<pending, active, terminal, reserved, cancelled, closed>>
    BY <1>11, Unchanged DEF ClearEstop
  <2>2. TypeOK' /\ HomesApart' /\ Bounded' /\ KeepsAnswers
    BY <2>1 DEF TypeOK, HomesApart, Bounded, InFlight, KeepsAnswers
  <2>3. CancelTargetsActive' /\ EstopHolds' /\ CloseHolds'
    BY <2>1 DEF CancelTargetsActive, EstopHolds, CloseHolds
  <2> QED
    BY <2>2, <2>3
<1>12. ASSUME Close
       PROVE  Inv' /\ KeepsAnswers
  <2>1. /\ HomesApart' /\ Bounded' /\ KeepsAnswers
        /\ pending' = <<>> /\ pending' \in Seq(Request) /\ terminal' \in Seq(Response)
        /\ ActiveIds' = ActiveIds
    BY <1>12, DrainKeepsHomes DEF Close
  <2>2. ActiveIds \subseteq RequestIds
    BY DEF TypeOK, ActiveIds, Request
  <2>3. TypeOK'
    BY <1>12, <2>1, <2>2 DEF TypeOK, Close
  <2>4. CancelTargetsActive' /\ EstopHolds' /\ CloseHolds'
    BY <1>12, <2>1 DEF Close, CancelTargetsActive, EstopHolds, CloseHolds
  <2> QED
    BY <2>1, <2>3, <2>4
<1>13. CASE UNCHANGED admissionVars
  <2>1. ActiveIds' = ActiveIds
    BY <1>13, Unchanged DEF admissionVars
  <2>2. TypeOK' /\ HomesApart' /\ Bounded'
    BY <1>13, <2>1 DEF admissionVars, TypeOK, HomesApart, Bounded, InFlight
  <2>3. CancelTargetsActive' /\ EstopHolds' /\ CloseHolds'
    BY <1>13, <2>1 DEF admissionVars, CancelTargetsActive, EstopHolds, CloseHolds
  <2> QED
    BY <1>13, <2>2, <2>3
<1> HIDE DEF Inv
<1> QED
  BY <1>1, <1>2, <1>3, <1>4, <1>5, <1>6, <1>7, <1>8, <1>9, <1>10, <1>11, <1>12, <1>13
  DEF Next

LEMMA InitHasInv == Init => Inv
<1> SUFFICES ASSUME Init PROVE Inv
  OBVIOUS
<1>1. IdsOf(<<>>) = {} /\ DistinctIds(<<>>) /\ Len(<<>>) = 0
  BY EmptyQueue
<1>2. ActiveIds = {}
  BY DEF Init, ActiveIds
<1>3. TypeOK
  <2>1. <<>> \in Seq(Request) /\ <<>> \in Seq(Response)
    BY EmptySeq
  <2> QED
    BY <2>1 DEF Init, TypeOK
<1>4. HomesApart /\ Bounded /\ CancelTargetsActive
  BY <1>1, <1>2, CapacityAssumption DEF Init, HomesApart, Bounded, InFlight, CancelTargetsActive
<1>5. EstopHolds /\ CloseHolds
  BY DEF Init, EstopHolds, CloseHolds
<1> QED
  BY <1>3, <1>4, <1>5 DEF Inv

-----------------------------------------------------------------------------
(* The queue keeps its invariant, whoever calls it and whenever.            *)
THEOREM AdmissionInvariant == Spec => []Inv
<1>1. Inv /\ [Next]_admissionVars => Inv'
  BY NextKeepsInv
<1> QED
  BY <1>1, InitHasInv, PTL DEF Spec

(* An id has one home among pending, active, reserved and terminal, and a   *)
(* cancel flag never outlives the request it was set for: completion, a     *)
(* late deadline and a second cancel leave none behind.                     *)
THEOREM AdmissionOneHome == Spec => []OneHome
<1>1. Inv => OneHome
  BY DEF Inv, OneHome
<1> QED
  BY <1>1, AdmissionInvariant, PTL

(* The queue never holds a state its methods could not handle, for any ids, *)
(* operations and capacities.                                               *)
THEOREM AdmissionTyped == Spec => []TypeOK
<1>1. Inv => TypeOK
  BY DEF Inv
<1> QED
  BY <1>1, AdmissionInvariant, PTL

(* Capacity bounds what is admitted and not yet answered, the active        *)
(* request included, and the history never grows beyond its own.            *)
THEOREM AdmissionBounded == Spec => []Bounded
<1>1. Inv => Bounded
  BY DEF Inv
<1> QED
  BY <1>1, AdmissionInvariant, PTL

(* Once close returned nothing waits, and what runs was told to stop.       *)
THEOREM AdmissionClose == Spec => []CloseHolds
<1>1. Inv => CloseHolds
  BY DEF Inv
<1> QED
  BY <1>1, AdmissionInvariant, PTL

(* Under the latch no guarded request waits, and a running one was told to  *)
(* stop.                                                                    *)
THEOREM AdmissionEstop == Spec => []EstopHolds
<1>1. Inv => EstopHolds
  BY DEF Inv
<1> QED
  BY <1>1, AdmissionInvariant, PTL

(* No step takes a request out of the queue without running it or retaining *)
(* its answer.                                                              *)
THEOREM AdmissionNoAnswerLost == Spec => NoAnswerLost
<1>1. Inv /\ [Next]_admissionVars => [KeepsAnswers]_admissionVars
  BY NextKeepsInv
<1> QED
  BY <1>1, AdmissionInvariant, PTL DEF Spec, NoAnswerLost

=============================================================================
