---------------------------- MODULE AtomicMutation ----------------------------
(***************************************************************************)
(* What the mutations of one Mirror runtime promise: an operation happens  *)
(* at once and as a whole, or not at all, or it breaks the object it was   *)
(* working on.  The intermediate writes, the compensations and the         *)
(* transaction are not here.                                               *)
(***************************************************************************)
CONSTANTS Robots, Parts, Attachments, Modes, Poses, Home, Owners, NoSnapshot

VARIABLES
  drive,      \* the mode the engine drives each robot in
  content,    \* the pose the engine holds for each part
  mode,       \* the control mode the runtime says it is in
  fatal,      \* owners broken by a failure that could not be compensated
  snapshot    \* the snapshot the client holds

vars == <<drive, content, mode, fatal, snapshot>>

(* A healthy runtime drives every robot in the mode it says it is in. *)
Agrees == drive = [r \in Robots |-> mode]

Switch ==
  /\ "runtime" \notin fatal
  /\ mode' \in Modes \ {mode}
  /\ drive' = [r \in Robots |-> mode']
  /\ UNCHANGED <<content, fatal, snapshot>>

Restore ==
  /\ "resources" \notin fatal
  /\ snapshot # NoSnapshot /\ snapshot.mode = mode
  /\ content' = snapshot.content
  /\ UNCHANGED <<drive, mode, fatal, snapshot>>

ResetScene ==
  /\ "resources" \notin fatal
  /\ content' = [p \in Parts |-> Home]
  /\ "runtime" \notin fatal => Agrees'
  /\ UNCHANGED <<mode, fatal, snapshot>>

Move ==
  /\ \E pose \in Poses :
       content' = [p \in Parts |-> IF p = Attachments THEN content[p] ELSE pose]
  /\ UNCHANGED <<drive, mode, fatal, snapshot>>

Attach ==
  /\ \E pose \in Poses : content' = [content EXCEPT ![Attachments] = pose]
  /\ UNCHANGED <<drive, mode, fatal, snapshot>>

Capture ==
  /\ snapshot' = [mode |-> mode, content |-> content]
  /\ UNCHANGED <<drive, content, mode, fatal>>

(* The engine is left in a state nobody knows. *)
Break ==
  /\ \E o \in Owners : fatal' = fatal \cup {o}
  /\ UNCHANGED <<mode, snapshot>>

Init ==
  /\ mode \in Modes
  /\ Agrees
  /\ content = [p \in Parts |-> Home]
  /\ fatal = {}
  /\ snapshot = NoSnapshot

Next == Switch \/ Restore \/ ResetScene \/ Move \/ Attach \/ Capture \/ Break

Spec == Init /\ [][Next]_vars
=============================================================================
