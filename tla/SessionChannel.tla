--------------------------- MODULE SessionChannel ---------------------------
(***************************************************************************)
(* What a session's strand promises (spec 3 invariants 3 and 5, spec 5):  *)
(* the tasks posted to it run one at a time in posting order, each one    *)
(* eventually, and once the session is closed nothing more is written to  *)
(* the transport.  A task is opaque here; running it may post more tasks  *)
(* behind the queue and may write to the transport.                      *)
(***************************************************************************)
EXTENDS Naturals, Sequences

CONSTANTS
  Tasks,      \* what may be posted
  MaxPosted   \* most tasks one step posts

VARIABLES
  queue,   \* tasks posted and not yet run, oldest first
  closed,  \* the session is closed
  wrote    \* the last step wrote to the transport

vars == <<queue, closed, wrote>>

Batches == {<<>>} \cup UNION {[1..k -> Tasks] : k \in 1..MaxPosted}

Init == queue = <<>> /\ closed = FALSE /\ wrote = FALSE

(* Some actor appends tasks behind the queue; nothing is written.         *)
Post == /\ \E b \in Batches \ {<<>>} : queue' = queue \o b
        /\ wrote' = FALSE /\ UNCHANGED closed

(* The oldest task runs: it leaves the queue, may post tasks behind the   *)
(* others, and writes only while the session is open.                     *)
Run == /\ queue # <<>>
       /\ \E b \in Batches : queue' = Tail(queue) \o b
       /\ wrote' \in IF closed THEN {FALSE} ELSE BOOLEAN
       /\ UNCHANGED closed

Close == ~closed /\ closed' = TRUE /\ wrote' = FALSE /\ UNCHANGED queue

(* A step of some other actor that neither posts nor writes.              *)
Idle == wrote' = FALSE /\ UNCHANGED <<queue, closed>>

Next == Post \/ Run \/ Close \/ Idle

Spec == Init /\ [][Next]_vars /\ WF_vars(Run)

=============================================================================
