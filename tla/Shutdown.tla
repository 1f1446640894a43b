------------------------------ MODULE Shutdown ------------------------------
(***************************************************************************)
(* The "shutdown" action of Connection::OnMessageSync                     *)
(* (src/opentrade/connection.cc): an admin stops the server and the algo  *)
(* engine, then counts `seconds' down by `interval', cancelling all open  *)
(* orders once per tick, and kills the process when the count reaches 0.  *)
(*                                                                         *)
(* `seconds' is an int and `interval' a double: `seconds -= interval'     *)
(* converts the double difference back to int, truncating toward zero.    *)
(* The JSON numbers are modelled in halves (h stands for h/2), enough to  *)
(* have both integral and fractional inputs.                              *)
(***************************************************************************)
EXTENDS Integers

CONSTANTS
  GraceIn,   \* j[1] in halves, or None when the array is shorter
  TickIn,    \* j[2] in halves, or None
  None,
  MaxTicks   \* bound on loop iterations explored

ASSUME MaxTicks \in Nat

VARIABLES
  pc,        \* "idle", "loop" (in the while), "killed", "ignored"
  seconds,   \* int seconds
  interval,  \* double interval, in halves
  stopped,   \* Server::Stop and AlgoManager::Stop called
  cancels    \* GlobalOrderBook::Cancel calls made

vars == <<pc, seconds, interval, stopped, cancels>>

(* static_cast of a double given in halves to int: toward zero.           *)
TruncHalves(h) == IF h >= 0 THEN h \div 2 ELSE -((-h) \div 2)

(* The admin test and the argument parsing, then the stops.               *)
Request(admin, g, t) ==
  /\ pc = "idle"
  /\ IF ~admin
     THEN /\ pc' = "ignored"
          /\ UNCHANGED <<seconds, interval, stopped, cancels>>
     ELSE LET s == IF g # None /\ g > 2 * 3 THEN TruncHalves(g) ELSE 3
              i == IF t # None /\ t > 2 * 1 /\ t < 2 * s THEN t ELSE 2
          IN /\ seconds' = s
             /\ interval' = i
             /\ stopped' = TRUE
             /\ pc' = "loop"
             /\ UNCHANGED cancels

(* One pass of `while (seconds)': subtract, sleep, cancel.                *)
Countdown ==
  /\ pc = "loop" /\ seconds # 0
  /\ cancels < MaxTicks
  /\ seconds' = TruncHalves(2 * seconds - interval)
  /\ cancels' = cancels + 1
  /\ UNCHANGED <<pc, interval, stopped>>

(* The loop ends at 0: sleep a second, then `kill -9' the process.        *)
Kill ==
  /\ pc = "loop" /\ seconds = 0
  /\ pc' = "killed"
  /\ UNCHANGED <<seconds, interval, stopped, cancels>>

Init == pc = "idle" /\ seconds = 0 /\ interval = 2 /\ stopped = FALSE
        /\ cancels = 0

Next ==
  \/ \E admin \in BOOLEAN, g \in GraceIn, t \in TickIn : Request(admin, g, t)
  \/ Countdown
  \/ Kill

Spec == Init /\ [][Next]_vars /\ WF_vars(Countdown \/ Kill)

-----------------------------------------------------------------------------
TypeOK ==
  /\ pc \in {"idle", "loop", "killed", "ignored"}
  /\ seconds \in Int /\ interval \in Nat \ {0, 1}
  /\ stopped \in BOOLEAN /\ cancels \in Nat

(* Spec 4.F: the countdown ends and the process is killed.  The loop only *)
(* exits at exactly 0 and interval >= 1, so once `seconds' has stepped    *)
(* past 0 it only decreases: the server is stopped, orders are cancelled  *)
(* every tick, and the process is never killed.                           *)
NeverPastZero == pc = "loop" => seconds >= 0

=============================================================================
