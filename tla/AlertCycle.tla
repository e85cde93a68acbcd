----------------------------- MODULE AlertCycle -----------------------------
(***************************************************************************)
(* What CPU health alerts promise, seen from outside: a level that is      *)
(* raised, escalated and cleared, and announcements.  A level never falls  *)
(* from critical to warning, only a raised level can recover, and every    *)
(* announcement goes with the move it announces, one at a time and in the  *)
(* order of time.  Windows, thresholds and cooldowns do not appear here;   *)
(* AlertEvaluator implements this specification.                           *)
(***************************************************************************)
EXTENDS Integers

CONSTANTS
    Time,           \* when an announcement may be made
    Never           \* no announcement of that kind yet

VARIABLES
    level,          \* none, warning or critical
    announced       \* announced[k]: time of the latest announcement of kind k

Kind  == {"warning", "critical", "recovery"}

\* The level after an event of kind k.
After(k) ==
    CASE k = "critical" -> "critical"
      [] k = "recovery" -> "none"
      [] OTHER -> IF level = "critical" THEN "critical" ELSE "warning"

Init == level = "none" /\ announced = [k \in Kind |-> Never]

\* The level moves without a word: notifications are silenced.
Quiet(k) ==
    /\ k = "recovery" => level # "none"
    /\ level' = After(k)
    /\ UNCHANGED announced

\* The level moves, or is confirmed, and this is announced, after everything
\* announced before.
Announce(k, t) ==
    /\ k = "recovery" => level # "none"
    /\ level' = After(k)
    /\ \A j \in Kind : announced[j] # Never => t > announced[j]
    /\ announced' = [announced EXCEPT ![k] = t]

\* Alerting is switched off.
Off == level' = "none" /\ UNCHANGED announced

Next ==
    \/ Off
    \/ \E k \in Kind : Quiet(k)
    \/ \E k \in Kind, t \in Time : Announce(k, t)

Spec == Init /\ [][Next]_<<level, announced>>
=============================================================================
