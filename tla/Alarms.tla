------------------------------- MODULE Alarms -------------------------------
(***************************************************************************)
(* What osask/src/sys/timer.c promises: timers that are armed for a time,  *)
(* each of which rings at the first interrupt that is not before its time, *)
(* once, unless it is disarmed first.                                      *)
(***************************************************************************)
EXTENDS Integers, FiniteSets

CONSTANTS Timers,   \* the timers
          Never     \* later than every time

VARIABLES now,    \* the number of interrupts so far
          due,    \* of each armed timer, its time
          rang    \* the timers that rang at the last interrupt

vars == <<now, due, rang>>

Armed == DOMAIN due

Init == /\ now = 0 /\ rang = {}
        /\ Armed \subseteq Timers
        /\ \A t \in Armed : due[t] \in 0 .. Never - 1

Without(f, S) == [t \in DOMAIN f \ S |-> f[t]]
With(f, t, time) == [u \in DOMAIN f \cup {t} |-> IF u = t THEN time ELSE f[u]]

Arm(t) == /\ t \notin Armed
          /\ \E time \in 0 .. Never - 1 : due' = With(due, t, time)
          /\ UNCHANGED <<now, rang>>

Disarm(S) == /\ S \subseteq Armed
             /\ due' = Without(due, S)
             /\ UNCHANGED <<now, rang>>

\* One of the timers that ring may be armed again by the interrupt itself.
Interrupt == /\ now' = now + 1
             /\ rang' = {t \in Armed : due[t] <= now'}
             /\ \/ due' = Without(due, rang')
                \/ \E t \in rang', time \in now' + 1 .. Never - 1 :
                     due' = With(Without(due, rang'), t, time)

Next == \/ \E t \in Timers : Arm(t)
        \/ \E S \in SUBSET Timers : Disarm(S)
        \/ Interrupt

Spec == Init /\ [][Next]_vars
=============================================================================
