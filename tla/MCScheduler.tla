---------------------------- MODULE MCScheduler ----------------------------
(***************************************************************************)
(* Model checking Scheduler with three console slots, four levels (0 and 1 *)
(* for TaskA, 2 for the consoles, 3 for Idle) and room for three tasks on  *)
(* a level.  Console slots are not declared symmetric: the liveness        *)
(* property would not allow it.                                            *)
(***************************************************************************)
EXTENDS Scheduler

CONSTANTS c1, c2, c3

MCConsoles == {c1, c2, c3}
=============================================================================
