----------------------------- MODULE MCWakeRace -----------------------------
(***************************************************************************)
(* Model checking WakeRace with two data, a queue of two and room for four *)
(* entries on the console's level.  The comparisons of the other programs  *)
(* are evaluated first.                                                    *)
(***************************************************************************)
EXTENDS WakeRace, MCPrograms

MCData == {10, 11}
=============================================================================
