------------------------------ MODULE MCTimer ------------------------------
(***************************************************************************)
(* Model checking Timer with two consoles and two timers for them and      *)
(* their applications, over four interrupts: a slice of two interrupts     *)
(* ends twice while timers of no, one and two interrupts are armed around  *)
(* it and change hands.                                                    *)
(***************************************************************************)
EXTENDS Timer, TLC

CONSTANTS t1, t2, f1, f2

MCOthers == {t1, t2}
MCConsoles == {f1, f2}

\* Timers and consoles are interchangeable: timer_alloc takes any free one.
MCSymmetry == Permutations(MCOthers) \cup Permutations(MCConsoles)
=============================================================================
