------------------------------ MODULE MCDesktop ------------------------------
(***************************************************************************)
(* Model checking Desktop on a screen of eight columns and two lines: the  *)
(* background, the console's window, the window of an application that may *)
(* be opened and closed, and a pointer with two transparent pixels.        *)
(* Windows lie at multiples of four and elsewhere, and partly off the      *)
(* screen.                                                                 *)
(***************************************************************************)
EXTENDS Desktop

CONSTANT AppIsWide   \* the application's window is wider than the screen

MCWidth == [s \in 0 .. 3 |-> CASE s = Back -> XSize
                               [] s = Console -> 5
                               [] s = Mouse -> 2
                               [] s = 3 -> IF AppIsWide THEN 12 ELSE 3]
MCHeight == [s \in 0 .. 3 |-> IF s = 3 /\ ~AppIsWide THEN 1 ELSE 2]
MCClear == [s \in 0 .. 3 |-> IF s = Mouse THEN {1, 2} ELSE {}]

\* A wide window is opened in the middle of the screen, and then moved.
MCPlaces ==
    [s \in 0 .. 3 |-> CASE s = Back -> {At(0, 0)}
                        [] s = Console -> {At(-4, -1), At(0, 0), At(2, 1)}
                        [] s = Mouse -> {At(1, 0), At(7, 1)}
                        [] s = 3 -> IF AppIsWide THEN {At(-2, 0), At(-4, 0)}
                                    ELSE {At(0, 0), At(6, 1)}]

\* The box of the console, and that of the wide window, contain no column whose
\* number is a multiple of four.
MCBoxes ==
    [s \in 0 .. 3 |-> CASE s = Console -> {Area(1, 1, 3, 2)}
                        [] s = 3 -> IF AppIsWide THEN {Area(5, 1, 7, 2)}
                                    ELSE {Area(0, 0, 3, 1)}
                        [] OTHER -> {}]
=============================================================================
