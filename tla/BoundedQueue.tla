---------------------------- MODULE BoundedQueue ----------------------------
(***************************************************************************)
(* What a fifo32 of osask/src/sys/fifo.c promises the tasks and interrupt  *)
(* handlers that share it: a first-in first-out queue of at most Size      *)
(* data.  A datum offered to a full queue is dropped, the queue keeps what *)
(* it has, and the drop is remembered.                                     *)
(***************************************************************************)
EXTENDS Naturals, Sequences

CONSTANTS Data,   \* the data a producer may offer
          Size    \* how many of them the queue holds

VARIABLES items,    \* the data held, oldest first
          overrun   \* 1 once a datum has been dropped, 0 before

vars == <<items, overrun>>

Init == items = <<>> /\ overrun = 0

\* A datum is accepted at the tail.
Accept(d) == /\ Len(items) < Size
             /\ items' = Append(items, d)
             /\ UNCHANGED overrun

\* A datum finds the queue full and is dropped.
Drop == /\ Len(items) = Size
        /\ overrun' = 1
        /\ UNCHANGED items

\* The oldest datum leaves.
Deliver == /\ items # <<>>
           /\ items' = Tail(items)
           /\ UNCHANGED overrun

Next == \/ \E d \in Data : Accept(d)
        \/ Drop
        \/ Deliver

Spec == Init /\ [][Next]_vars
=============================================================================
