----------------------------- MODULE WindowOrder -----------------------------
(***************************************************************************)
(* What the user is promised about windows: they lie on one another in     *)
(* some order, a window that is opened or clicked comes to the front, and  *)
(* nothing but that changes the order.                                     *)
(***************************************************************************)
EXTENDS Sequences, SequencesExt

CONSTANTS Windows, First

VARIABLE order   \* from the back to the front

Init == order = <<First>>

\* The others, if w is there.
Without(w) == IF Contains(order, w)
              THEN RemoveAt(order, CHOOSE i \in DOMAIN order : order[i] = w)
              ELSE order

ToFront(w) == order' = Append(Without(w), w)

Open(w) == ~Contains(order, w) /\ ToFront(w)
Pick(w) == Contains(order, w) /\ ToFront(w)
Close(w) == Contains(order, w) /\ order' = Without(w)

Next == \E w \in Windows : Open(w) \/ Pick(w) \/ Close(w)

Spec == Init /\ [][Next]_order
=============================================================================
