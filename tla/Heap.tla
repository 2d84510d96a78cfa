-------------------------------- MODULE Heap --------------------------------
(***************************************************************************)
(* What a memman_t of osask/src/sys/memory.c promises its users: a set of  *)
(* free addresses out of which runs are taken and into which they are put  *)
(* back.  A request is refused only if there is no run of free addresses   *)
(* of that length, and memory is lost only when the free addresses form    *)
(* MaxFrees separate runs already and the returned one touches none.       *)
(***************************************************************************)
EXTENDS Integers, FiniteSets

CONSTANTS Memory,     \* the addresses managed
          Lengths,    \* the lengths of the requests
          MaxFrees

VARIABLES avail,   \* the free addresses
          lost,    \* the addresses given up
          reply    \* what the last operation returned

vars == <<avail, lost, reply>>

Run(a, n) == a .. a + n - 1

\* The addresses that start a maximal run of free addresses.
Starts == {a \in avail : a - 1 \notin avail}

Touches(a, n) == a - 1 \in avail \/ a + n \in avail

Init == avail = Memory /\ lost = {} /\ reply = 0

Grant(a, n) == /\ Run(a, n) \subseteq avail
               /\ avail' = avail \ Run(a, n)
               /\ reply' = a
               /\ UNCHANGED lost

Refuse(n) == /\ \A a \in avail : ~(Run(a, n) \subseteq avail)
             /\ reply' = 0
             /\ UNCHANGED <<avail, lost>>

GiveBack(a, n) == /\ Run(a, n) \subseteq Memory \ (avail \cup lost)
                  /\ avail' = avail \cup Run(a, n)
                  /\ reply' = 0
                  /\ UNCHANGED lost

Lose(a, n) == /\ Run(a, n) \subseteq Memory \ (avail \cup lost)
              /\ Cardinality(Starts) = MaxFrees
              /\ ~Touches(a, n)
              /\ lost' = lost \cup Run(a, n)
              /\ reply' = -1
              /\ UNCHANGED avail

Next == \E n \in Lengths :
          \/ Refuse(n)
          \/ \E a \in Memory : Grant(a, n) \/ GiveBack(a, n) \/ Lose(a, n)

Spec == Init /\ [][Next]_vars
=============================================================================
