----------------------------- MODULE MCPriority -----------------------------
(***************************************************************************)
(* Priority run to its end with any two processes, and any three that do   *)
(* not block: priorities that waiting makes equal, and blocking before, in *)
(* and behind the last slice.                                              *)
(***************************************************************************)
EXTENDS Priority, SequencesExt

Blocking == {Process(pr, need, start, block) :
                pr \in {0, 2, 3}, need \in 1 .. 3, start \in {1, 2}, block \in {0, 2}}
Steady == {Process(pr, need, -1, 0) : pr \in {0, 2, 3}, need \in 1 .. 3}
Starts == [1 .. 2 -> Blocking \cup Steady] \cup [1 .. 3 -> Steady]

\* More rounds than the slices and the blocked slices of all processes.
MaxRounds == 20

\* The lists that are reached from the start in n rounds.
Level(lists) == UNION {Rounds(tl) : tl \in {l \in lists : ~Ended(l)}}
Levels(start) ==
    FoldLeft(LAMBDA levels, n : Append(levels, Level(Last(levels))),
             <<{NewList(start)}>>, [n \in 1 .. MaxRounds |-> n])
Reached(start) == UNION ToSet(Levels(start))

\* Every run ends.
ASSUME RunsEnd == \A start \in Starts : Last(Levels(start)) = {}

\* Each process gets the time it needs, and one at a time runs.
ASSUME TimeIsGiven ==
    \A start \in Starts : \A tl \in Reached(start) :
        /\ \A p \in DOMAIN start : tl.at[p].cputime + tl.at[p].needtime = start[p].needtime
        /\ Cardinality(InState(tl.at, "RUNNING")) <= 1
        /\ Ended(tl) => InState(tl.at, "FINISH") = DOMAIN start

\* The priorities that change decide nothing between processes that do not
\* block: one that has started goes on, and those that wait gain the same.
ASSUME PriorityIsFixed ==
    \A start \in [1 .. 3 -> Steady] : \A tl \in Reached(start) :
        \A p, q \in DOMAIN start :
            start[p].priority > start[q].priority /\ tl.at[q].cputime > 0
                => tl.at[p].state = "FINISH"

\* A process that should block at the end of its last slice is blocked and
\* then runs a slice in which it has nothing to do.
ASSUME FinishedMayBlock ==
    \A start \in [1 .. 2 -> Blocking] :
        (\E tl \in Reached(start) : \E p \in InState(tl.at, "BLOCK") : tl.at[p].needtime = 0)
            <=> \E p \in DOMAIN start : start[p].startblock = start[p].needtime
=============================================================================
