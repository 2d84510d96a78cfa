------------------------------ MODULE Priority ------------------------------
(***************************************************************************)
(* The scheduling simulator of experiment/os/exp3 (priority.c).            *)
(*                                                                         *)
(* The order of the list matters only where the first READY process is     *)
(* taken, behind a running one: qsort puts the READY ones by priority, and *)
(* those of the same priority in any order.                                *)
(***************************************************************************)
EXTENDS Integers, FiniteSets

\* A process that starts.  startblock counts the slices until it blocks,
\* blocktime those that it is blocked.
Process(priority, needtime, startblock, blocktime) ==
    [priority |-> priority, cputime |-> 0, needtime |-> needtime,
     startblock |-> startblock, blocktime |-> blocktime, state |-> "READY"]

InState(at, state) == {p \in DOMAIN at : at[p].state = state}

\* The processes that may be set running: of those READY with the highest
\* priority, one.
Candidates(at) ==
    {p \in InState(at, "READY") :
        \A q \in InState(at, "READY") : at[q].priority <= at[p].priority}

\* The processes after the sort and the choice.  One that runs goes on.
Dispatched(at) ==
    IF InState(at, "RUNNING") # {} \/ Candidates(at) = {} THEN {at}
    ELSE {[at EXCEPT ![p].state = "RUNNING"] : p \in Candidates(at)}

\* A slice of each kind of process.
Waits(p) == [p EXCEPT !.priority = @ + 1]

\* A process that ends its last slice and comes to its blocking in the same
\* one is blocked, not finished.
Works(p) ==
    LET need == IF p.needtime > 0 THEN p.needtime - 1 ELSE p.needtime
        start == IF p.startblock >= 0 THEN p.startblock - 1 ELSE p.startblock
    IN  [p EXCEPT
            !.needtime = need,
            !.cputime = IF p.needtime > 0 THEN @ + 1 ELSE @,
            !.priority = @ - 3,
            !.startblock = start,
            !.state = IF start = 0 THEN "BLOCK" ELSE IF need = 0 THEN "FINISH" ELSE @]

Blocks(p) ==
    LET left == IF p.blocktime > 0 THEN p.blocktime - 1 ELSE p.blocktime
    IN  [p EXCEPT !.blocktime = left, !.state = IF left = 0 THEN "READY" ELSE @]

Sliced(p) ==
    CASE p.state = "READY" -> Waits(p)
      [] p.state = "RUNNING" -> Works(p)
      [] p.state = "BLOCK" -> Blocks(p)
      [] p.state = "FINISH" -> p

\* The tasklist: a process counts as finished in the slice after its last.
NewList(at) == [at |-> at, finished |-> 0]

Ended(tl) == tl.finished >= Cardinality(DOMAIN tl.at)

\* One round of run_tasklist.
Rounds(tl) ==
    {[at |-> [p \in DOMAIN at |-> Sliced(at[p])],
      finished |-> Cardinality(InState(at, "FINISH"))] : at \in Dispatched(tl.at)}
=============================================================================
