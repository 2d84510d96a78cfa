----------------------------- MODULE Placement -----------------------------
(***************************************************************************)
(* The allocation simulator of experiment/os/exp4 (memory.c): a list of    *)
(* blocks, each with its process or free, and four ways to choose one.     *)
(***************************************************************************)
EXTENDS Integers, FiniteSets, SequencesExt

Nobody == -1

Part(addr, size, proc) == [addr |-> addr, size |-> size, proc |-> proc]

\* main reads a table of free blocks, and starts with as many of its entries
\* as there are requests.  What it takes beyond the table is not known.
Unknown == Part(Nobody, Nobody, Nobody)
StartList(table, requests) ==
    [i \in 1 .. requests |-> IF i \in DOMAIN table THEN table[i] ELSE Unknown]

-----------------------------------------------------------------------------
(* The list. *)

\* memman_alloc, of a block with at least size: its beginning is taken.
Occupied(list, i, pid, size) ==
    LET b == list[i]
    IN  IF b.size = size THEN [list EXCEPT ![i].proc = pid]
        ELSE InsertAt([list EXCEPT ![i] = Part(b.addr + size, b.size - size, b.proc)],
                      i, Part(b.addr, size, pid))

\* One block joined to the one behind it.
Joined(list, i) == RemoveAt([list EXCEPT ![i].size = @ + list[i + 1].size], i + 1)

IsVacant(list, i) == i \in DOMAIN list /\ list[i].proc = Nobody

\* memman_free: the first block of the process, joined with its neighbours.
Vacated(list, pid) ==
    LET own == {i \in DOMAIN list : list[i].proc = pid}
        i == Min(own)
        freed == [list EXCEPT ![i].proc = Nobody]
        before == IsVacant(list, i - 1)
        at == IF before THEN i - 1 ELSE i
        left == IF before THEN Joined(freed, at) ELSE freed
    IN  IF own = {} THEN list
        ELSE IF IsVacant(left, at + 1) THEN Joined(left, at) ELSE left

-----------------------------------------------------------------------------
(* The choices.  A simulator has its list, and next_fit the place of its   *)
(* last block, counted from 0.  ended is how next_fit may come to its end: *)
(* it searches for ever, or looks at a block behind the list.              *)

Simulator(list) == [list |-> list, next |-> -1, ended |-> "no"]

Roomy(list, size) == {i \in DOMAIN list : IsVacant(list, i) /\ list[i].size >= size}

\* The first block of S that no other of them is better than.
Placed(s, pid, size, S) ==
    IF S = {} THEN s ELSE [s EXCEPT !.list = Occupied(@, Min(S), pid, size)]

FirstFit(s, pid, size) == Placed(s, pid, size, Roomy(s.list, size))

BestFit(s, pid, size) ==
    LET roomy == Roomy(s.list, size)
    IN  Placed(s, pid, size, {i \in roomy : \A j \in roomy : s.list[i].size <= s.list[j].size})

WorstFit(s, pid, size) ==
    LET roomy == Roomy(s.list, size)
    IN  Placed(s, pid, size, {i \in roomy : \A j \in roomy : s.list[i].size >= s.list[j].size})

\* The search ends where the last block was; at first that is nowhere.
NextFit(s, pid, size) ==
    LET n == Len(s.list)
        \* the k-th place it looks at, counted from 0
        place(k) == (s.next + k) % n
        hits == {k \in 1 .. n : place(k) # s.next /\ place(k) + 1 \in Roomy(s.list, size)}
        found == place(Min(hits))
    IN  IF s.next + 1 >= n THEN [s EXCEPT !.ended = "behind the list"]
        ELSE IF hits # {} THEN [Placed(s, pid, size, {found + 1}) EXCEPT !.next = found]
        ELSE IF s.next = -1 THEN [s EXCEPT !.ended = "searches for ever"]
        ELSE s

\* One request, given what the choice makes of it: op = 1 allocates, anything
\* else releases.
Requested(s, fitted, request) ==
    IF s.ended # "no" THEN s
    ELSE IF request.op = 1 THEN fitted
    ELSE [s EXCEPT !.list = Vacated(@, request.pid)]
=============================================================================
