---------------------------- MODULE MCPlacement ----------------------------
(***************************************************************************)
(* Placement with a table of three neighbouring blocks and up to six       *)
(* requests of two processes: every split, every way of joining, and     *)
(* requests that no block has room for.                                    *)
(***************************************************************************)
EXTENDS Placement

FreeTable == <<Part(0, 2, Nobody), Part(2, 1, Nobody), Part(3, 3, Nobody)>>
Cells == 0 .. 5

Allocations == {[pid |-> p, op |-> 1, size |-> n] : p \in 1 .. 2, n \in 1 .. 4}
Releases == {[pid |-> p, op |-> 2, size |-> 0] : p \in 1 .. 2}

\* All simulators after at most five requests, with the choice they go by.
Fitted(s, Fit(_, _, _), r) == Requested(s, Fit(s, r.pid, r.size), r)
Simulations(Fit(_, _, _)) ==
    FoldLeft(LAMBDA S, n : S \cup {Fitted(s, Fit, r) :
                                        s \in S, r \in Allocations \cup Releases},
             {Simulator(FreeTable)}, <<1, 2, 3, 4, 5>>)
FirstSims == Simulations(FirstFit)
BestSims == Simulations(BestFit)
WorstSims == Simulations(WorstFit)
NextSims == Simulations(NextFit)

CellsOf(b) == b.addr .. b.addr + b.size - 1
OwnerOf(list) == [c \in Cells |-> list[CHOOSE i \in DOMAIN list : c \in CellsOf(list[i])].proc]

\* The blocks lie behind one another and take up all of the memory.
TilesMemory(list) ==
    /\ list[1].addr = 0
    /\ \A i \in 1 .. Len(list) - 1 : list[i + 1].addr = list[i].addr + list[i].size
    /\ Last(list).addr + Last(list).size = 6
    /\ \A i \in DOMAIN list : list[i].size > 0

\* The places where two free blocks meet.
Seams(list) == {i \in 2 .. Len(list) : IsVacant(list, i - 1) /\ IsVacant(list, i)}

\* Nothing but the cells of one block of the process changes its owner.
Honoured(before, after, r) ==
    LET old == OwnerOf(before)
        new == OwnerOf(after)
        changed == {c \in Cells : old[c] # new[c]}
    IN  IF r.op = 1
        THEN /\ changed = {} \/ Cardinality(changed) = r.size
             /\ \A c \in changed : old[c] = Nobody /\ new[c] = r.pid
        ELSE /\ changed = {} <=> r.pid \notin {old[c] : c \in Cells}
             /\ \A c \in changed : old[c] = r.pid /\ new[c] = Nobody
             /\ Cardinality(Seams(after)) <= Cardinality(Seams(before))

FitIsSound(Fit(_, _, _), sims) ==
    \A s \in sims, r \in Allocations \cup Releases :
        LET after == Fitted(s, Fit, r)
        IN  s.ended = "no" => TilesMemory(after.list) /\ Honoured(s.list, after.list, r)

\* The request is refused although a free block has room for it.
WronglyRefused(Fit(_, _, _), sims) ==
    \E s \in sims, r \in Allocations :
        /\ Roomy(s.list, r.size) # {}
        /\ Fitted(s, Fit, r) = s /\ s.ended = "no"

\* Each choice hands out free memory only, takes back what the process had,
\* and keeps the list in order.
ASSUME FitsAreSound ==
    /\ FitIsSound(FirstFit, FirstSims) /\ FitIsSound(BestFit, BestSims)
    /\ FitIsSound(WorstFit, WorstSims) /\ FitIsSound(NextFit, NextSims)

ASSUME FitsFindRoom ==
    /\ ~WronglyRefused(FirstFit, FirstSims) /\ ~WronglyRefused(BestFit, BestSims)
    /\ ~WronglyRefused(WorstFit, WorstSims)

\* next_fit does not look at the block it used last, may search for ever, and
\* may look behind the list.
ASSUME NextFitMisses ==
    /\ WronglyRefused(NextFit, NextSims)
    /\ {s.ended : s \in NextSims} = {"no", "searches for ever", "behind the list"}

\* Fewer requests than entries of the table lose memory; more than entries
\* add blocks of no meaning.
ASSUME TableIsCounted ==
    \A n \in 1 .. 4 : TilesMemory(StartList(FreeTable, n)) <=> n = Len(FreeTable)
=============================================================================
