------------------------------- MODULE Paging -------------------------------
(***************************************************************************)
(* The page replacement simulators of experiment/os/exp5.  page.c and      *)
(* pager.c have the same FIFO and LRU; LFU, NUR and OPT are pager.c's.     *)
(* An algorithm is the step of its loop over the stream of pages.          *)
(***************************************************************************)
EXTENDS Integers, FiniteSets, SequencesExt

CONSTANTS
    VirtualPages,  \* MEMORY_SIZE and TOTAL_VP (32)
    PageLength,    \* the instructions of a page, PER_K_INSTS (10)
    ClearPeriod    \* clear_period (50)

ASSUME PagingAssumption == {VirtualPages, PageLength, ClearPeriod} \subseteq Nat \ {0}

Absent == -1
Forever == 32767
VirtualSpace == 0 .. VirtualPages - 1

-----------------------------------------------------------------------------
(* The stream of pages. *)

\* page.c makes its instructions four at a time: the one behind m, one up to
\* that, the one behind, and any at all.
Quadruples ==
    LET instructions == 0 .. VirtualPages * PageLength - 1
    IN  UNION {{<<m + 1, n, n + 1, r>> : n \in 0 .. m + 1, r \in instructions} :
               m \in instructions}

PageOf(address) == address \div PageLength

PagesOf(addresses) == [i \in DOMAIN addresses |-> PageOf(addresses[i])]

-----------------------------------------------------------------------------
(* The memory: the frame of each page, the frames that are free, and what  *)
(* the algorithms note down.  FIFO's busy list is that of the pages in it. *)

EmptyMemory(frames) ==
    [number |-> [p \in VirtualSpace |-> Absent], counter |-> [p \in VirtualSpace |-> 0],
     time |-> [p \in VirtualSpace |-> -1], free |-> [i \in 1 .. frames |-> i - 1],
     busy |-> <<>>, dp |-> 0, now |-> 0, diseffect |-> 0]

InMemory(m) == {p \in VirtualSpace : m.number[p] # Absent}

NeedsFrame(m, p) == p \notin InMemory(m) /\ m.free = <<>>

Evicted(m, victim) ==
    [m EXCEPT !.number[victim] = Absent, !.free = <<m.number[victim]>>]

\* A fault on p, with a free frame, or a hit.
Brought(m, p) ==
    IF p \in InMemory(m) THEN m
    ELSE [m EXCEPT !.number[p] = Head(m.free), !.free = Tail(m.free), !.diseffect = @ + 1]

\* The first page of S with the least value of f.
FirstLeast(S, f) ==
    Min({p \in S : \A q \in S : f[p] <= f[q]})

Cleared == [p \in VirtualSpace |-> 0]

-----------------------------------------------------------------------------
(* The algorithms. *)

\* With a single frame the program reads a null pointer; it starts with four.
FifoStep(m, p) ==
    LET room == IF NeedsFrame(m, p) THEN [Evicted(m, Head(m.busy)) EXCEPT !.busy = Tail(@)]
                ELSE m
    IN  [Brought(room, p) EXCEPT
            !.busy = IF p \in InMemory(m) THEN @ ELSE Append(@, p),
            !.now = @ + 1]

LruStep(m, p) ==
    LET victim == FirstLeast(InMemory(m), m.time)
        room == IF NeedsFrame(m, p) THEN [Evicted(m, victim) EXCEPT !.time[victim] = -1] ELSE m
    IN  [Brought(room, p) EXCEPT !.time[p] = m.now, !.now = @ + 1]

\* The counters start again with each replacement.
LfuStep(m, p) ==
    LET victim == FirstLeast(InMemory(m), m.counter)
        room == IF NeedsFrame(m, p) THEN [Evicted(m, victim) EXCEPT !.counter = Cleared] ELSE m
    IN  [Brought(room, p) EXCEPT !.counter[p] = @ + 1, !.now = @ + 1]

\* The hand dp goes round to a page that was not hit, and when it has found
\* none in a whole turn it takes none for hit.
NurVictim(m) ==
    LET unused == {p \in InMemory(m) : m.counter[p] = 0}
        ways == {k \in 0 .. VirtualPages - 1 :
                    (m.dp + k) % VirtualPages \in IF unused = {} THEN InMemory(m) ELSE unused}
    IN  (m.dp + Min(ways)) % VirtualPages

NurStep(m, p) ==
    LET victim == NurVictim(m)
        kept == IF \E q \in InMemory(m) : m.counter[q] = 0 THEN m.counter ELSE Cleared
        room == IF NeedsFrame(m, p)
                THEN [Evicted(m, victim) EXCEPT !.dp = victim, !.counter = kept] ELSE m
        noted == IF p \in InMemory(m) THEN [room EXCEPT !.counter[p] = 1] ELSE Brought(room, p)
    IN  [noted EXCEPT !.counter = IF m.now % ClearPeriod = 0 THEN Cleared ELSE @,
                      !.now = @ + 1]

\* dist: how far the last use of the page is, which is the one noted last.
Distance(m, stream, p) ==
    LET uses == {j \in m.now + 2 .. Len(stream) : stream[j] = p}
    IN  IF uses = {} THEN Forever ELSE Max(uses) - (m.now + 1)

OptStep(m, p, stream) ==
    LET nearness == [q \in InMemory(m) |-> -Distance(m, stream, q)]
        room == IF NeedsFrame(m, p) THEN Evicted(m, FirstLeast(InMemory(m), nearness)) ELSE m
    IN  [Brought(room, p) EXCEPT !.now = @ + 1]

-----------------------------------------------------------------------------
(* A run over a stream. *)

FIFO(frames, stream) == FoldLeft(FifoStep, EmptyMemory(frames), stream)
LRU(frames, stream) == FoldLeft(LruStep, EmptyMemory(frames), stream)
LFU(frames, stream) == FoldLeft(LfuStep, EmptyMemory(frames), stream)
NUR(frames, stream) == FoldLeft(NurStep, EmptyMemory(frames), stream)
OPT(frames, stream) ==
    FoldLeft(LAMBDA m, p : OptStep(m, p, stream), EmptyMemory(frames), stream)
=============================================================================
