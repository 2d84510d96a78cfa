------------------------------- MODULE Memman -------------------------------
(***************************************************************************)
(* The memory manager of osask/src/sys/memory.c, as operators on the       *)
(* memman_t structure: a table of free blocks in ascending order of their  *)
(* addresses.  frees is the length of the table.                           *)
(*                                                                         *)
(* The kernel has one memman_t; every application may have one of its own  *)
(* in its data segment (API 8 to 10).                                      *)
(***************************************************************************)
EXTENDS Integers, Sequences, SequencesExt

CONSTANTS MaxFrees,   \* MEMMAN_FREES
          Page        \* 0x1000, the unit of memman_alloc_4k and memman_free_4k

ASSUME MemmanAssumption == MaxFrees \in Nat \ {0} /\ Page \in Nat \ {0}

\* A free block (freeinfo_t).
Block(addr, size) == [addr |-> addr, size |-> size]

\* memman_init
MemInit == [free |-> <<>>, maxfrees |-> 0, lostsize |-> 0, losts |-> 0]

\* memman_total: what the mem command reports.
MemTotal(man) ==
    LET t[i \in 0 .. Len(man.free)] == IF i = 0 THEN 0 ELSE t[i - 1] + man.free[i].size
    IN  t[Len(man.free)]

-----------------------------------------------------------------------------
(* Allocation. *)

NoSpace == 0   \* what memman_alloc returns when no block is large enough

\* The entries with at least size bytes.
Fits(man, size) == {i \in DOMAIN man.free : man.free[i].size >= size}

\* memman_alloc takes the beginning of the first of them.
AllocResult(man, size) ==
    IF Fits(man, size) = {} THEN NoSpace ELSE man.free[Min(Fits(man, size))].addr

\* Slip: an entry that is used up stays in the table.
AllocKeepsEntry(man, size) ==
    LET i == Min(Fits(man, size))
        b == man.free[i]
    IN  IF Fits(man, size) = {} THEN man
        ELSE [man EXCEPT !.free[i] = Block(b.addr + size, b.size - size)]

Alloc(man, size) ==
    LET i == Min(Fits(man, size))
        b == man.free[i]
    IN  IF Fits(man, size) = {} THEN man
        ELSE IF b.size = size THEN [man EXCEPT !.free = RemoveAt(@, i)]
        ELSE [man EXCEPT !.free[i] = Block(b.addr + size, b.size - size)]

-----------------------------------------------------------------------------
(* Release. *)

\* The entries behind addr; the block belongs in front of the first of them.
Above(man, addr) == {i \in DOMAIN man.free : man.free[i].addr > addr}

Position(man, addr) ==
    IF Above(man, addr) = {} THEN Len(man.free) + 1 ELSE Min(Above(man, addr))

\* The block ends where the entry i begins; the entry i ends where it begins.
EndsAt(man, addr, size, i) == i \in DOMAIN man.free /\ addr + size = man.free[i].addr
StartsAfter(man, addr, i) ==
    i \in DOMAIN man.free /\ man.free[i].addr + man.free[i].size = addr

\* Slip: the last entry of the table is never used.
IsLostEarly(man, addr, size) ==
    LET i == Position(man, addr)
    IN  /\ ~StartsAfter(man, addr, i - 1)
        /\ ~EndsAt(man, addr, size, i)
        /\ Len(man.free) >= MaxFrees - 1

\* The table is full and the block touches no entry: it is lost.
IsLost(man, addr, size) ==
    LET i == Position(man, addr)
    IN  /\ ~StartsAfter(man, addr, i - 1)
        /\ ~EndsAt(man, addr, size, i)
        /\ Len(man.free) >= MaxFrees

\* memman_free returns 0, or -1 when the block is lost.
FreeResult(man, addr, size) == IF IsLost(man, addr, size) THEN -1 ELSE 0

\* Slip: a block that fills the gap between two entries is joined to the first only.
ReleaseJoinsOne(man, addr, size) ==
    LET i == Position(man, addr)
        prev == man.free[i - 1]
        inserted == InsertAt(man.free, i, Block(addr, size))
    IN  IF StartsAfter(man, addr, i - 1)
        THEN [man EXCEPT !.free[i - 1] = Block(prev.addr, prev.size + size)]
        ELSE IF EndsAt(man, addr, size, i)
        THEN [man EXCEPT !.free[i] = Block(addr, size + man.free[i].size)]
        ELSE IF IsLost(man, addr, size)
        THEN [man EXCEPT !.losts = @ + 1, !.lostsize = @ + size]
        ELSE [man EXCEPT !.free = inserted,
                         !.maxfrees = IF @ < Len(inserted) THEN Len(inserted) ELSE @]

\* Slip: the size of what is lost is not added up.
ReleaseUncounted(man, addr, size) ==
    IF IsLost(man, addr, size) THEN [man EXCEPT !.losts = @ + 1]
    ELSE ReleaseJoinsOne(man, addr, size)

Release(man, addr, size) ==
    LET i == Position(man, addr)
        joinsPrev == StartsAfter(man, addr, i - 1)
        joinsNext == EndsAt(man, addr, size, i)
        prev == man.free[i - 1]
        next == man.free[i]
        inserted == InsertAt(man.free, i, Block(addr, size))
    IN  IF joinsPrev /\ joinsNext
        THEN [man EXCEPT !.free = RemoveAt([@ EXCEPT ![i - 1] =
                                     Block(prev.addr, prev.size + size + next.size)], i)]
        ELSE IF joinsPrev
        THEN [man EXCEPT !.free[i - 1] = Block(prev.addr, prev.size + size)]
        ELSE IF joinsNext
        THEN [man EXCEPT !.free[i] = Block(addr, size + next.size)]
        ELSE IF IsLost(man, addr, size)
        THEN [man EXCEPT !.losts = @ + 1, !.lostsize = @ + size]
        ELSE [man EXCEPT !.free = inserted,
                         !.maxfrees = IF @ < Len(inserted) THEN Len(inserted) ELSE @]

-----------------------------------------------------------------------------
\* (size + 0xfff) & 0xfffff000
RoundUp(size) == ((size + Page - 1) \div Page) * Page
=============================================================================
