----------------------------- MODULE MemoryPool -----------------------------
(***************************************************************************)
(* The kernel's memory: memory.c and those who allocate and release.       *)
(*                                                                         *)
(* HariMain hands the two regions of free memory to memman_free            *)
(* (bootpack.c:66-68).  From then on memory is taken and given back in     *)
(* pages (memman_alloc_4k, memman_free_4k): the stack and queue of a       *)
(* console, the buffer of its window, its FAT, the code and the data of    *)
(* the application it runs and the files that one opens.  A user gives     *)
(* back what it took, with the size it asked for.                          *)
(*                                                                         *)
(* A user that gets 0 is taken to give nothing back.  No user in the       *)
(* kernel looks at the result (console.c:352, 359, 539): what is stated    *)
(* here holds for them as long as the memory lasts.                        *)
(***************************************************************************)
EXTENDS Memman, FiniteSets

CONSTANTS Low, High,  \* the two blocks HariMain starts with
          Requests    \* the sizes asked for

\* 0x00001000 to 0x0009efff, and from 0x00400000 on (bootpack.c:66-68).
ASSUME RegionAssumption == /\ {Low, High} \subseteq [addr : Nat \ {0}, size : Nat \ {0}]
                           /\ Low.addr + Low.size < High.addr
                           /\ MaxFrees >= 2
ASSUME RequestAssumption == Requests \subseteq Nat

Addresses(b) == b.addr .. b.addr + b.size - 1

VARIABLES man,     \* the memman_t at MEMMAN_ADDR
          owned,   \* who uses what: the address of each block and the size asked for
          lost,    \* the blocks whose release failed
          reply    \* what the last call returned

vars == <<man, owned, lost, reply>>

\* memman_init and one memman_free for each region.
Init == /\ man = Release(Release(MemInit, Low.addr, Low.size), High.addr, High.size)
        /\ owned = {}
        /\ lost = {}
        /\ reply = 0

\* memman_alloc_4k.
Allocate(size) == /\ man' = Alloc(man, RoundUp(size))
                  /\ reply' = AllocResult(man, RoundUp(size))
                  /\ owned' = IF reply' = NoSpace THEN owned
                              ELSE owned \cup {Block(reply', size)}
                  /\ UNCHANGED lost

\* Slip: what was taken in pages is given back in bytes.
GiveBackBytes(b) ==
    /\ b \in owned
    /\ man' = Release(man, b.addr, b.size)
    /\ reply' = FreeResult(man, b.addr, b.size)
    /\ lost' = IF IsLost(man, b.addr, b.size) THEN lost \cup {b} ELSE lost
    /\ owned' = owned \ {b}

\* memman_free_4k.
GiveBack(b) ==
    LET size == RoundUp(b.size) IN
    /\ b \in owned
    /\ man' = Release(man, b.addr, size)
    /\ reply' = FreeResult(man, b.addr, size)
    /\ lost' = IF IsLost(man, b.addr, size) THEN lost \cup {Block(b.addr, size)} ELSE lost
    /\ owned' = owned \ {b}

Next == \/ \E size \in Requests : Allocate(size)
        \/ \E b \in owned : GiveBack(b)

Spec == Init /\ [][Next]_vars

-----------------------------------------------------------------------------
(* Properties. *)

Memory == Addresses(Low) \cup Addresses(High)
Available == UNION {Addresses(man.free[i]) : i \in DOMAIN man.free}
InUse == UNION {Addresses(Block(b.addr, RoundUp(b.size))) : b \in owned}
Lost == UNION {Addresses(b) : b \in lost}

\* The table never outgrows its array and holds blocks of the managed memory;
\* what is owned or lost are such blocks too.
TypeOK == /\ man.free \in Seq([addr : Memory, size : Nat \ {0}])
          /\ Len(man.free) <= man.maxfrees
          /\ man.maxfrees \in 0 .. MaxFrees
          /\ man.losts \in Nat /\ man.lostsize \in Nat
          /\ reply \in Memory \cup {0, -1}

\* The entries are in ascending order with a gap between neighbours: they were
\* inserted in their place, and those that touch were joined.
TableOrdered ==
    \A i \in 1 .. Len(man.free) - 1 :
        man.free[i].addr + man.free[i].size < man.free[i + 1].addr

\* No address is free and in use, or free twice, or in use by two; none
\* disappears but those of the releases that failed.
Partition == /\ Available \cup InUse \cup Lost = Memory
             /\ Available \cap InUse = {} /\ Lost \cap (Available \cup InUse) = {}
             /\ \A b, c \in owned :
                  b # c => Addresses(Block(b.addr, RoundUp(b.size)))
                             \cap Addresses(Block(c.addr, RoundUp(c.size))) = {}

\* What the mem command prints, and the account of what was lost, are right.
Accounts == /\ MemTotal(man) = Cardinality(Available)
            /\ man.lostsize = Cardinality(Lost)

\* memory.c implements a heap that joins what can be joined: it refuses a
\* request, or loses memory, only when there is no other way.
Pool == INSTANCE Heap
          WITH Lengths <- {RoundUp(n) : n \in Requests},
               avail <- Available,
               lost <- Lost

ImplementsHeap == Pool!Spec

-----------------------------------------------------------------------------
(* What a comment of memory.c says.                                        *)

\* free[i - 1].addr < addr < free[i].addr for a block about to be released
\* (memory.c:94), so that the table is in ascending order of addresses.
Ascending ==
    \A i \in 1 .. Len(man.free) - 1 : man.free[i].addr < man.free[i + 1].addr
=============================================================================
