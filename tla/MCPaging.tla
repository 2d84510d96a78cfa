------------------------------ MODULE MCPaging ------------------------------
(***************************************************************************)
(* Paging compared with what the algorithms are for, on every stream of    *)
(* eight instructions that page.c may make out of four pages of two.       *)
(***************************************************************************)
EXTENDS Paging

FrameCounts == {2, 3}

Inside == {PagesOf(q) : q \in Quadruples} \cap [1 .. 4 -> VirtualSpace]
Streams == {s \o t : s, t \in Inside}

\* The different pages of a stream, those used last first.
RECURSIVE Recency(_)
Recency(stream) ==
    IF stream = <<>> THEN <<>>
    ELSE <<Last(stream)>> \o SelectSeq(Recency(Front(stream)), LAMBDA p : p # Last(stream))

\* The fewest faults of any choice of victims.
RECURSIVE Fewest(_, _, _)
Fewest(loaded, frames, stream) ==
    IF stream = <<>> THEN 0
    ELSE LET p == Head(stream)
             rest(pages) == Fewest(pages \cup {p}, frames, Tail(stream))
         IN  IF p \in loaded THEN rest(loaded)
             ELSE IF Cardinality(loaded) < frames THEN 1 + rest(loaded)
             ELSE 1 + Min({rest(loaded \ {v}) : v \in loaded})

Runs(frames, stream) ==
    {FIFO(frames, stream), LRU(frames, stream), LFU(frames, stream), NUR(frames, stream),
     OPT(frames, stream)}

\* The addresses leave the program: pages[] has no entry for the page behind
\* the last one.
ASSUME StreamLeavesMemory ==
    {PageOf(q[i]) : q \in Quadruples, i \in 1 .. 4} = VirtualSpace \cup {VirtualPages}

\* Every frame is free or holds one page, and the last page used is there.
ASSUME FramesAreShared ==
    \A frames \in FrameCounts, stream \in Streams : \A m \in Runs(frames, stream) :
        LET held == [p \in InMemory(m) |-> m.number[p]]
        IN  /\ Last(stream) \in InMemory(m)
            /\ \A p, q \in InMemory(m) : held[p] = held[q] => p = q
            /\ {held[p] : p \in InMemory(m)} \cup ToSet(m.free) = 0 .. frames - 1
            /\ \A p \in InMemory(m) : held[p] \notin ToSet(m.free)

\* The busy list of FIFO has every page in memory once.
ASSUME FifoListIsMemory ==
    \A frames \in FrameCounts, stream \in Streams :
        LET m == FIFO(frames, stream)
        IN  ToSet(m.busy) = InMemory(m) /\ IsInjective(m.busy)

\* LRU keeps the pages used last, so more frames never cost a fault.
ASSUME LruKeepsRecent ==
    \A frames \in FrameCounts, stream \in Streams :
        LET recent == Recency(stream)
            kept == SubSeq(recent, 1, Min({Len(recent), frames}))
        IN  InMemory(LRU(frames, stream)) = ToSet(kept)

ASSUME LruGainsFromFrames ==
    \A stream \in Streams : LRU(3, stream).diseffect <= LRU(2, stream).diseffect

\* No algorithm has fewer faults than there must be, and OPT sometimes has
\* more: it goes by the last use of a page and not by the next.
ASSUME OptIsNotBest ==
    /\ \A frames \in FrameCounts, stream \in Streams : \A m \in Runs(frames, stream) :
          m.diseffect >= Fewest({}, frames, stream)
    /\ \E frames \in FrameCounts, stream \in Streams :
          OPT(frames, stream).diseffect > Fewest({}, frames, stream)
=============================================================================
