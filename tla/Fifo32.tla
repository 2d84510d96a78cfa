------------------------------- MODULE Fifo32 -------------------------------
(***************************************************************************)
(* The ring buffer of osask/src/sys/fifo.c, as operators on the fifo32     *)
(* structure.  Waking the owning task, which fifo32_put also does, is a    *)
(* matter of the caller's scheduler state: WakesOwner says when it happens.*)
(***************************************************************************)
EXTENDS Integers

NoTask == "none"   \* q->task == 0: nobody is woken by a put

Empty == -1        \* what fifo32_get returns of an empty queue
Failed == -1       \* what fifo32_put returns of a full one

\* fifo32_init: the buffer keeps whatever it held before.
FifoInit(size, buf, task) ==
    [size |-> size, buf |-> buf, free |-> size, flags |-> 0,
     p |-> 0, q |-> 0, task |-> task]

\* Slip: the index wraps one slot too late.
SuccLate(f, i) == IF i + 1 > f.size THEN 0 ELSE i + 1

\* The index after i, wrapping at the end of the buffer.
Succ(f, i) == IF i + 1 = f.size THEN 0 ELSE i + 1

\* Slip: a full queue takes the datum all the same.
FifoPutOverwrites(f, data) ==
    [f EXCEPT !.buf = [@ EXCEPT ![f.p] = data],
              !.p = Succ(f, f.p),
              !.free = IF @ = 0 THEN 0 ELSE @ - 1]

\* fifo32_put: the data part.
FifoPut(f, data) ==
    IF f.free = 0
    THEN [f EXCEPT !.flags = 1]
    ELSE [f EXCEPT !.buf = [@ EXCEPT ![f.p] = data],
                   !.p = Succ(f, f.p),
                   !.free = @ - 1]

PutResult(f) == IF f.free = 0 THEN Failed ELSE 0

\* fifo32_put: does it go on to task_run(q->task, -1, 0)?
WakesOwner(f, ownerRuns) == f.free # 0 /\ f.task # NoTask /\ ~ownerRuns

\* Slip: the slot that was read is not given back.
FifoGetKeeps(f) == IF f.free = f.size THEN f ELSE [f EXCEPT !.q = Succ(f, f.q)]

\* fifo32_get: what remains, and the datum handed over.
FifoGet(f) ==
    IF f.free = f.size
    THEN f
    ELSE [f EXCEPT !.q = Succ(f, f.q), !.free = @ + 1]

GetResult(f) == IF f.free = f.size THEN Empty ELSE f.buf[f.q]

\* fifo32_status
FifoStatus(f) == f.size - f.free

-----------------------------------------------------------------------------
(* What the structure stands for. *)

\* The structures of a queue of the given size, owned by task.
Fifos(size, data, task) ==
    [size : {size}, buf : [0 .. size - 1 -> data], free : 0 .. size,
     flags : {0, 1}, p : 0 .. size - 1, q : 0 .. size - 1, task : {task}]

\* The i-th slot from the reading position, i counted from 0.
FromHead(f, i) == IF f.q + i < f.size THEN f.q + i ELSE f.q + i - f.size

\* The write index is as far ahead of the read index as there are data.
Agree(f) == f.p = FromHead(f, FifoStatus(f))

\* The data held, oldest first.
Items(f) == [i \in 1 .. FifoStatus(f) |-> f.buf[FromHead(f, i - 1)]]
=============================================================================
