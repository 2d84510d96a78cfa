------------------------------ MODULE WakeRace ------------------------------
(***************************************************************************)
(* fifo32_put and the task_run it calls, one statement at a time, as       *)
(* HariMain executes them when it passes a key or a cursor command on to   *)
(* the console of the active window (bootpack.c:150-157, 335-351).  These  *)
(* calls are made with interrupts enabled: between any two statements the  *)
(* timer interrupt may put the datum of the cursor timer into the same     *)
(* queue (timer.c:105) and wake the same task.                             *)
(*                                                                         *)
(* The handler's own put cannot be interrupted: it is one step, made of    *)
(* the operators of Fifo32 and Mtask.  So is HariMain's put of the datum 4 *)
(* (bootpack.c:296-298), the only one for which it disables interrupts:    *)
(* HandlerPut between two calls of HariMain stands for that one, too.  The *)
(* console runs only when HariMain does not, since HariMain's level comes  *)
(* first.                                                                  *)
(*                                                                         *)
(* p, free and running are read and written again by one statement each.   *)
(* The machine code may do it in one instruction or in two; copy is the    *)
(* value that was in the register if it was read before the interrupt.     *)
(***************************************************************************)
EXTENDS Integers, Sequences, Fifo32, Mtask

CONSTANTS Data, Size,
          NoDatum,       \* what the buffer holds before the first put
          MaxPerLevel,   \* MAX_TASKS_LV; bounds the entries that races leave behind
          MaxOver        \* bound on the data a queue holds beyond its size

ASSUME RaceAssumption == /\ Size \in Nat \ {0}
                         /\ MaxPerLevel \in Nat \ {0, 1}
                         /\ MaxOver \in Nat
                         /\ NoDatum \notin Data

Console == "console"

VARIABLES fifo,    \* the console's queue
          flags,   \* the flags of the console's task
          tl,      \* its level
          pc,      \* the statement HariMain executes next; "idle" outside of fifo32_put
          data,    \* the argument of that fifo32_put
          copy     \* the field that the statement changes, as a register may hold it

vars == <<fifo, flags, tl, pc, data, copy>>

Init == /\ fifo = FifoInit(Size, [i \in 0 .. Size - 1 |-> NoDatum], Console)
        /\ flags = Asleep
        /\ tl = [running |-> 0, now |-> 0, tasks |-> [i \in 0 .. MaxPerLevel - 1 |-> NoTask]]
        /\ pc = "idle"
        /\ data = NoDatum
        /\ copy = 0

\* What the field may be taken for by the statement that changes it.
Read(field) == {field, copy}

\* Any p behind the end of the buffer: it never equals size again, and what is
\* put there is written to memory that is not the queue's.
Outside == Size + 1
Kept(f) == [f EXCEPT !.p = IF @ > Size THEN Outside ELSE @]

\* The console has its turns: the level lists it.
Listed == Console \in Window(tl)

-----------------------------------------------------------------------------
(* HariMain. *)

\* fifo32_put up to the test of free.
PutCall(d) == /\ pc = "idle"
              /\ fifo.free > -MaxOver
              /\ IF fifo.free = 0
                 THEN /\ fifo' = [fifo EXCEPT !.flags = 1]
                      /\ UNCHANGED <<pc, data>>
                 ELSE /\ pc' = "store"
                      /\ data' = d
                      /\ UNCHANGED fifo
              /\ UNCHANGED <<flags, tl, copy>>

\* The data part of fifo32_put; next is the field the next statement changes.
Statement(here, there, update, next) ==
    /\ pc = here
    /\ pc' = there
    /\ fifo' = update
    /\ copy' = next
    /\ UNCHANGED <<flags, tl, data>>

PutStore ==
    Statement("store", "advance", [fifo EXCEPT !.buf = [@ EXCEPT ![fifo.p] = data]], fifo.p)

PutAdvance ==
    \E p \in Read(fifo.p) :
        Statement("advance", "wrap", Kept([fifo EXCEPT !.p = p + 1]), p + 1)

PutWrap ==
    \E p \in Read(fifo.p) :
        Statement("wrap", "count", IF p = Size THEN [fifo EXCEPT !.p = 0] ELSE fifo, fifo.free)

PutCount ==
    \E free \in Read(fifo.free) :
        Statement("count", "asleep?", [fifo EXCEPT !.free = free - 1], 0)

\* if (q->task->flags != 2), in fifo32_put and again in task_run.
TestFlags(here, there) == /\ pc = here
                          /\ pc' = IF flags # Active THEN there ELSE "idle"
                          /\ UNCHANGED <<fifo, flags, tl, data, copy>>

\* Slip: nobody is woken.
PutReturns == /\ pc = "asleep?"
              /\ pc' = "idle"
              /\ UNCHANGED <<fifo, flags, tl, data, copy>>

PutTest == TestFlags("asleep?", "run?")
RunTest == TestFlags("run?", "append")

\* Slip: the task is active before the level counts it.
AppendActivates == /\ pc = "append"
                   /\ pc' = "grow"
                   /\ tl' = [tl EXCEPT !.tasks = [@ EXCEPT ![tl.running] = Console]]
                   /\ flags' = Active
                   /\ copy' = tl.running
                   /\ UNCHANGED <<fifo, data>>

\* task_add.
AddAppend == /\ pc = "append"
             /\ pc' = "grow"
             /\ tl' = [tl EXCEPT !.tasks = [@ EXCEPT ![tl.running] = Console]]
             /\ copy' = tl.running
             /\ UNCHANGED <<fifo, flags, data>>

AddGrow == /\ pc = "grow"
           /\ pc' = "activate"
           /\ \E running \in Read(tl.running) : tl' = [tl EXCEPT !.running = running + 1]
           /\ copy' = 0
           /\ UNCHANGED <<fifo, flags, data>>

AddActivate == /\ pc = "activate"
               /\ pc' = "idle"
               /\ flags' = Active
               /\ UNCHANGED <<fifo, tl, data, copy>>

-----------------------------------------------------------------------------
(* The timer interrupt and the console. *)

\* In the middle of HariMain's put, the bounds leave room for what it still adds.
RoomForRace == pc # "idle" => fifo.free > 1 - MaxOver /\ tl.running + 2 < MaxPerLevel

\* inthandler20: fifo32_put(timer->fifo, timer->data).
HandlerPut(d) == /\ fifo.free > -MaxOver
                 /\ RoomForRace
                 /\ fifo' = Kept(FifoPut(fifo, d))
                 /\ IF WakesOwner(fifo, flags = Active)
                    THEN flags' = Active /\ tl' = LevelAdd(tl, Console)
                    ELSE UNCHANGED <<flags, tl>>
                 /\ UNCHANGED <<pc, data, copy>>

\* console_task: fifo32_get, or task_sleep, with interrupts disabled.  A console
\* that is listed although it is asleep goes on: task_sleep does nothing for it.
Take == /\ pc = "idle"
        /\ Listed
        /\ FifoStatus(fifo) # 0
        /\ fifo' = FifoGet(fifo)
        /\ UNCHANGED <<flags, tl, pc, data, copy>>

Sleep == /\ pc = "idle"
         /\ Listed
         /\ FifoStatus(fifo) = 0
         /\ IF flags = Active
            THEN flags' = Asleep /\ tl' = LevelRemove(tl, Console)
            ELSE UNCHANGED <<flags, tl>>
         /\ UNCHANGED <<fifo, pc, data, copy>>

Continue == \/ PutStore \/ PutAdvance \/ PutWrap \/ PutCount
            \/ PutTest \/ RunTest
            \/ AddAppend \/ AddGrow \/ AddActivate

HariMain == Continue \/ \E d \in Data : PutCall(d)

Next == \/ HariMain
        \/ \E d \in Data : HandlerPut(d)
        \/ Take
        \/ Sleep

Spec == Init /\ [][Next]_vars

-----------------------------------------------------------------------------
(* Properties. *)

\* The structure as the race may leave it: p behind the buffer, more data than
\* slots.
Queues == [size : {Size}, buf : [0 .. Size - 1 -> Data \cup {NoDatum}],
           free : -MaxOver .. Size, flags : {0, 1},
           p : 0 .. Outside, q : 0 .. Size - 1, task : {Console}]

\* The fields keep these ranges.
TypeOK == /\ fifo \in Queues
          /\ flags \in {Asleep, Active}
          /\ tl \in LevelRecords(MaxPerLevel, {Console, NoTask})
          /\ data \in Data \cup {NoDatum}
          /\ copy \in Int

\* However HariMain and the interrupt race to wake it, a console with data in its
\* queue gets its turn, or HariMain is still going to see to it: no datum that
\* the queue counts lies there while everybody takes the console for asleep.
WakeIsComing == FifoStatus(fifo) # 0 => Listed \/ pc # "idle"

\* An active task is one the scheduler will find, at every statement: whoever
\* sees flags = 2 may leave it to others.
ActiveIsListed == flags = Active => Listed

\* running is the number of active tasks of the level (bootpack.h:274): the
\* console counts once when it is active and not at all when it sleeps.
RunningCounts == pc = "idle" => tl.running = IF flags = Active THEN 1 ELSE 0
=============================================================================
