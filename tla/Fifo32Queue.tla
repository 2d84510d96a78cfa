---------------------------- MODULE Fifo32Queue ----------------------------
(***************************************************************************)
(* One fifo32 of the kernel in use: interrupt handlers and other tasks put *)
(* data into it, the task that owns it takes them out and goes to sleep    *)
(* when there is none (osask/src/sys/fifo.c; the receiving loop is that of *)
(* HariMain, console_task and the getkey system call).                     *)
(*                                                                         *)
(* Every action is one critical section: a put of an interrupt handler, or *)
(* of a task under io_cli, and the io_cli ... io_sti stretch of the loop   *)
(* are not interrupted.  What happens to the puts that tasks do with       *)
(* interrupts enabled is the subject of module WakeRace.                   *)
(***************************************************************************)
EXTENDS Integers, Sequences, Fifo32

CONSTANTS Data, Size

ASSUME SizeAssumption == Size \in Nat \ {0}
ASSUME DataAssumption == Empty \notin Data

Owner == "owner"

VARIABLES fifo,    \* the fifo32 structure
          awake    \* q->task->flags == 2: the owner is in the run queue

vars == <<fifo, awake>>

Slots == 0 .. Size - 1

\* The buffer's initial content is whatever memory held.
Init == /\ \E junk \in [Slots -> Data] : fifo = FifoInit(Size, junk, Owner)
        /\ awake \in BOOLEAN

\* Slip: a put leaves the owner asleep.
PutQuietly(d) == /\ fifo' = FifoPut(fifo, d)
                 /\ UNCHANGED awake

\* fifo32_put by somebody else than the owner.
Put(d) == /\ fifo' = FifoPut(fifo, d)
          /\ awake' = (awake \/ WakesOwner(fifo, awake))

\* Slip: the owner has looked at the status before io_cli.
SleepBlindly == /\ awake
                /\ awake' = FALSE
                /\ UNCHANGED fifo

\* io_cli; status == 0: task_sleep.
Sleep == /\ awake
         /\ FifoStatus(fifo) = 0
         /\ awake' = FALSE
         /\ UNCHANGED fifo

\* io_cli; status != 0: fifo32_get; io_sti.
Take == /\ awake
        /\ FifoStatus(fifo) # 0
        /\ fifo' = FifoGet(fifo)
        /\ UNCHANGED awake

Next == \/ \E d \in Data : Put(d)
        \/ Sleep
        \/ Take

Spec == Init /\ [][Next]_vars

\* The scheduler lets an awake owner run again and again.
FairSpec == Spec /\ WF_vars(Take) /\ WF_vars(Sleep)

-----------------------------------------------------------------------------
\* The fields of the structure keep their ranges; the owner is awake or not.
TypeOK == /\ fifo \in Fifos(Size, Data, Owner)
          /\ awake \in BOOLEAN

\* fifo32_put and fifo32_get keep three counters (p, q and free) that fifo.c
\* never compares with each other; they agree all the same.
IndexesAgree == Agree(fifo)

\* A task that sleeps has nothing to read: the put that fills an empty queue
\* wakes the owner, and the owner looks at the status and falls asleep in one
\* critical section (console.c:40-43, bootpack.c:111-124).
NoLostWakeup == ~awake => FifoStatus(fifo) = 0

\* The oldest datum is eventually taken.
Served == \A i \in Slots : (FifoStatus(fifo) > 0 /\ fifo.q = i) ~> (fifo.q # i)

\* fifo.c implements a bounded first-in first-out queue.
Queue == INSTANCE BoundedQueue
           WITH items <- Items(fifo),
                overrun <- fifo.flags

ImplementsQueue == Queue!Spec
=============================================================================
