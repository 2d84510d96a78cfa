--------------------------- MODULE WakeRaceProofs ---------------------------
(***************************************************************************)
(* What holds of fifo32_put and task_run wherever the timer interrupt      *)
(* comes between their statements, for every size of the queue and of the  *)
(* level and every set of data: the fields keep their ranges, a console    *)
(* with data in its queue has its turns or is being woken, and an active   *)
(* console is listed.  That it is listed once does not hold, as the run    *)
(* wake_running shows, and neither does that the data arrive in order.     *)
(***************************************************************************)
EXTENDS WakeRace, KernelLemmas

Levels == LevelRecords(MaxPerLevel, {Console, NoTask})

-----------------------------------------------------------------------------
(* The inductive invariant: what the structure and the level are between   *)
(* two statements, whatever the interrupt did to them.                     *)

\* The stages of fifo32_put, and those of them with the datum not yet counted.
DataStages == {"store", "advance", "wrap", "count"}
WakeStages == {"asleep?", "run?", "append", "grow", "activate"}
Stages == {"idle"} \cup DataStages \cup WakeStages

\* What a register holds of p or of free is still fit for the field: an interrupt
\* leaves p within its range and only makes free smaller.
QueueInv ==
    /\ pc \in DataStages => fifo.free > -MaxOver
    /\ pc = "advance" => copy \in 0 .. Outside
    /\ pc = "count" => fifo.free <= copy /\ copy <= Size

\* The level has room for the entry that is on its way.
RoomInv ==
    /\ tl.now = 0
    /\ flags = Asleep /\ pc # "activate" => tl.running < MaxPerLevel
    /\ pc \in {"append", "grow"} => tl.running < MaxPerLevel

\* Between the two statements of task_add that append the console, the entry is
\* where a register's running says, and the interrupt added at most one more,
\* in the same place.
GrowInv ==
    /\ pc = "grow" => /\ copy \in 0 .. tl.running /\ copy < MaxPerLevel
                      /\ tl.tasks[copy] = Console
                      /\ tl.running <= copy + 1
                      /\ flags = Asleep => tl.running = copy
    /\ pc = "activate" => Listed

IInv == /\ TypeOK /\ pc \in Stages
        /\ QueueInv /\ RoomInv /\ GrowInv
        /\ WakeIsComing /\ ActiveIsListed

-----------------------------------------------------------------------------
(* The level, whose entries need not be distinct here. *)

\* The fields of the level, one by one.
LEMMA LevelFields ==
  ASSUME NEW l \in Levels
  PROVE  /\ l.running \in 0 .. MaxPerLevel /\ l.now \in 0 .. MaxPerLevel
         /\ l.tasks \in [0 .. MaxPerLevel - 1 -> {Console, NoTask}]
  BY DEF Levels, LevelRecords

\* task_add lists the console, and keeps whatever was listed.
LEMMA AddLists ==
  ASSUME NEW l \in Levels, l.running < MaxPerLevel
  PROVE  LET a == LevelAdd(l, Console)
         IN  /\ a \in Levels
             /\ a.running = l.running + 1 /\ a.now = l.now
             /\ a.tasks = [l.tasks EXCEPT ![l.running] = Console]
             /\ Console \in Window(a)
<1> USE RaceAssumption
<1> DEFINE tasks == [l.tasks EXCEPT ![l.running] = Console]
<1>1. /\ l.running \in 0 .. MaxPerLevel - 1 /\ l.running + 1 \in 0 .. MaxPerLevel
      /\ l.tasks \in [0 .. MaxPerLevel - 1 -> {Console, NoTask}]
  BY LevelFields
<1>2. tasks \in [0 .. MaxPerLevel - 1 -> {Console, NoTask}] /\ tasks[l.running] = Console
  BY <1>1
<1>3. LevelAdd(l, Console) = [l EXCEPT !.tasks = tasks, !.running = l.running + 1]
  BY DEF LevelAdd
<1> HIDE DEF tasks
<1>4. /\ LevelAdd(l, Console) \in Levels
      /\ LevelAdd(l, Console).running = l.running + 1
      /\ LevelAdd(l, Console).now = l.now
      /\ LevelAdd(l, Console).tasks = tasks
  BY <1>1, <1>2, <1>3 DEF Levels, LevelRecords
<1>5. Console \in Window(LevelAdd(l, Console))
  BY <1>1, <1>2, <1>4 DEF Window
<1> QED BY <1>4, <1>5 DEF tasks

\* task_remove takes out the first entry of the console.
LEMMA RemoveDrops ==
  ASSUME NEW l \in Levels, l.now = 0, Console \in Window(l)
  PROVE  LET r == LevelRemove(l, Console)
         IN  r \in Levels /\ r.now = 0 /\ r.running = l.running - 1
<1> USE RaceAssumption
<1>1. /\ l.running \in 1 .. MaxPerLevel
      /\ l.tasks \in [0 .. MaxPerLevel - 1 -> {Console, NoTask}]
  BY LevelFields DEF Window
<1> DEFINE T == {k \in 0 .. l.running - 1 : l.tasks[k] = Console}
           P(i) == /\ i < l.running => l.tasks[i] = Console
                   /\ \A j \in 0 .. i - 1 : l.tasks[j] # Console
<1>2. PICK k \in T : \A m \in T : k <= m
  <2>1. T # {} /\ T \in SUBSET Nat
    BY <1>1 DEF Window
  <2> HIDE DEF T
  <2> QED BY <2>1, Smallest
<1>3. k \in 0 .. l.running /\ P(k)
  BY <1>1, <1>2
<1> DEFINE i == Find(l, Console)
<1>4. i \in 0 .. l.running
  <2>1. i = CHOOSE n \in 0 .. l.running : P(n)
    BY DEF Find
  <2> HIDE DEF P, i
  <2> QED BY <1>3, <2>1
<1> HIDE DEF i
<1> DEFINE shifted == [j \in DOMAIN l.tasks |->
                         IF i <= j /\ j < l.running - 1 THEN l.tasks[j + 1] ELSE l.tasks[j]]
<1>5. LevelRemove(l, Console) = [running |-> l.running - 1, now |-> 0, tasks |-> shifted]
  <2>1. (IF i < l.now THEN l.now - 1 ELSE l.now) = 0
    BY <1>4
  <2> QED BY <2>1, <1>1 DEF LevelRemove, i
<1>6. shifted \in [0 .. MaxPerLevel - 1 -> {Console, NoTask}]
  BY <1>1, <1>4
<1> HIDE DEF shifted
<1>7. l.running - 1 \in 0 .. MaxPerLevel /\ 0 \in 0 .. MaxPerLevel
  BY <1>1
<1> QED BY <1>5, <1>6, <1>7 DEF Levels, LevelRecords

-----------------------------------------------------------------------------
(* Every step keeps the inductive invariant. *)

\* The fields of the queue, one by one.
LEMMA QueueFields ==
  ASSUME TypeOK
  PROVE  /\ fifo.size = Size /\ fifo.free \in -MaxOver .. Size /\ fifo.flags \in {0, 1}
         /\ fifo.p \in 0 .. Outside /\ fifo.q \in 0 .. Size - 1
         /\ fifo.buf \in [0 .. Size - 1 -> Data \cup {NoDatum}]
         /\ fifo.task = Console
         /\ FifoStatus(fifo) = Size - fifo.free
  BY DEF TypeOK, Queues, FifoStatus

\* At first the queue is empty and the console sleeps.
LEMMA InitIInv == Init => IInv
<1> SUFFICES ASSUME Init PROVE IInv
  OBVIOUS
<1> USE RaceAssumption
<1> DEFINE junk == [i \in 0 .. Size - 1 |-> NoDatum]
<1>1. fifo = [size |-> Size, buf |-> junk, free |-> Size, flags |-> 0,
              p |-> 0, q |-> 0, task |-> Console]
  BY DEF Init, FifoInit
<1>2. /\ Size \in -MaxOver .. Size /\ 0 \in 0 .. Size - 1 /\ 0 \in 0 .. Outside
      /\ junk \in [0 .. Size - 1 -> Data \cup {NoDatum}]
  BY DEF Outside
<1>3. fifo \in Queues /\ FifoStatus(fifo) = 0
  BY <1>1, <1>2 DEF Queues, FifoStatus
<1>4. tl \in Levels /\ tl.running = 0 /\ tl.now = 0
  BY DEF Init, Levels, LevelRecords
<1> QED BY <1>3, <1>4
        DEF Init, IInv, TypeOK, QueueInv, RoomInv, GrowInv, WakeIsComing, ActiveIsListed,
            Levels, Stages, DataStages, Asleep, Active

\* The call: a full queue is only marked.
LEMMA CallIInv ==
  ASSUME IInv, NEW d \in Data, PutCall(d)
  PROVE  IInv'
<1> USE RaceAssumption DEF Stages, DataStages, WakeStages
<1>1. CASE fifo.free = 0
  <2>1. fifo' = [fifo EXCEPT !.flags = 1] /\ pc = "idle" /\ UNCHANGED <<flags, tl, pc, data, copy>>
    BY <1>1 DEF PutCall
  <2>2. fifo' \in Queues /\ FifoStatus(fifo') = FifoStatus(fifo)
    BY <2>1 DEF IInv, TypeOK, Queues, FifoStatus
  <2> QED BY <2>1, <2>2 DEF IInv, TypeOK, QueueInv, RoomInv, GrowInv, WakeIsComing,
                            ActiveIsListed, Listed
<1>2. CASE fifo.free # 0
  <2>1. /\ UNCHANGED <<fifo, flags, tl, copy>> /\ pc = "idle" /\ pc' = "store" /\ data' = d
        /\ fifo.free > -MaxOver
    BY <1>2 DEF PutCall
  <2> QED BY <2>1 DEF IInv, TypeOK, QueueInv, RoomInv, GrowInv, WakeIsComing,
                      ActiveIsListed, Listed
<1> QED BY <1>1, <1>2

\* The statements that change the queue, as long as they leave it in its ranges.
LEMMA DataIInv ==
  ASSUME IInv, UNCHANGED <<flags, tl, data>>, pc \in DataStages,
         pc' \in {"advance", "wrap", "count", "asleep?"},
         fifo' \in Queues, copy' \in Int, QueueInv'
  PROVE  IInv'
  BY DEF IInv, TypeOK, RoomInv, GrowInv, WakeIsComing, ActiveIsListed, Listed,
         Stages, DataStages, WakeStages

\* HariMain's statements up to the count.
LEMMA DataStepsIInv ==
  ASSUME IInv, PutStore \/ PutAdvance \/ PutWrap \/ PutCount
  PROVE  IInv'
<1> USE RaceAssumption DEF Outside
<1>1. /\ fifo \in Queues /\ data \in Data \cup {NoDatum}
      /\ fifo.free \in -MaxOver .. Size /\ fifo.p \in 0 .. Outside
      /\ fifo.buf \in [0 .. Size - 1 -> Data \cup {NoDatum}]
  BY QueueFields DEF IInv, TypeOK
<1>2. CASE PutStore
  <2>1. /\ pc = "store" /\ pc' = "advance" /\ copy' = fifo.p /\ UNCHANGED <<flags, tl, data>>
        /\ fifo' = [fifo EXCEPT !.buf = [fifo.buf EXCEPT ![fifo.p] = data]]
    BY <1>2 DEF PutStore, Statement
  <2>2. [fifo.buf EXCEPT ![fifo.p] = data] \in [0 .. Size - 1 -> Data \cup {NoDatum}]
    BY <1>1
  <2>3. fifo' \in Queues /\ fifo'.free = fifo.free
    BY <2>1, <2>2, <1>1 DEF Queues
  <2>4. QueueInv'
    BY <2>1, <2>3, <1>1 DEF IInv, QueueInv, DataStages
  <2> QED BY <2>1, <2>3, <2>4, <1>1, DataIInv DEF DataStages
<1>3. CASE PutAdvance
  <2>1. PICK p \in {fifo.p, copy} :
             /\ pc = "advance" /\ pc' = "wrap" /\ copy' = p + 1 /\ UNCHANGED <<flags, tl, data>>
             /\ fifo' = Kept([fifo EXCEPT !.p = p + 1])
    BY <1>3 DEF PutAdvance, Statement, Read
  <2>2. p \in 0 .. Outside
    BY <2>1, <1>1 DEF IInv, QueueInv
  <2>3. fifo' = [fifo EXCEPT !.p = IF p + 1 > Size THEN Outside ELSE p + 1]
    BY <2>1, <1>1 DEF Kept, Queues
  <2>4. (IF p + 1 > Size THEN Outside ELSE p + 1) \in 0 .. Outside
    BY <2>2
  <2>5. fifo' \in Queues /\ fifo'.free = fifo.free
    BY <2>3, <2>4, <1>1 DEF Queues
  <2>6. QueueInv'
    BY <2>1, <2>5 DEF IInv, QueueInv, DataStages
  <2> QED BY <2>1, <2>2, <2>5, <2>6, DataIInv DEF DataStages
<1>4. CASE PutWrap
  <2>1. /\ pc = "wrap" /\ pc' = "count" /\ copy' = fifo.free /\ UNCHANGED <<flags, tl, data>>
        /\ fifo' = [fifo EXCEPT !.p = 0] \/ fifo' = fifo
    BY <1>4 DEF PutWrap, Statement
  <2>2. fifo' \in Queues /\ fifo'.free = fifo.free
    BY <2>1, <1>1 DEF Queues
  <2>3. QueueInv'
    BY <2>1, <2>2, <1>1 DEF IInv, QueueInv, DataStages
  <2> QED BY <2>1, <2>2, <2>3, <1>1, DataIInv DEF DataStages
<1>5. CASE PutCount
  <2>1. PICK free \in {fifo.free, copy} :
             /\ pc = "count" /\ pc' = "asleep?" /\ copy' = 0 /\ UNCHANGED <<flags, tl, data>>
             /\ fifo' = [fifo EXCEPT !.free = free - 1]
    BY <1>5 DEF PutCount, Statement, Read
  <2>2. free - 1 \in -MaxOver .. Size
    BY <2>1, <1>1 DEF IInv, TypeOK, QueueInv, DataStages
  <2>3. fifo' \in Queues
    BY <2>1, <2>2, <1>1 DEF Queues
  <2>4. QueueInv'
    BY <2>1 DEF QueueInv, DataStages
  <2> QED BY <2>1, <2>3, <2>4, DataIInv DEF DataStages
<1> QED BY <1>2, <1>3, <1>4, <1>5

\* HariMain's statements after the count: those that wake the console.
LEMMA WakeStepsIInv ==
  ASSUME IInv, PutTest \/ RunTest \/ AddAppend \/ AddGrow \/ AddActivate
  PROVE  IInv'
<1> USE RaceAssumption DEF Stages, DataStages, WakeStages
<1>1. /\ TypeOK /\ tl \in Levels /\ RoomInv /\ GrowInv /\ ActiveIsListed /\ WakeIsComing
      /\ tl.running \in 0 .. MaxPerLevel /\ flags \in {Asleep, Active}
      /\ tl.tasks \in [0 .. MaxPerLevel - 1 -> {Console, NoTask}]
  BY LevelFields DEF IInv, TypeOK, Levels
<1>2. CASE PutTest \/ RunTest
  <2>1. /\ UNCHANGED <<fifo, flags, tl, data, copy>> /\ pc \in {"asleep?", "run?"}
        /\ \/ pc' \in {"run?", "append"} /\ flags # Active
           \/ pc' = "idle" /\ flags = Active
    BY <1>2 DEF PutTest, RunTest, TestFlags
  <2> QED BY <2>1, <1>1 DEF IInv, TypeOK, QueueInv, RoomInv, GrowInv, WakeIsComing,
                            ActiveIsListed, Listed, Asleep, Active
<1>3. CASE AddAppend
  <2>1. /\ pc = "append" /\ pc' = "grow" /\ UNCHANGED <<fifo, flags, data>>
        /\ copy' = tl.running /\ tl.running < MaxPerLevel
        /\ tl' = [tl EXCEPT !.tasks = [tl.tasks EXCEPT ![tl.running] = Console]]
    BY <1>3, <1>1 DEF AddAppend, RoomInv
  <2>2. LET tasks == [tl.tasks EXCEPT ![tl.running] = Console]
        IN  /\ tasks \in [0 .. MaxPerLevel - 1 -> {Console, NoTask}]
            /\ tasks[tl.running] = Console
            /\ \A i \in 0 .. tl.running - 1 : tasks[i] = tl.tasks[i]
    BY <2>1, <1>1
  <2>3. /\ tl' \in Levels /\ tl'.running = tl.running /\ tl'.now = tl.now
        /\ tl'.tasks[tl.running] = Console
        /\ \A i \in 0 .. tl.running - 1 : tl'.tasks[i] = tl.tasks[i]
    <3> DEFINE tasks == [tl.tasks EXCEPT ![tl.running] = Console]
    <3>1. tl' = [tl EXCEPT !.tasks = tasks]
      BY <2>1
    <3> HIDE DEF tasks
    <3>2. tl' \in Levels /\ tl'.running = tl.running /\ tl'.now = tl.now /\ tl'.tasks = tasks
      BY <3>1, <2>2, <1>1 DEF Levels, LevelRecords, tasks
    <3> QED BY <3>2, <2>2 DEF tasks
  <2>4. Listed => Listed'
    BY <2>3 DEF Listed, Window
  <2> QED BY <2>1, <2>3, <2>4, <1>1
          DEF IInv, TypeOK, QueueInv, RoomInv, GrowInv, WakeIsComing, ActiveIsListed, Levels
<1>4. CASE AddGrow
  <2>1. PICK running \in {tl.running, copy} :
             /\ pc = "grow" /\ pc' = "activate" /\ UNCHANGED <<fifo, flags, data>>
             /\ copy' = 0 /\ tl' = [tl EXCEPT !.running = running + 1]
    BY <1>4 DEF AddGrow, Read
  <2>2. /\ copy \in 0 .. tl.running /\ tl.tasks[copy] = Console
        /\ tl.running < MaxPerLevel /\ tl.now = 0
    BY <2>1, <1>1 DEF RoomInv, GrowInv
  <2>3. running + 1 \in 0 .. MaxPerLevel /\ copy \in 0 .. running
    BY <2>1, <2>2, <1>1
  <2>4. /\ tl' \in Levels /\ tl'.running = running + 1 /\ tl'.now = 0
        /\ tl'.tasks = tl.tasks
    BY <2>1, <2>2, <2>3, <1>1 DEF Levels, LevelRecords
  <2>5. Listed'
    <3>1. tl'.running - 1 = running
      BY <2>1, <2>3, <2>4, <1>1
    <3>2. copy \in 0 .. tl'.running - 1 /\ tl'.tasks[copy] = Console
      BY <3>1, <2>2, <2>3, <2>4
    <3> QED BY <3>2 DEF Listed, Window
  <2> QED BY <2>1, <2>4, <2>5, <1>1
          DEF IInv, TypeOK, QueueInv, RoomInv, GrowInv, WakeIsComing, ActiveIsListed, Levels
<1>5. CASE AddActivate
  <2>1. /\ pc = "activate" /\ pc' = "idle" /\ flags' = Active
        /\ UNCHANGED <<fifo, tl, data, copy>> /\ Listed
    BY <1>5, <1>1 DEF AddActivate, GrowInv
  <2> QED BY <2>1, <1>1
          DEF IInv, TypeOK, QueueInv, RoomInv, GrowInv, WakeIsComing, ActiveIsListed, Listed,
              Asleep, Active
<1> QED BY <1>2, <1>3, <1>4, <1>5

\* The timer interrupt, between any two statements.
LEMMA HandlerIInv ==
  ASSUME IInv, NEW d \in Data, HandlerPut(d)
  PROVE  IInv'
<1> USE RaceAssumption DEF Outside, Stages, DataStages, WakeStages
<1>1. /\ TypeOK /\ QueueInv /\ RoomInv /\ GrowInv /\ WakeIsComing /\ ActiveIsListed
      /\ pc \in Stages /\ fifo \in Queues /\ tl \in Levels /\ flags \in {Asleep, Active}
  BY DEF IInv, TypeOK, Levels
<1>2. /\ UNCHANGED <<pc, data, copy>> /\ fifo' = Kept(FifoPut(fifo, d))
      /\ fifo.free > -MaxOver /\ RoomForRace
  BY DEF HandlerPut
<1>3. /\ fifo.size = Size /\ fifo.free \in -MaxOver .. Size /\ fifo.p \in 0 .. Outside
      /\ fifo.buf \in [0 .. Size - 1 -> Data \cup {NoDatum}]
      /\ fifo.task = Console /\ FifoStatus(fifo) = Size - fifo.free
  BY <1>1, QueueFields
<1>4. /\ fifo' \in Queues
      /\ fifo'.free = IF fifo.free = 0 THEN 0 ELSE fifo.free - 1
  <2>1. CASE fifo.free = 0
    <3>1. fifo' = [fifo EXCEPT !.flags = 1, !.p = IF fifo.p > Size THEN Outside ELSE fifo.p]
      BY <2>1, <1>1, <1>2 DEF FifoPut, Kept, Queues
    <3>2. (IF fifo.p > Size THEN Outside ELSE fifo.p) \in 0 .. Outside
      BY <1>3
    <3> QED BY <2>1, <3>1, <3>2, <1>1 DEF Queues
  <2>2. CASE fifo.free # 0
    <3> DEFINE buf == [fifo.buf EXCEPT ![fifo.p] = d]
               p == IF fifo.p + 1 = Size THEN 0 ELSE fifo.p + 1
    <3>1. FifoPut(fifo, d) = [fifo EXCEPT !.buf = buf, !.p = p, !.free = fifo.free - 1]
      BY <2>2, <1>3 DEF FifoPut, Succ
    <3>2. buf \in [0 .. Size - 1 -> Data \cup {NoDatum}]
      BY <1>3
    <3>3. (IF p > Size THEN Outside ELSE p) \in 0 .. Outside /\ fifo.free - 1 \in -MaxOver .. Size
      BY <1>2, <1>3
    <3> HIDE DEF buf, p
    <3>4. fifo' = [fifo EXCEPT !.buf = buf, !.p = IF p > Size THEN Outside ELSE p,
                               !.free = fifo.free - 1]
      BY <3>1, <1>1, <1>2 DEF Kept, Queues
    <3> QED BY <2>2, <3>2, <3>3, <3>4, <1>1 DEF Queues
  <2> QED BY <2>1, <2>2
<1>5. QueueInv'
  <2>1. pc # "idle" => fifo.free > 1 - MaxOver
    BY <1>2 DEF RoomForRace
  <2> QED BY <2>1, <1>1, <1>2, <1>3, <1>4 DEF QueueInv, TypeOK
<1>6. Console # NoTask
  BY DEF Console, NoTask
<1>7. CASE WakesOwner(fifo, flags = Active)
  <2>1. flags = Asleep /\ flags' = Active /\ tl' = LevelAdd(tl, Console)
    BY <1>1, <1>7 DEF HandlerPut, WakesOwner
  <2>2. /\ tl.running < MaxPerLevel /\ tl.running \in 0 .. MaxPerLevel
        /\ tl.tasks \in [0 .. MaxPerLevel - 1 -> {Console, NoTask}]
    BY <2>1, <1>1, <1>2, LevelFields DEF RoomInv, RoomForRace
  <2>3. /\ tl' \in Levels /\ tl'.running = tl.running + 1 /\ tl'.now = tl.now /\ Listed'
        /\ tl'.tasks = [tl.tasks EXCEPT ![tl.running] = Console]
    BY <2>1, <2>2, <1>1, AddLists DEF Listed
  <2>4. RoomInv'
    BY <2>1, <2>2, <2>3, <1>1, <1>2 DEF RoomInv, RoomForRace, Asleep, Active
  <2>5. GrowInv'
    <3>1. ASSUME pc = "grow"
          PROVE  copy = tl.running /\ tl'.tasks[copy] = Console
      BY <3>1, <2>1, <2>2, <2>3, <1>1 DEF GrowInv
    <3> QED BY <3>1, <2>1, <2>2, <2>3, <1>1, <1>2 DEF GrowInv, Asleep, Active
  <2> QED BY <2>1, <2>3, <2>4, <2>5, <1>1, <1>2, <1>4, <1>5
          DEF IInv, TypeOK, WakeIsComing, ActiveIsListed, Levels
<1>8. CASE ~WakesOwner(fifo, flags = Active)
  <2>1. UNCHANGED <<flags, tl>>
    BY <1>8 DEF HandlerPut
  <2>2. Listed \/ pc # "idle"
    BY <1>1, <1>3, <1>6, <1>8 DEF WakesOwner, WakeIsComing, ActiveIsListed
  <2> QED BY <2>1, <2>2, <1>1, <1>2, <1>4, <1>5
          DEF IInv, TypeOK, RoomInv, GrowInv, WakeIsComing, ActiveIsListed, Listed, Levels
<1> QED BY <1>7, <1>8

\* The console takes a datum or goes to sleep.
LEMMA ConsoleIInv ==
  ASSUME IInv, Take \/ Sleep
  PROVE  IInv'
<1> USE RaceAssumption DEF Stages, DataStages, WakeStages
<1>1. /\ pc = "idle" /\ UNCHANGED <<pc, data, copy>> /\ Listed /\ tl \in Levels /\ tl.now = 0
      /\ tl.running \in 0 .. MaxPerLevel /\ fifo \in Queues
  BY LevelFields DEF IInv, TypeOK, RoomInv, Levels, Take, Sleep
<1>2. CASE Take
  <2>1. FifoStatus(fifo) # 0 /\ fifo' = FifoGet(fifo) /\ UNCHANGED <<flags, tl>>
    BY <1>2 DEF Take
  <2>2. /\ fifo.size = Size /\ fifo.free \in -MaxOver .. Size /\ fifo.q \in 0 .. Size - 1
        /\ FifoStatus(fifo) = Size - fifo.free
    BY QueueFields DEF IInv
  <2>3. /\ fifo.free + 1 \in -MaxOver .. Size /\ Succ(fifo, fifo.q) \in 0 .. Size - 1
        /\ fifo' = [fifo EXCEPT !.q = Succ(fifo, fifo.q), !.free = fifo.free + 1]
    BY <2>1, <2>2 DEF FifoGet, Succ
  <2>4. fifo' \in Queues
    BY <2>3, <1>1 DEF Queues
  <2> QED BY <2>1, <2>4, <1>1 DEF IInv, TypeOK, QueueInv, RoomInv, GrowInv, WakeIsComing,
                                  ActiveIsListed, Listed
<1>3. CASE Sleep
  <2>1. FifoStatus(fifo) = 0 /\ UNCHANGED fifo
    BY <1>3 DEF Sleep
  <2>2. CASE flags = Active
    <3>1. flags' = Asleep /\ tl' = LevelRemove(tl, Console)
      BY <1>3, <2>2 DEF Sleep
    <3>2. tl' \in Levels /\ tl'.now = 0 /\ tl'.running = tl.running - 1
      BY <3>1, <1>1, RemoveDrops DEF Listed
    <3> QED BY <2>1, <3>1, <3>2, <1>1
            DEF IInv, TypeOK, QueueInv, RoomInv, GrowInv, WakeIsComing, ActiveIsListed,
                Levels, Asleep, Active
  <2>3. CASE flags # Active
    <3>1. UNCHANGED <<flags, tl>>
      BY <1>3, <2>3 DEF Sleep
    <3> QED BY <2>1, <3>1, <1>1 DEF IInv, TypeOK, QueueInv, RoomInv, GrowInv, WakeIsComing,
                                    ActiveIsListed, Listed
  <2> QED BY <2>2, <2>3
<1> QED BY <1>2, <1>3

\* Every step, and stuttering.
LEMMA NextIInv == IInv /\ [Next]_vars => IInv'
<1> SUFFICES ASSUME IInv, [Next]_vars PROVE IInv'
  OBVIOUS
<1>1. CASE HariMain
  BY <1>1, CallIInv, DataStepsIInv, WakeStepsIInv DEF HariMain, Continue
<1>2. CASE (\E d \in Data : HandlerPut(d)) \/ Take \/ Sleep
  BY <1>2, HandlerIInv, ConsoleIInv
<1>3. CASE UNCHANGED vars
  BY <1>3 DEF vars, IInv, TypeOK, QueueInv, RoomInv, GrowInv, WakeIsComing, ActiveIsListed, Listed
<1> QED BY <1>1, <1>2, <1>3 DEF Next

-----------------------------------------------------------------------------
(* What follows. *)

\* The invariant, for every interleaving of fifo32_put with the interrupt.
THEOREM Invariance == Spec => []IInv
<1>1. Init => IInv
  BY InitIInv
<1>2. IInv /\ [Next]_vars => IInv'
  BY NextIInv
<1> QED BY <1>1, <1>2, PTL DEF Spec

\* The fields of the queue and of the level keep their ranges, although the
\* interrupt changes them between the statements of fifo32_put and task_add.
THEOREM TypeCorrect == Spec => []TypeOK
<1>1. IInv => TypeOK
  BY DEF IInv
<1> QED BY <1>1, Invariance, PTL

\* However HariMain and the interrupt race to wake it, a console with data in its
\* queue has its turns, or HariMain is still in the put that wakes it.
THEOREM WakeComes == Spec => []WakeIsComing
<1>1. IInv => WakeIsComing
  BY DEF IInv
<1> QED BY <1>1, Invariance, PTL

\* At every statement, a task that others see active is one the scheduler finds:
\* task_add sets flags last, and races only add entries.
THEOREM ListedWhileActive == Spec => []ActiveIsListed
<1>1. IInv => ActiveIsListed
  BY DEF IInv
<1> QED BY <1>1, Invariance, PTL
=============================================================================
