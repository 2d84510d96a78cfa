-------------------------- MODULE SchedulerProofs --------------------------
(***************************************************************************)
(* The invariants of Scheduler hold for every number of consoles, levels   *)
(* and array entries that satisfies the module's assumptions.              *)
(*                                                                         *)
(* Core(c) says what a taskctl must satisfy whoever runs; the lemmas show  *)
(* that each operation of mtask.c preserves it and what else it does.  The *)
(* inductive invariant IInv adds the relation to the running task.         *)
(***************************************************************************)
EXTENDS Scheduler, KernelLemmas

CtlType == [now_lv : Levels, lv_change : {0, 1}, lv : [Levels -> LevelType],
            flags : [Tasks -> {Free, Asleep, Active}],
            level : [Tasks -> Levels], priority : [Tasks -> 0 .. 2]]

\* The active tasks of level l.
ActiveAt(c, l) == {t \in Tasks : c.flags[t] = Active /\ c.level[t] = l}

\* A level's window is made of its active tasks, and now is in the window; of
\* an empty level now is 0, but for level 0, which is never used again after
\* boot and of which task_switch may have moved now past the end.
QueueOK(c, l) == /\ Window(c.lv[l]) = ActiveAt(c, l)
                 /\ Distinct(c.lv[l])
                 /\ c.lv[l].running > 0 => c.lv[l].now < c.lv[l].running
                 /\ c.lv[l].running = 0 => (l = 0 \/ c.lv[l].now = 0)

\* Every task keeps to its levels.
Homes(c) == /\ c.flags[Idle] = Active /\ c.level[Idle] = LastLevel
            /\ c.level[TaskA] \in {0, 1}
            /\ \A t \in Consoles : c.flags[t] # Free => c.level[t] = ConsoleLevel

Core(c) == /\ c \in CtlType
           /\ \A l \in Levels : QueueOK(c, l)
           /\ Homes(c)

USE DEF Free, Asleep, Active, ConsoleLevel

\* The levels in use exist, and a level has an entry 0.
LEMMA Sizes ==
  /\ 0 \in Levels /\ 1 \in Levels /\ 2 \in Levels /\ LastLevel \in Levels
  /\ LastLevel > 2 /\ LastLevel \in Nat /\ Levels \subseteq Nat
  /\ 0 \in Slots /\ Slots = 0 .. MaxPerLevel - 1 /\ MaxPerLevel \in Nat \ {0}
  BY LevelAssumption, RoomAssumption DEF Levels, Slots

\* The fields of a taskctl, one by one.
LEMMA CtlFields ==
  ASSUME NEW c \in CtlType
  PROVE  /\ c.now_lv \in Levels /\ c.lv_change \in {0, 1}
         /\ c.lv \in [Levels -> LevelType]
         /\ c.flags \in [Tasks -> {Free, Asleep, Active}]
         /\ c.level \in [Tasks -> Levels] /\ c.priority \in [Tasks -> 0 .. 2]
  BY DEF CtlType

\* The fields of a level, one by one.
LEMMA LevelFields ==
  ASSUME NEW tl \in LevelType
  PROVE  /\ tl \in LevelRecords(MaxPerLevel, Tasks \cup {NoEntry})
         /\ tl.running \in 0 .. MaxPerLevel /\ tl.now \in 0 .. MaxPerLevel
         /\ tl.tasks \in [Slots -> Tasks \cup {NoEntry}]
  BY Sizes DEF LevelType, LevelRecords

-----------------------------------------------------------------------------
(* task_add and task_remove. *)

\* A task that comes on a level finds room there.
LEMMA RoomFor ==
  ASSUME NEW c, Core(c), NEW t \in Tasks, c.flags[t] # Active,
         \/ t = TaskA /\ c.level[t] = 1
         \/ t \in Consoles /\ c.level[t] = ConsoleLevel
  PROVE  /\ t \notin Window(c.lv[c.level[t]])
         /\ c.lv[c.level[t]].running < MaxPerLevel
<1> DEFINE l == c.level[t]
           tl == c.lv[l]
<1>1. /\ l \in Levels /\ tl \in LevelType /\ Window(tl) = ActiveAt(c, l) /\ Distinct(tl)
      /\ Homes(c)
  BY Sizes, CtlFields DEF Core, QueueOK
<1>2. t \notin Window(tl)
  BY <1>1 DEF ActiveAt
<1>3. tl \in LevelRecords(MaxPerLevel, Tasks \cup {NoEntry}) /\ tl.running \in Nat
  <2>1. tl \in LevelType
    BY <1>1
  <2> HIDE DEF tl
  <2>2. tl \in LevelRecords(MaxPerLevel, Tasks \cup {NoEntry})
    BY <2>1 DEF LevelType
  <2>3. tl.running \in 0 .. MaxPerLevel
    BY <2>1, LevelFields
  <2> QED BY <2>2, <2>3
<1>4. CASE t = TaskA /\ l = 1
  <2>1. Window(tl) \subseteq {}
    BY <1>1, <1>2, <1>4, Sizes DEF ActiveAt, Homes, Tasks
  <2>2. IsFiniteSet({}) /\ Cardinality({}) = 0
    BY FS_EmptySet
  <2>3. tl.running <= Cardinality({})
    <3> HIDE DEF tl
    <3> QED BY <1>1, <1>3, <2>1, <2>2, WindowFits, Sizes
  <2> QED BY <1>2, <1>3, <2>2, <2>3, Sizes
<1>5. CASE t \in Consoles /\ l = ConsoleLevel
  <2>1. Window(tl) \subseteq Consoles \ {t}
    BY <1>1, <1>2, <1>5, Sizes DEF ActiveAt, Homes, Tasks
  <2>2. /\ IsFiniteSet(Consoles \ {t}) /\ Cardinality(Consoles \ {t}) = Cardinality(Consoles) - 1
        /\ Cardinality(Consoles) \in Nat
    BY <1>5, RoomAssumption, FS_RemoveElement, FS_CardinalityType
  <2>3. tl.running <= Cardinality(Consoles \ {t})
    <3> DEFINE S == Consoles \ {t}
    <3>1. IsFiniteSet(S) /\ Window(tl) \subseteq S
      BY <2>1, <2>2
    <3> HIDE DEF tl, S
    <3>2. tl.running <= Cardinality(S)
      BY <1>1, <1>3, <3>1, WindowFits, Sizes
    <3> QED BY <3>2 DEF S
  <2> QED BY <1>2, <1>3, <2>2, <2>3, RoomAssumption
<1> QED BY <1>4, <1>5

\* task_add keeps Core, and whose turn it is on every level that had a task.
LEMMA AddCore ==
  ASSUME NEW c, Core(c), NEW t \in Tasks, c.flags[t] # Active,
         \/ t = TaskA /\ c.level[t] = 1
         \/ t \in Consoles /\ c.level[t] = ConsoleLevel
  PROVE  LET d == TaskAdd(c, t) IN
         /\ Core(d)
         /\ d.now_lv = c.now_lv /\ d.lv_change = c.lv_change
         /\ d.level = c.level /\ d.priority = c.priority
         /\ d.flags = [c.flags EXCEPT ![t] = Active]
         /\ \A l \in Levels : l # c.level[t] => d.lv[l] = c.lv[l]
         /\ \A l \in Levels : c.lv[l].running > 0 =>
               /\ d.lv[l].running > 0 /\ d.lv[l].now = c.lv[l].now
               /\ d.lv[l].tasks[d.lv[l].now] = c.lv[l].tasks[c.lv[l].now]
<1> DEFINE d == TaskAdd(c, t)
           k == c.level[t]
           tl == c.lv[k]
           a == LevelAdd(tl, t)
<1>0. /\ c \in CtlType /\ Homes(c) /\ \A l \in Levels : QueueOK(c, l)
      /\ k \in Levels /\ k # 0 /\ tl \in LevelType
  BY Sizes, CtlFields DEF Core
<1>1. /\ tl \in LevelRecords(MaxPerLevel, Tasks \cup {NoEntry}) /\ Distinct(tl)
      /\ t \notin Window(tl) /\ tl.running < MaxPerLevel
  BY <1>0, LevelFields, RoomFor DEF QueueOK
<1>2. /\ a \in LevelType
      /\ a.running = tl.running + 1 /\ a.now = tl.now
      /\ \A i \in 0 .. tl.running - 1 : a.tasks[i] = tl.tasks[i]
      /\ Window(a) = Window(tl) \cup {t} /\ Distinct(a)
  <2> HIDE DEF tl, a
  <2>1. MaxPerLevel \in Nat /\ t \in Tasks \cup {NoEntry}
    BY Sizes
  <2> QED BY <1>1, <2>1, AddFacts DEF a, LevelType
<1>3. /\ d = [c EXCEPT !.lv[k] = a, !.flags[t] = Active]
  BY DEF TaskAdd
<1> HIDE DEF a
<1>4. [c.lv EXCEPT ![k] = a] \in [Levels -> LevelType]
      /\ [c.flags EXCEPT ![t] = Active] \in [Tasks -> {Free, Asleep, Active}]
  BY <1>0, <1>2, CtlFields
<1>5. d \in CtlType
  BY <1>0, <1>3, <1>4 DEF CtlType
<1>6. /\ d.now_lv = c.now_lv /\ d.lv_change = c.lv_change
      /\ d.level = c.level /\ d.priority = c.priority
      /\ d.flags = [c.flags EXCEPT ![t] = Active]
      /\ d.lv = [c.lv EXCEPT ![k] = a]
  BY <1>0, <1>3 DEF CtlType
<1> HIDE DEF d
<1>7. /\ d.lv[k] = a /\ \A l \in Levels : l # k => d.lv[l] = c.lv[l]
      /\ d.flags[t] = Active /\ \A u \in Tasks : u # t => d.flags[u] = c.flags[u]
  BY <1>0, <1>6, CtlFields
<1>8. ASSUME NEW l \in Levels
      PROVE  QueueOK(d, l)
  <2>1. CASE l # k
    <3>1. ActiveAt(d, l) = ActiveAt(c, l)
      BY <2>1, <1>6, <1>7 DEF ActiveAt
    <3> QED BY <2>1, <3>1, <1>0, <1>7 DEF QueueOK
  <2>2. CASE l = k
    <3>1. ActiveAt(d, l) = ActiveAt(c, l) \cup {t}
      BY <2>2, <1>6, <1>7 DEF ActiveAt
    <3>2. Window(d.lv[l]) = ActiveAt(d, l) /\ Distinct(d.lv[l])
      BY <2>2, <3>1, <1>0, <1>2, <1>7 DEF QueueOK
    <3>3. /\ d.lv[l].running = tl.running + 1 /\ d.lv[l].now = tl.now
          /\ tl.running \in Nat /\ tl.now \in Nat
      BY <2>2, <1>0, <1>2, <1>7, LevelFields, Sizes
    <3>4. d.lv[l].now < d.lv[l].running
      BY <3>3, <1>0 DEF QueueOK
    <3> QED BY <3>2, <3>3, <3>4 DEF QueueOK
  <2> QED BY <2>1, <2>2
<1>9. Homes(d)
  BY <1>0, <1>6, <1>7, TaskAssumption DEF Homes, Tasks
<1>10. ASSUME NEW l \in Levels, c.lv[l].running > 0
       PROVE  /\ d.lv[l].running > 0 /\ d.lv[l].now = c.lv[l].now
              /\ d.lv[l].tasks[d.lv[l].now] = c.lv[l].tasks[c.lv[l].now]
  <2>1. CASE l # k
    BY <2>1, <1>7, <1>10
  <2>2. CASE l = k
    <3>1. tl.now \in 0 .. tl.running - 1 /\ tl.running \in Nat
      BY <2>2, <1>0, <1>10, LevelFields DEF QueueOK
    <3> QED BY <2>2, <3>1, <1>2, <1>7
  <2> QED BY <2>1, <2>2
<1> QED BY <1>5, <1>6, <1>7, <1>8, <1>9, <1>10 DEF Core, d

\* task_remove keeps Core, and whose turn it is if it is not that of the task
\* removed; an array of one entry keeps it as a stale pointer at index 0.
LEMMA RemoveCore ==
  ASSUME NEW c, Core(c), NEW t \in Tasks \ {Idle}, c.flags[t] = Active
  PROVE  LET d == TaskRemove(c, t)
             k == c.level[t]
         IN
         /\ Core(d)
         /\ d.now_lv = c.now_lv /\ d.lv_change = c.lv_change
         /\ d.level = c.level /\ d.priority = c.priority
         /\ d.flags = [c.flags EXCEPT ![t] = Asleep]
         /\ \A l \in Levels : l # k => d.lv[l] = c.lv[l]
         /\ k \in Levels /\ d.lv[k].running = c.lv[k].running - 1
         /\ c.lv[k].tasks[c.lv[k].now] # t =>
              d.lv[k].tasks[d.lv[k].now] = c.lv[k].tasks[c.lv[k].now]
         /\ c.lv[k].running = 1 =>
              d.lv[k].now = 0 /\ d.lv[k].tasks = c.lv[k].tasks
<1> DEFINE d == TaskRemove(c, t)
           k == c.level[t]
           tl == c.lv[k]
           b == LevelRemove(tl, t)
<1>0. /\ c \in CtlType /\ Homes(c) /\ \A l \in Levels : QueueOK(c, l)
      /\ k \in Levels /\ tl \in LevelType
  BY Sizes, CtlFields DEF Core
<1>1. /\ tl \in LevelRecords(MaxPerLevel, Tasks \cup {NoEntry}) /\ Distinct(tl)
      /\ t \in Window(tl) /\ tl.running \in 0 .. MaxPerLevel
      /\ tl.running > 0 => tl.now < tl.running
  <2>1. t \in Window(tl)
    BY <1>0 DEF QueueOK, ActiveAt
  <2> QED BY <1>0, <2>1, LevelFields DEF QueueOK
<1>2. tl.running > 0
  BY <1>1, Sizes DEF Window
<1>3. /\ b \in LevelType /\ b.running = tl.running - 1
      /\ Window(b) = Window(tl) \ {t} /\ Distinct(b)
      /\ b.running > 0 => b.now < b.running
      /\ b.running = 0 => b.now = 0
      /\ tl.tasks[tl.now] # t => b.tasks[b.now] = tl.tasks[tl.now]
      /\ tl.running = 1 => b.tasks = tl.tasks
  <2> HIDE DEF tl
  <2>1. MaxPerLevel \in Nat /\ tl.now < tl.running
    BY <1>1, <1>2, Sizes
  <2>2. /\ b \in LevelType /\ b.running = tl.running - 1
        /\ Window(b) = Window(tl) \ {t} /\ Distinct(b)
        /\ \/ b.running > b.now
           \/ b.running = 0 /\ b.now = 0
        /\ tl.tasks[tl.now] # t => b.tasks[b.now] = tl.tasks[tl.now]
        /\ tl.running = 1 => b.tasks = tl.tasks
    BY <1>1, <2>1, RemoveFacts DEF LevelType
  <2>3. b.running \in Nat /\ b.now \in Nat
    <3> HIDE DEF b
    <3> QED BY <2>2, LevelFields, Sizes
  <2> QED BY <2>2, <2>3
<1>4. d = [c EXCEPT !.lv[k] = b, !.flags[t] = Asleep]
  BY DEF TaskRemove
<1> HIDE DEF b
<1>5. [c.lv EXCEPT ![k] = b] \in [Levels -> LevelType]
      /\ [c.flags EXCEPT ![t] = Asleep] \in [Tasks -> {Free, Asleep, Active}]
  BY <1>0, <1>3, CtlFields
<1>6. d \in CtlType
  BY <1>0, <1>4, <1>5 DEF CtlType
<1>7. /\ d.now_lv = c.now_lv /\ d.lv_change = c.lv_change
      /\ d.level = c.level /\ d.priority = c.priority
      /\ d.flags = [c.flags EXCEPT ![t] = Asleep]
      /\ d.lv = [c.lv EXCEPT ![k] = b]
  BY <1>0, <1>4 DEF CtlType
<1> HIDE DEF d
<1>8. /\ d.lv[k] = b /\ \A l \in Levels : l # k => d.lv[l] = c.lv[l]
      /\ d.flags[t] = Asleep /\ \A u \in Tasks : u # t => d.flags[u] = c.flags[u]
  BY <1>0, <1>7, CtlFields
<1>9. ASSUME NEW l \in Levels
      PROVE  QueueOK(d, l)
  <2>1. CASE l # k
    <3>1. ActiveAt(d, l) = ActiveAt(c, l)
      BY <2>1, <1>7, <1>8 DEF ActiveAt
    <3> QED BY <2>1, <3>1, <1>0, <1>8 DEF QueueOK
  <2>2. CASE l = k
    <3>1. ActiveAt(d, l) = ActiveAt(c, l) \ {t}
      BY <2>2, <1>7, <1>8 DEF ActiveAt
    <3> QED BY <2>2, <3>1, <1>0, <1>3, <1>8 DEF QueueOK
  <2> QED BY <2>1, <2>2
<1>10. Homes(d)
  BY <1>0, <1>7, <1>8, TaskAssumption DEF Homes, Tasks
<1> QED BY <1>0, <1>3, <1>6, <1>7, <1>8, <1>9, <1>10 DEF Core, d

-----------------------------------------------------------------------------
(* task_switchsub. *)

\* A task of a level is active, of that level, and not Idle unless it is the
\* last one.
LEMMA TurnIsActive ==
  ASSUME NEW c, Core(c), NEW l \in Levels, c.lv[l].running > 0
  PROVE  LET t == c.lv[l].tasks[c.lv[l].now]
         IN  t \in Tasks /\ c.flags[t] = Active /\ c.level[t] = l
<1> DEFINE tl == c.lv[l]
<1>1. QueueOK(c, l) /\ tl \in LevelType
  BY CtlFields DEF Core
<1>2. tl.now \in 0 .. tl.running - 1
  <2> HIDE DEF tl
  <2>1. tl.now \in Nat /\ tl.running \in Nat
    BY <1>1, LevelFields, Sizes
  <2>2. tl.now < tl.running
    BY <1>1 DEF QueueOK, tl
  <2> QED BY <2>1, <2>2
<1>3. tl.tasks[tl.now] \in ActiveAt(c, l)
  BY <1>1, <1>2 DEF QueueOK, Window
<1> QED BY <1>3 DEF ActiveAt

\* Only four levels are ever used, so there is a first one with a task.
LEMMA TopExists ==
  ASSUME NEW c, Core(c)
  PROVE  \E l \in Levels : IsTopLevel(c, l)
<1>1. /\ DOMAIN c.lv = Levels /\ \A l \in Levels : c.lv[l] \in LevelType
      /\ \A l \in Levels : c.lv[l].running \in Nat
  BY CtlFields, LevelFields, Sizes DEF Core
<1>2. \A l \in Levels : c.lv[l].running > 0 => l \in {0, 1, 2, LastLevel}
  <2> SUFFICES ASSUME NEW l \in Levels, c.lv[l].running > 0
               PROVE  l \in {0, 1, 2, LastLevel}
    OBVIOUS
  <2>1. PICK t \in Tasks : c.flags[t] = Active /\ c.level[t] = l
    BY TurnIsActive
  <2> QED BY <2>1 DEF Core, Homes, Tasks
<1>3. c.lv[LastLevel].running > 0
  <2>1. Idle \in Window(c.lv[LastLevel])
    BY Sizes DEF Core, Homes, QueueOK, ActiveAt, Tasks
  <2> QED BY <2>1, <1>1, Sizes DEF Window
<1>4. CASE c.lv[0].running > 0
  <2>1. \A j \in Levels : ~(j < 0)
    BY Sizes
  <2>2. IsTopLevel(c, 0)
    BY <1>4, <2>1, <1>1 DEF IsTopLevel
  <2> QED BY <2>2, Sizes
<1>5. CASE c.lv[0].running = 0 /\ c.lv[1].running > 0
  <2>1. \A j \in Levels : j < 1 => j = 0
    BY Sizes
  <2>2. IsTopLevel(c, 1)
    BY <1>5, <2>1, <1>1 DEF IsTopLevel
  <2> QED BY <2>2, Sizes
<1>6. CASE c.lv[0].running = 0 /\ c.lv[1].running = 0 /\ c.lv[2].running > 0
  <2>1. \A j \in Levels : j < 2 => j \in {0, 1}
    BY Sizes
  <2>2. IsTopLevel(c, 2)
    BY <1>6, <2>1, <1>1 DEF IsTopLevel
  <2> QED BY <2>2, Sizes
<1>7. CASE c.lv[0].running = 0 /\ c.lv[1].running = 0 /\ c.lv[2].running = 0
  BY <1>7, <1>1, <1>2, <1>3, Sizes DEF IsTopLevel
<1> QED BY <1>1, <1>4, <1>5, <1>6, <1>7, Sizes

\* task_switchsub finds the first level with a task; the task whose turn it is
\* there is active.
LEMMA SwitchSubCore ==
  ASSUME NEW c, Core(c)
  PROVE  LET d == SwitchSub(c) IN
         /\ Core(d)
         /\ d.lv = c.lv /\ d.flags = c.flags /\ d.level = c.level
         /\ d.priority = c.priority /\ d.lv_change = 0
         /\ d.now_lv \in Levels
         /\ IsTopLevel(d, d.now_lv)
         /\ TaskNow(d) \in Tasks /\ d.flags[TaskNow(d)] = Active
         /\ d.level[TaskNow(d)] = d.now_lv
<1> DEFINE d == SwitchSub(c)
           m == CHOOSE l \in DOMAIN c.lv : IsTopLevel(c, l)
<1>1. c \in CtlType /\ DOMAIN c.lv = Levels
  BY CtlFields DEF Core
<1>2. m \in Levels /\ IsTopLevel(c, m)
  <2>1. \E l \in DOMAIN c.lv : IsTopLevel(c, l)
    BY <1>1, TopExists
  <2> QED BY <2>1, <1>1
<1>3. d = [c EXCEPT !.now_lv = m, !.lv_change = 0]
  BY DEF SwitchSub
<1> HIDE DEF m
<1>4. /\ d \in CtlType /\ d.now_lv = m /\ d.lv_change = 0
      /\ d.lv = c.lv /\ d.flags = c.flags /\ d.level = c.level /\ d.priority = c.priority
  BY <1>1, <1>2, <1>3 DEF CtlType
<1> HIDE DEF d
<1>5. Core(d)
  BY <1>4 DEF Core, QueueOK, ActiveAt, Homes
<1>6. IsTopLevel(d, m)
  BY <1>2, <1>4 DEF IsTopLevel
<1>7. TaskNow(d) \in Tasks /\ d.flags[TaskNow(d)] = Active /\ d.level[TaskNow(d)] = m
  BY <1>2, <1>4, <1>5, <1>6, TurnIsActive DEF TaskNow, IsTopLevel
<1> QED BY <1>2, <1>4, <1>5, <1>6, <1>7 DEF d

-----------------------------------------------------------------------------
(* The inductive invariant. *)

\* x runs, and it is the task whose turn it is on the current level; or TaskA
\* has just demoted itself and is found through the stale entry of level 0.
Current(c, x) ==
    /\ TaskNow(c) = x /\ c.flags[x] = Active
    /\ \/ c.lv[c.now_lv].running > 0
       \/ /\ x = TaskA /\ c.level[TaskA] = 1 /\ c.lv_change = 1
          /\ c.now_lv = 0 /\ c.lv[0].running = 0 /\ c.lv[0].now = 0

\* Until TaskA demotes itself there is nobody but it and Idle.
BootPhase(c, x) ==
    /\ c.flags[TaskA] # Free
    /\ c.level[TaskA] = 0 => /\ c.flags[TaskA] = Active /\ x = TaskA /\ c.now_lv = 0
                             /\ \A t \in Consoles : c.flags[t] = Free

\* A task that was ever run has a slice to give to task_timer.
HasSlice(c) == \A t \in Tasks : c.flags[t] # Free => c.priority[t] \in 1 .. 2

Top(c) == c.lv_change = 0 => IsTopLevel(c, c.now_lv)

Inv(c, x) == Core(c) /\ Current(c, x) /\ BootPhase(c, x) /\ HasSlice(c) /\ Top(c)

IInv == /\ Inv(ctl, cpu)
        /\ cpu \in Tasks
        /\ slice \in 1 .. 2
        /\ leaving \subseteq Consoles

\* The end of task_run: the priority, and lv_change.
Marked(e, t, pr) == [e EXCEPT !.priority[t] = pr, !.lv_change = 1]

OnlyMarks(e, d, t, pr) ==
    /\ d.lv = e.lv /\ d.flags = e.flags /\ d.level = e.level /\ d.now_lv = e.now_lv
    /\ d.lv_change = 1
    /\ \A u \in Tasks : d.priority[u] = IF u = t THEN pr ELSE e.priority[u]

\* Setting the priority and lv_change keeps Core.
LEMMA MarkCore ==
  ASSUME NEW e, Core(e), NEW t \in Tasks, NEW pr \in 0 .. 2
  PROVE  Core(Marked(e, t, pr)) /\ OnlyMarks(e, Marked(e, t, pr), t, pr)
<1> DEFINE d == Marked(e, t, pr)
<1>1. e \in CtlType /\ [e.priority EXCEPT ![t] = pr] \in [Tasks -> 0 .. 2]
  BY CtlFields DEF Core
<1>2. /\ d \in CtlType
      /\ d.lv = e.lv /\ d.flags = e.flags /\ d.level = e.level /\ d.now_lv = e.now_lv
      /\ d.lv_change = 1 /\ d.priority = [e.priority EXCEPT ![t] = pr]
  BY <1>1 DEF CtlType, Marked
<1> HIDE DEF d
<1>3. Core(d)
  BY <1>2 DEF Core, QueueOK, ActiveAt, Homes
<1>4. \A u \in Tasks : d.priority[u] = IF u = t THEN pr ELSE e.priority[u]
  BY <1>1, <1>2, CtlFields
<1> QED BY <1>2, <1>3, <1>4 DEF d, OnlyMarks

\* e is c with the flags f and the level l for the task t.
Places(c, e, t, f, l) ==
    /\ e \in CtlType
    /\ e.lv = c.lv /\ e.now_lv = c.now_lv /\ e.lv_change = c.lv_change
    /\ e.priority = c.priority
    /\ e.flags = [c.flags EXCEPT ![t] = f]
    /\ e.level = [c.level EXCEPT ![t] = l]

\* A task that is in no queue may change its level or be freed.
LEMMA PlaceCore ==
  ASSUME NEW c, Core(c), NEW t \in Tasks, c.flags[t] # Active,
         NEW f \in {Free, Asleep}, NEW l \in Levels,
         \/ t = TaskA /\ l = 1
         \/ t \in Consoles /\ l = ConsoleLevel,
         NEW e, Places(c, e, t, f, l)
  PROVE  Core(e) /\ e.flags[t] # Active /\ e.level[t] = l
<1>1. /\ Homes(c) /\ \A k \in Levels : QueueOK(c, k)
      /\ c.flags \in [Tasks -> {Free, Asleep, Active}] /\ c.level \in [Tasks -> Levels]
  BY CtlFields DEF Core
<1>2. \A k \in Levels : ActiveAt(e, k) = ActiveAt(c, k)
  BY <1>1 DEF ActiveAt, Places
<1>3. Homes(e)
  BY <1>1, TaskAssumption DEF Homes, Tasks, Places
<1>4. \A k \in Levels : QueueOK(e, k)
  BY <1>1, <1>2 DEF QueueOK, Places
<1>5. e.flags[t] # Active /\ e.level[t] = l
  BY <1>1 DEF Places
<1> QED BY <1>3, <1>4, <1>5 DEF Core, Places

\* Queueing a task that sleeps, on the level l, keeps the invariant.
LEMMA RunAsleep ==
  ASSUME NEW c, NEW x \in Tasks, NEW t \in Tasks, NEW l \in Levels, NEW pr \in 1 .. 2,
         Inv(c, x), c.flags[t] # Active, c.level[TaskA] # 0,
         \/ t = TaskA /\ l = 1
         \/ t \in Consoles /\ l = ConsoleLevel,
         NEW e, Places(c, e, t, Asleep, l)
  PROVE  Inv(Marked(TaskAdd(e, t), t, pr), x)
<1> DEFINE a == TaskAdd(e, t)
           d == Marked(a, t, pr)
<1>1. /\ Core(c) /\ c \in CtlType /\ Homes(c) /\ \A k \in Levels : QueueOK(c, k)
      /\ c.flags \in [Tasks -> {Free, Asleep, Active}] /\ c.level \in [Tasks -> Levels]
  BY CtlFields DEF Inv, Core
<1>5. Core(e) /\ e.flags[t] # Active /\ e.level[t] = l
  BY <1>1, PlaceCore
<1>6. /\ Core(a)
      /\ a.now_lv = c.now_lv /\ a.lv_change = c.lv_change
      /\ a.level = e.level /\ a.priority = c.priority
      /\ a.flags = [e.flags EXCEPT ![t] = Active]
      /\ \A k \in Levels : k # l => a.lv[k] = c.lv[k]
      /\ \A k \in Levels : c.lv[k].running > 0 =>
            /\ a.lv[k].running > 0 /\ a.lv[k].now = c.lv[k].now
            /\ a.lv[k].tasks[a.lv[k].now] = c.lv[k].tasks[c.lv[k].now]
  <2>1. \/ t = TaskA /\ e.level[t] = 1
        \/ t \in Consoles /\ e.level[t] = ConsoleLevel
    BY <1>5
  <2>2. /\ Core(a)
        /\ a.now_lv = e.now_lv /\ a.lv_change = e.lv_change
        /\ a.level = e.level /\ a.priority = e.priority
        /\ a.flags = [e.flags EXCEPT ![t] = Active]
        /\ \A k \in Levels : k # e.level[t] => a.lv[k] = e.lv[k]
        /\ \A k \in Levels : e.lv[k].running > 0 =>
              /\ a.lv[k].running > 0 /\ a.lv[k].now = e.lv[k].now
              /\ a.lv[k].tasks[a.lv[k].now] = e.lv[k].tasks[e.lv[k].now]
    BY <1>5, <2>1, AddCore
  <2> HIDE DEF a
  <2> QED BY <1>5, <2>2 DEF Places
<1> HIDE DEF a
<1>7. Core(d) /\ OnlyMarks(a, d, t, pr)
  <2>1. Core(a) /\ pr \in 0 .. 2
    BY <1>6
  <2> QED BY <2>1, MarkCore
<1> HIDE DEF d
<1>8. /\ \A u \in Tasks : u # t => d.flags[u] = c.flags[u] /\ d.level[u] = c.level[u]
      /\ d.flags[t] = Active /\ d.level[t] = l
  BY <1>1, <1>6, <1>7 DEF OnlyMarks, Places
<1>9. Current(d, x)
  <2>1. d.flags[x] = Active
    BY <1>8 DEF Inv, Current
  <2>2. CASE c.lv[c.now_lv].running > 0
    <3>1. c.now_lv \in Levels
      BY <1>1, CtlFields
    <3> QED BY <2>1, <2>2, <3>1, <1>6, <1>7 DEF OnlyMarks, Inv, Current, TaskNow
  <2>3. CASE ~(c.lv[c.now_lv].running > 0)
    <3>1. /\ x = TaskA /\ c.level[TaskA] = 1 /\ c.now_lv = 0 /\ c.lv[0].running = 0
          /\ c.lv[0].now = 0 /\ c.flags[TaskA] = Active
      BY <2>3 DEF Inv, Current
    <3>2. d.lv[0] = c.lv[0] /\ d.now_lv = 0
      BY <3>1, <1>6, <1>7, Sizes DEF OnlyMarks
    <3>3. TaskNow(d) = x
      BY <3>1, <3>2 DEF Inv, Current, TaskNow
    <3>4. d.level[TaskA] = 1
      BY <3>1, <1>8, TaskAssumption DEF Tasks
    <3> QED BY <2>1, <3>1, <3>2, <3>3, <3>4, <1>7 DEF OnlyMarks, Current
  <2> QED BY <2>2, <2>3
<1>10. BootPhase(d, x)
  BY <1>8, TaskAssumption DEF Inv, BootPhase, Tasks
<1>11. HasSlice(d)
  BY <1>6, <1>7, <1>8 DEF OnlyMarks, Inv, HasSlice
<1> QED BY <1>7, <1>9, <1>10, <1>11 DEF OnlyMarks, Inv, Top, d, a

\* Of an active task task_run only sets the priority and lv_change.
LEMMA RunAwake ==
  ASSUME NEW c, NEW x \in Tasks, NEW t \in Tasks, NEW pr \in 1 .. 2, Inv(c, x)
  PROVE  Inv(Marked(c, t, pr), x)
<1> DEFINE d == Marked(c, t, pr)
<1>1. Core(d) /\ OnlyMarks(c, d, t, pr)
  <2>1. Core(c) /\ pr \in 0 .. 2
    BY DEF Inv
  <2> QED BY <2>1, MarkCore
<1> HIDE DEF d
<1>2. Current(d, x)
  BY <1>1 DEF Inv, Current, TaskNow, OnlyMarks
<1>3. BootPhase(d, x) /\ HasSlice(d) /\ Top(d)
  BY <1>1 DEF Inv, BootPhase, HasSlice, Top, OnlyMarks
<1> QED BY <1>1, <1>2, <1>3 DEF Inv, d

\* task_run(t, -1, 0).
LEMMA RunSame ==
  ASSUME NEW c, NEW x \in Tasks, NEW t \in Tasks, Inv(c, x), c.flags[t] # Free,
         c.level[TaskA] # 0, t # Idle
  PROVE  Inv(TaskRun(c, t, Same, 0), x)
<1>1. /\ Core(c) /\ c \in CtlType /\ Homes(c) /\ c.level \in [Tasks -> Levels]
      /\ c.flags \in [Tasks -> {Free, Asleep, Active}] /\ c.priority[t] \in 1 .. 2
  BY CtlFields DEF Inv, Core, HasSlice
<1>2. TaskRun(c, t, Same, 0) = Marked(Requeued(c, t, c.level[t]), t, c.priority[t])
  BY DEF TaskRun, Marked, Same
<1>3. CASE c.flags[t] = Active
  <2>1. Requeued(c, t, c.level[t]) = c
    BY <1>3 DEF Requeued
  <2> QED BY <1>1, <1>2, <2>1, RunAwake
<1>4. CASE c.flags[t] # Active
  <2> DEFINE e == [c EXCEPT !.level[t] = c.level[t]]
  <2>1. Requeued(c, t, c.level[t]) = TaskAdd(e, t)
    BY <1>4 DEF Requeued
  <2>2. Places(c, e, t, Asleep, c.level[t])
    BY <1>1, <1>4 DEF CtlType, Places
  <2>3. /\ c.level[t] \in Levels
        /\ \/ t = TaskA /\ c.level[t] = 1
           \/ t \in Consoles /\ c.level[t] = ConsoleLevel
    BY <1>1, TaskAssumption DEF Homes, Tasks
  <2> HIDE DEF e
  <2> QED BY <1>1, <1>2, <1>4, <2>1, <2>2, <2>3, RunAsleep
<1> QED BY <1>3, <1>4

\* open_constask's task_run(task, 2, 2).
LEMMA RunNew ==
  ASSUME NEW c, NEW x \in Tasks, NEW t \in Consoles, Inv(c, x), c.flags[t] = Free,
         c.level[TaskA] # 0
  PROVE  Inv(TaskRun(Allocated(c, t), t, ConsoleLevel, 2), x)
<1> DEFINE b == Allocated(c, t)
           e == [b EXCEPT !.level[t] = ConsoleLevel]
<1>1. /\ c \in CtlType /\ c.level \in [Tasks -> Levels] /\ t \in Tasks
      /\ c.flags \in [Tasks -> {Free, Asleep, Active}]
  BY CtlFields DEF Inv, Core, Tasks
<1>2. b \in CtlType /\ b.flags[t] = Asleep
  BY <1>1 DEF CtlType, Allocated
<1>3. TaskRun(b, t, ConsoleLevel, 2) = Marked(TaskAdd(e, t), t, 2)
  <2> HIDE DEF b
  <2>1. Requeued(b, t, ConsoleLevel) = TaskAdd(e, t)
    BY <1>2 DEF Requeued
  <2>2. TaskRun(b, t, ConsoleLevel, 2) = Marked(Requeued(b, t, ConsoleLevel), t, 2)
    BY DEF TaskRun, Marked
  <2> QED BY <2>1, <2>2
<1>4. Places(c, e, t, Asleep, ConsoleLevel)
  BY <1>1, Sizes DEF CtlType, Places, Allocated
<1> HIDE DEF b, e
<1>5. ConsoleLevel \in Levels /\ 2 \in 1 .. 2
  BY Sizes
<1> QED BY <1>1, <1>3, <1>4, <1>5, RunAsleep DEF b

\* The result d of handing the CPU over to the task y.
HandedTo(d, y) == Inv(d, y) /\ y \in Tasks /\ IsTopLevel(d, d.level[y])

\* task_switchsub on a taskctl that is sound but for whose turn it is.
LEMMA HandOver ==
  ASSUME NEW c, Core(c), HasSlice(c), c.flags[TaskA] # Free,
         c.level[TaskA] = 0 => c.flags[TaskA] = Active /\ \A t \in Consoles : c.flags[t] = Free
  PROVE  HandedTo(SwitchSub(c), TaskNow(SwitchSub(c)))
<1> DEFINE d == SwitchSub(c)
           y == TaskNow(d)
<1>1. /\ Core(d)
      /\ d.lv = c.lv /\ d.flags = c.flags /\ d.level = c.level
      /\ d.priority = c.priority /\ d.lv_change = 0
      /\ d.now_lv \in Levels /\ IsTopLevel(d, d.now_lv)
      /\ y \in Tasks /\ d.flags[y] = Active /\ d.level[y] = d.now_lv
  BY SwitchSubCore
<1> HIDE DEF d
<1>2. Current(d, y)
  BY <1>1 DEF Current, IsTopLevel
<1>3. ASSUME d.level[TaskA] = 0
      PROVE  y = TaskA /\ d.now_lv = 0
  <2>1. /\ Homes(d) /\ QueueOK(d, 0) /\ d.flags[TaskA] = Active /\ TaskA \in Tasks
        /\ d.lv[0] \in LevelType
    BY <1>1, <1>3, Sizes, CtlFields DEF Core, Tasks
  <2>2. TaskA \in Window(d.lv[0])
    BY <2>1, <1>3 DEF QueueOK, ActiveAt
  <2>3. d.lv[0].running > 0 /\ d.lv[0].running \in Nat
    BY <2>1, <2>2, LevelFields, Sizes DEF Window
  <2>4. d.now_lv = 0
    <3>1. d.lv \in [Levels -> LevelType] /\ DOMAIN d.lv = Levels
      BY <1>1, CtlFields DEF Core
    <3>2. ~(0 < d.now_lv)
      BY <1>1, <2>3, <3>1, Sizes DEF IsTopLevel
    <3>3. d.now_lv \in Levels
      BY <1>1
    <3>4. d.now_lv \in Nat
      BY <3>3, Sizes
    <3> QED BY <3>2, <3>4
  <2>5. y \notin Consoles /\ y # Idle
    BY <1>1, <1>3, <2>1, <2>4, Sizes DEF Homes
  <2> QED BY <1>1, <2>4, <2>5 DEF Tasks
<1>4. BootPhase(d, y)
  BY <1>1, <1>3 DEF BootPhase
<1>5. HasSlice(d) /\ Top(d)
  BY <1>1 DEF HasSlice, Top
<1>6. HandedTo(d, y)
  BY <1>1, <1>2, <1>4, <1>5 DEF HandedTo, Inv
<1> QED BY <1>6 DEF d

\* The running task sleeps.
LEMMA SleepSelf ==
  ASSUME NEW c, NEW x \in Tasks \ {Idle}, Inv(c, x), c.level[TaskA] # 0
  PROVE  HandedTo(TaskSleep(c, x), TaskNow(TaskSleep(c, x)))
<1> DEFINE r == TaskRemove(c, x)
<1>1. Core(c) /\ c.flags[x] = Active /\ TaskNow(c) = x /\ c.flags \in [Tasks -> {Free, Asleep, Active}]
  BY CtlFields DEF Inv, Current, Core
<1>2. TaskSleep(c, x) = SwitchSub(r)
  BY <1>1 DEF TaskSleep
<1>3. /\ Core(r) /\ r.level = c.level /\ r.priority = c.priority
      /\ r.flags = [c.flags EXCEPT ![x] = Asleep]
  BY <1>1, RemoveCore
<1> HIDE DEF r
<1>4. HasSlice(r) /\ r.flags[TaskA] # Free /\ r.level[TaskA] # 0
  BY <1>1, <1>3 DEF Inv, HasSlice, BootPhase, Tasks
<1>5. HandedTo(SwitchSub(r), TaskNow(SwitchSub(r)))
  BY <1>3, <1>4, HandOver
<1> QED BY <1>2, <1>5

\* task_switch's step of now keeps Core, and changes nothing but that now.
Turned(c) == [c EXCEPT !.lv[c.now_lv] = LevelAdvance(@)]

\* Moving now on within its level keeps Core, and the other levels.
LEMMA TurnedCore ==
  ASSUME NEW c, Core(c),
         \/ c.lv[c.now_lv].running > 0
         \/ c.now_lv = 0 /\ c.lv[0].running = 0 /\ c.lv[0].now = 0
  PROVE  LET d == Turned(c) IN
         /\ Core(d)
         /\ d.now_lv = c.now_lv /\ d.lv_change = c.lv_change
         /\ d.flags = c.flags /\ d.level = c.level /\ d.priority = c.priority
         /\ \A l \in Levels : d.lv[l].running = c.lv[l].running
<1> DEFINE d == Turned(c)
           k == c.now_lv
           tl == c.lv[k]
           b == LevelAdvance(tl)
<1>1. /\ c \in CtlType /\ Homes(c) /\ \A l \in Levels : QueueOK(c, l)
      /\ k \in Levels /\ tl \in LevelType
  BY CtlFields DEF Core
<1>2. /\ tl \in LevelRecords(MaxPerLevel, Tasks \cup {NoEntry}) /\ tl.now < MaxPerLevel
      /\ tl.running > 0 => tl.now < tl.running
  <2>1. tl.running > 0 => tl.now < tl.running
    BY <1>1 DEF QueueOK
  <2>2. tl.running \in 0 .. MaxPerLevel /\ tl.now \in 0 .. MaxPerLevel /\ MaxPerLevel \in Nat \ {0}
    BY <1>1, LevelFields, Sizes
  <2>3. tl.running > 0 \/ tl.now = 0
    OBVIOUS
  <2> HIDE DEF tl
  <2>4. tl.now < MaxPerLevel
    BY <2>1, <2>2, <2>3
  <2> QED BY <1>1, <2>1, <2>4, LevelFields
<1>3. /\ b \in LevelType /\ b.running = tl.running /\ b.tasks = tl.tasks
      /\ tl.now < tl.running => b.now < b.running
  <2> HIDE DEF tl
  <2> QED BY <1>2, Sizes, AdvanceFacts DEF LevelType
<1>4. d = [c EXCEPT !.lv[k] = b]
  BY DEF Turned
<1> HIDE DEF b
<1>5. [c.lv EXCEPT ![k] = b] \in [Levels -> LevelType]
  BY <1>1, <1>3, CtlFields
<1>6. /\ d \in CtlType
      /\ d.now_lv = c.now_lv /\ d.lv_change = c.lv_change
      /\ d.flags = c.flags /\ d.level = c.level /\ d.priority = c.priority
      /\ d.lv = [c.lv EXCEPT ![k] = b]
  BY <1>1, <1>4, <1>5 DEF CtlType
<1> HIDE DEF d
<1>7. d.lv[k] = b /\ \A l \in Levels : l # k => d.lv[l] = c.lv[l]
  BY <1>1, <1>6, CtlFields
<1>8. ASSUME NEW l \in Levels
      PROVE  QueueOK(d, l) /\ d.lv[l].running = c.lv[l].running
  <2>1. ActiveAt(d, l) = ActiveAt(c, l)
    BY <1>6 DEF ActiveAt
  <2>2. CASE l # k
    BY <2>1, <2>2, <1>1, <1>7 DEF QueueOK
  <2>3. CASE l = k
    <3>1. Window(b) = Window(tl) /\ (Distinct(b) <=> Distinct(tl))
      BY <1>3 DEF Window, Distinct
    <3>2. tl.running = 0 => l = 0
      BY <2>3
    <3> QED BY <2>1, <2>3, <3>1, <3>2, <1>1, <1>2, <1>3, <1>7 DEF QueueOK
  <2> QED BY <2>2, <2>3
<1>9. Homes(d)
  BY <1>1, <1>6 DEF Homes
<1> QED BY <1>6, <1>8, <1>9 DEF Core, d

\* task_switch.
LEMMA SwitchInv ==
  ASSUME NEW c, NEW x \in Tasks, Inv(c, x)
  PROVE  HandedTo(TaskSwitch(c), TaskNow(TaskSwitch(c)))
<1> DEFINE d == Turned(c)
<1>1. /\ Core(c) /\ c.now_lv \in Levels /\ c.lv_change \in {0, 1}
      /\ Current(c, x) /\ BootPhase(c, x) /\ HasSlice(c) /\ Top(c)
  BY CtlFields DEF Inv, Core
<1>2. /\ Core(d)
      /\ d.now_lv = c.now_lv /\ d.lv_change = c.lv_change
      /\ d.flags = c.flags /\ d.level = c.level /\ d.priority = c.priority
      /\ \A l \in Levels : d.lv[l].running = c.lv[l].running
  BY <1>1, TurnedCore DEF Current
<1>3. TaskSwitch(c) = IF c.lv_change # 0 THEN SwitchSub(d) ELSE d
  BY DEF TaskSwitch, Turned
<1> HIDE DEF d
<1>4. HasSlice(d) /\ d.flags[TaskA] # Free
      /\ (d.level[TaskA] = 0 => d.flags[TaskA] = Active /\ \A t \in Consoles : d.flags[t] = Free)
  BY <1>1, <1>2 DEF HasSlice, BootPhase
<1>5. CASE c.lv_change # 0
  BY <1>2, <1>3, <1>4, <1>5, HandOver
<1>6. CASE c.lv_change = 0
  <2> DEFINE y == TaskNow(d)
  <2>1. d.lv[d.now_lv].running > 0 /\ d.now_lv \in Levels
    BY <1>1, <1>2, <1>6 DEF Top, IsTopLevel
  <2>2. y \in Tasks /\ d.flags[y] = Active /\ d.level[y] = d.now_lv
    BY <1>2, <2>1, TurnIsActive DEF TaskNow
  <2>3. DOMAIN c.lv = Levels /\ DOMAIN d.lv = Levels
    BY <1>1, <1>2, CtlFields DEF Core
  <2>4. IsTopLevel(d, d.now_lv)
    BY <1>1, <1>2, <1>6, <2>1, <2>3 DEF Top, IsTopLevel
  <2> HIDE DEF y
  <2>5. BootPhase(d, y)
    <3>1. ASSUME d.level[TaskA] = 0
          PROVE  y = TaskA
      <4>1. d.now_lv = 0 /\ Homes(d) /\ \A t \in Consoles : d.flags[t] = Free
        BY <3>1, <1>1, <1>2 DEF BootPhase, Core
      <4>2. y \notin Consoles /\ y # Idle
        BY <4>1, <2>2, Sizes DEF Homes
      <4> QED BY <4>2, <2>2 DEF Tasks
    <3> QED BY <3>1, <1>1, <1>2 DEF BootPhase
  <2>6. Current(d, y)
    BY <2>1, <2>2 DEF Current, y
  <2>7. Top(d)
    BY <2>4 DEF Top
  <2>8. Inv(d, y)
    BY <1>2, <1>4, <2>5, <2>6, <2>7 DEF Inv
  <2> QED BY <1>3, <1>6, <2>2, <2>4, <2>8 DEF HandedTo, y
<1> QED BY <1>5, <1>6

\* close_constask: task_sleep(task), task->flags = 0, by TaskA.
Freed(c, t) == [c EXCEPT !.flags[t] = Free]

\* Giving back the slot of a task that sleeps keeps the invariant.
LEMMA FreedInv ==
  ASSUME NEW c, NEW x \in Tasks, NEW t \in Consoles, Inv(c, x), c.flags[t] # Active
  PROVE  Inv(Freed(c, t), x)
<1> DEFINE d == Freed(c, t)
<1>1. /\ Core(c) /\ c \in CtlType /\ t \in Tasks /\ t # TaskA /\ t # x
      /\ c.flags \in [Tasks -> {Free, Asleep, Active}] /\ c.level \in [Tasks -> Levels]
      /\ Homes(c) /\ \A l \in Levels : QueueOK(c, l)
  BY TaskAssumption, CtlFields DEF Inv, Core, Current, Tasks
<1>2. /\ d \in CtlType
      /\ d.lv = c.lv /\ d.now_lv = c.now_lv /\ d.lv_change = c.lv_change
      /\ d.priority = c.priority /\ d.level = c.level
      /\ d.flags = [c.flags EXCEPT ![t] = Free]
  <2>1. [c.flags EXCEPT ![t] = Free] \in [Tasks -> {Free, Asleep, Active}]
    BY <1>1
  <2> QED BY <1>1, <2>1 DEF CtlType, Freed
<1> HIDE DEF d
<1>3. Core(d)
  <2>1. \A l \in Levels : ActiveAt(d, l) = ActiveAt(c, l)
    BY <1>1, <1>2 DEF ActiveAt
  <2>2. \A l \in Levels : QueueOK(d, l)
    BY <1>1, <1>2, <2>1 DEF QueueOK
  <2>3. Homes(d)
    BY <1>1, <1>2, TaskAssumption DEF Homes, Tasks
  <2> QED BY <1>2, <2>2, <2>3 DEF Core
<1>4. Current(d, x)
  BY <1>1, <1>2 DEF Inv, Current, TaskNow
<1>5. BootPhase(d, x) /\ HasSlice(d)
  BY <1>1, <1>2 DEF Inv, BootPhase, HasSlice, Tasks
<1>6. Top(d)
  BY <1>2 DEF Inv, Top, IsTopLevel
<1> QED BY <1>3, <1>4, <1>5, <1>6 DEF Inv, d

\* A console taken off its queue while TaskA runs.
LEMMA SleepOther ==
  ASSUME NEW c, NEW t \in Consoles, Inv(c, TaskA), c.flags[t] = Active
  PROVE  Inv(TaskRemove(c, t), TaskA) /\ TaskRemove(c, t).flags[t] = Asleep
<1> DEFINE d == TaskRemove(c, t)
<1>1. /\ Core(c) /\ t \in Tasks \ {Idle} /\ t # TaskA /\ TaskA \in Tasks /\ Homes(c)
      /\ c.flags \in [Tasks -> {Free, Asleep, Active}] /\ c.lv \in [Levels -> LevelType]
      /\ c.now_lv \in Levels
  BY TaskAssumption, CtlFields DEF Inv, Core, Tasks
<1>2. c.level[t] = 2 /\ c.level[TaskA] = 1
  BY <1>1 DEF Homes, Inv, BootPhase
<1>3. /\ Core(d)
      /\ d.now_lv = c.now_lv /\ d.lv_change = c.lv_change
      /\ d.level = c.level /\ d.priority = c.priority
      /\ d.flags = [c.flags EXCEPT ![t] = Asleep]
      /\ \A l \in Levels : l # 2 => d.lv[l] = c.lv[l]
  BY <1>1, <1>2, RemoveCore
<1> HIDE DEF d
<1>4. c.now_lv \in {0, 1}
  <2>1. CASE c.lv[c.now_lv].running > 0
    BY <2>1, <1>1, <1>2, TurnIsActive DEF Inv, Current, TaskNow
  <2>2. CASE ~(c.lv[c.now_lv].running > 0)
    BY <2>2 DEF Inv, Current
  <2> QED BY <2>1, <2>2
<1>5. d.lv[c.now_lv] = c.lv[c.now_lv] /\ d.lv[0] = c.lv[0] /\ d.lv[1] = c.lv[1]
  <2>1. c.now_lv # 2
    BY <1>4
  <2>2. c.now_lv \in Levels /\ 0 \in Levels /\ 1 \in Levels
    BY <1>1, Sizes
  <2>3. \A l \in Levels : l # 2 => d.lv[l] = c.lv[l]
    BY <1>3
  <2> QED BY <2>1, <2>2, <2>3
<1>6. Current(d, TaskA)
  <2>1. d.flags[TaskA] = Active
    BY <1>1, <1>3 DEF Inv, Current
  <2> QED BY <1>3, <1>5, <2>1 DEF Inv, Current, TaskNow
<1>7. BootPhase(d, TaskA) /\ HasSlice(d)
  BY <1>1, <1>2, <1>3 DEF Inv, BootPhase, HasSlice, Tasks
<1>8. Top(d)
  <2>1. DOMAIN c.lv = Levels /\ DOMAIN d.lv = Levels
    BY <1>1, <1>3, CtlFields DEF Core
  <2>2. \A k \in Levels : k < c.now_lv => k # 2
    BY <1>4, Sizes
  <2> QED BY <1>1, <1>3, <1>5, <2>1, <2>2 DEF Inv, Top, IsTopLevel
<1>9. d.flags[t] = Asleep
  BY <1>1, <1>3
<1> QED BY <1>3, <1>6, <1>7, <1>8, <1>9 DEF Inv, d

\* So does the end of a console, active or asleep.
LEMMA CloseInv ==
  ASSUME NEW c, NEW t \in Consoles, Inv(c, TaskA)
  PROVE  Inv(Freed(TaskSleep(c, t), t), TaskA)
<1>0. TaskA \in Tasks
  BY DEF Tasks
<1>1. CASE c.flags[t] # Active
  BY <1>0, <1>1, FreedInv DEF TaskSleep
<1>2. CASE c.flags[t] = Active
  <2>1. t # TaskNow(c)
    BY TaskAssumption DEF Inv, Current
  <2>2. TaskSleep(c, t) = TaskRemove(c, t)
    BY <1>2, <2>1 DEF TaskSleep
  <2>3. Inv(TaskRemove(c, t), TaskA) /\ TaskRemove(c, t).flags[t] # Active
    BY <1>2, SleepOther
  <2> QED BY <1>0, <2>2, <2>3, FreedInv
<1> QED BY <1>1, <1>2

\* HariMain's task_run(task_a, 1, 0): the emptied level 0 stays the current
\* level until the next task_switch, and its stale entry still names TaskA.
LEMMA DemoteInv ==
  ASSUME NEW c, Inv(c, TaskA), c.level[TaskA] = 0
  PROVE  Inv(TaskRun(c, TaskA, 1, 0), TaskA)
<1> DEFINE r == TaskRemove(c, TaskA)
           e == [r EXCEPT !.level[TaskA] = 1]
           a == TaskAdd(e, TaskA)
           d == Marked(a, TaskA, c.priority[TaskA])
           tl == c.lv[0]
<1>1. /\ Core(c) /\ Homes(c) /\ QueueOK(c, 0) /\ TaskA \in Tasks \ {Idle}
      /\ c.flags[TaskA] = Active /\ c.now_lv = 0 /\ tl \in LevelType
      /\ (\A t \in Consoles : c.flags[t] = Free) /\ TaskNow(c) = TaskA
      /\ c.flags \in [Tasks -> {Free, Asleep, Active}]
      /\ c.level \in [Tasks -> Levels] /\ c.priority[TaskA] \in 1 .. 2
  BY TaskAssumption, Sizes, CtlFields DEF Inv, Core, BootPhase, Current, HasSlice, Tasks
<1>2. tl.running = 1 /\ tl.now = 0 /\ tl.tasks[0] = TaskA
  <2>1. Window(tl) = {TaskA} /\ Distinct(tl)
    <3>1. ActiveAt(c, 0) = {TaskA}
      BY <1>1, Sizes DEF ActiveAt, Homes, Tasks
    <3> QED BY <1>1, <3>1 DEF QueueOK
  <2>2. tl.running > 0 => tl.now < tl.running
    BY <1>1 DEF QueueOK
  <2>3. IsFiniteSet({TaskA}) /\ Cardinality({TaskA}) = 1
    BY FS_Singleton
  <2>4. tl.tasks[tl.now] = TaskA
    BY <1>1 DEF TaskNow
  <2> HIDE DEF tl
  <2>5. tl.running <= 1
    BY <1>1, <2>1, <2>3, WindowFits, LevelFields, Sizes
  <2>6. tl.running \in Nat /\ tl.now \in Nat
    BY <1>1, LevelFields, Sizes
  <2>7. tl.running > 0
    BY <2>1, <2>6 DEF Window
  <2> QED BY <2>2, <2>4, <2>5, <2>6, <2>7
<1>3. /\ Core(r)
      /\ r.now_lv = 0 /\ r.lv_change = c.lv_change
      /\ r.level = c.level /\ r.priority = c.priority
      /\ r.flags = [c.flags EXCEPT ![TaskA] = Asleep]
      /\ r.lv[0].running = 0 /\ r.lv[0].now = 0 /\ r.lv[0].tasks = tl.tasks
  <2>1. c.level[TaskA] = 0 /\ tl.running = 1 /\ tl.running - 1 = 0
    BY <1>2
  <2>2. /\ Core(r)
        /\ r.now_lv = c.now_lv /\ r.lv_change = c.lv_change
        /\ r.level = c.level /\ r.priority = c.priority
        /\ r.flags = [c.flags EXCEPT ![TaskA] = Asleep]
        /\ r.lv[0].running = tl.running - 1
        /\ tl.running = 1 => r.lv[0].now = 0 /\ r.lv[0].tasks = tl.tasks
    BY <1>1, <2>1, RemoveCore
  <2> HIDE DEF r, tl
  <2> QED BY <1>1, <2>1, <2>2
<1>4. TaskRun(c, TaskA, 1, 0) = d
  <2>1. c.flags[TaskA] = Active /\ c.level[TaskA] # 1
    BY <1>1
  <2>2. r.flags[TaskA] # Active
    BY <1>1, <1>3
  <2> HIDE DEF r
  <2>3. Requeued(c, TaskA, 1) = a
    BY <2>1, <2>2 DEF Requeued, r
  <2>4. TaskRun(c, TaskA, 1, 0) = Marked(Requeued(c, TaskA, 1), TaskA, c.priority[TaskA])
    BY DEF TaskRun, Marked
  <2> QED BY <2>3, <2>4
<1> HIDE DEF r
<1>5. Places(r, e, TaskA, Asleep, 1)
  <2>1. /\ r \in CtlType /\ r.flags \in [Tasks -> {Free, Asleep, Active}]
        /\ r.level \in [Tasks -> Levels]
    BY <1>3, CtlFields DEF Core
  <2>2. r.flags[TaskA] = Asleep
    BY <1>1, <1>3
  <2> QED BY <1>1, <2>1, <2>2, Sizes DEF CtlType, Places
<1> HIDE DEF e
<1>6. Core(e) /\ e.flags[TaskA] # Active /\ e.level[TaskA] = 1
  <2>1. r.flags[TaskA] # Active /\ TaskA \in Tasks
    BY <1>1, <1>3
  <2>2. Core(r) /\ 1 \in Levels /\ Asleep \in {Free, Asleep}
    BY <1>3, Sizes
  <2> QED BY <1>5, <2>1, <2>2, PlaceCore
<1>7. /\ Core(a)
      /\ a.now_lv = e.now_lv /\ a.lv_change = e.lv_change
      /\ a.level = e.level /\ a.priority = e.priority
      /\ a.flags = [e.flags EXCEPT ![TaskA] = Active]
      /\ \A k \in Levels : k # e.level[TaskA] => a.lv[k] = e.lv[k]
  BY <1>1, <1>6, AddCore
<1> HIDE DEF a
<1>8. Core(d) /\ OnlyMarks(a, d, TaskA, c.priority[TaskA])
  <2>1. TaskA \in Tasks /\ c.priority[TaskA] \in 0 .. 2
    BY <1>1
  <2> QED BY <1>7, <2>1, MarkCore
<1> HIDE DEF d
<1>9. /\ d.lv[0] = r.lv[0] /\ d.now_lv = 0 /\ d.lv_change = 1
      /\ d.flags[TaskA] = Active /\ d.level[TaskA] = 1
      /\ \A u \in Tasks : u # TaskA => d.flags[u] = c.flags[u]
      /\ \A u \in Tasks : d.priority[u] = c.priority[u]
  <2>1. e.lv = r.lv /\ e.now_lv = r.now_lv /\ e.priority = r.priority
        /\ e.flags = [r.flags EXCEPT ![TaskA] = Asleep]
    BY <1>5 DEF Places
  <2>2. d.lv[0] = r.lv[0] /\ d.now_lv = 0 /\ d.lv_change = 1
    BY <1>3, <1>6, <1>7, <1>8, <2>1, Sizes DEF OnlyMarks
  <2>3. d.flags = [e.flags EXCEPT ![TaskA] = Active] /\ d.level[TaskA] = 1
    BY <1>6, <1>7, <1>8 DEF OnlyMarks
  <2>4. /\ d.flags[TaskA] = Active
        /\ \A u \in Tasks : u # TaskA => d.flags[u] = c.flags[u]
    BY <1>1, <1>3, <2>1, <2>3
  <2>5. \A u \in Tasks : d.priority[u] = c.priority[u]
    BY <1>3, <1>7, <1>8, <2>1 DEF OnlyMarks
  <2> QED BY <2>2, <2>3, <2>4, <2>5
<1>10. Current(d, TaskA)
  BY <1>2, <1>3, <1>9 DEF Current, TaskNow
<1>11. BootPhase(d, TaskA) /\ Top(d)
  BY <1>9 DEF BootPhase, Top
<1>12. HasSlice(d)
  BY <1>1, <1>9 DEF Inv, HasSlice
<1> QED BY <1>4, <1>8, <1>10, <1>11, <1>12 DEF Inv

-----------------------------------------------------------------------------
(* task_init. *)

EmptyLevel == [running |-> 0, now |-> 0, tasks |-> [i \in Slots |-> NoEntry]]

\* The first task of an empty level stands at its entry 0.
LEMMA EmptyFacts ==
  ASSUME NEW t \in Tasks
  PROVE  LET a == LevelAdd(EmptyLevel, t) IN
         /\ EmptyLevel \in LevelType /\ Window(EmptyLevel) = {} /\ Distinct(EmptyLevel)
         /\ EmptyLevel.running = 0 /\ EmptyLevel.now = 0
         /\ a \in LevelType /\ a.running = 1 /\ a.now = 0 /\ a.tasks[0] = t
         /\ Window(a) = {t} /\ Distinct(a)
<1>1. /\ EmptyLevel \in LevelRecords(MaxPerLevel, Tasks \cup {NoEntry})
      /\ Window(EmptyLevel) = {} /\ Distinct(EmptyLevel)
      /\ EmptyLevel.running = 0 /\ EmptyLevel.now = 0
  BY Sizes DEF EmptyLevel, LevelRecords, Window, Distinct
<1>2. MaxPerLevel \in Nat /\ 0 < MaxPerLevel /\ t \in Tasks \cup {NoEntry}
  BY Sizes
<1> QED BY <1>1, <1>2, AddFacts DEF LevelType

\* The taskctl that task_init leaves, field by field.
LEMMA BootedFields ==
  LET b == Booted(ZeroRam) IN
  /\ b \in CtlType /\ b.now_lv = 0 /\ b.lv_change = 1
  /\ \A l \in Levels : b.lv[l] = IF l = 0 THEN LevelAdd(EmptyLevel, TaskA)
                                 ELSE IF l = LastLevel THEN LevelAdd(EmptyLevel, Idle)
                                 ELSE EmptyLevel
  /\ \A t \in Tasks : /\ b.flags[t] = IF t \in {TaskA, Idle} THEN Active ELSE Free
                      /\ b.level[t] = IF t = Idle THEN LastLevel ELSE 0
  /\ b.priority[TaskA] = 2 /\ b.priority[Idle] = 1
<1> DEFINE r0 == [RawTaskctl(ZeroRam) EXCEPT !.priority[TaskA] = 2, !.level[TaskA] = 0]
           r1 == TaskAdd(r0, TaskA)
           r2 == SwitchSub(r1)
           r3 == Allocated(r2, Idle)
           r4 == [r3 EXCEPT !.level[Idle] = LastLevel]
           r5 == TaskAdd(r4, Idle)
           r6 == Marked(r5, Idle, 1)
           first == LevelAdd(EmptyLevel, TaskA)
           last == LevelAdd(EmptyLevel, Idle)
<1>1. /\ TaskA \in Tasks /\ Idle \in Tasks /\ TaskA # Idle
      /\ EmptyLevel \in LevelType /\ first \in LevelType /\ last \in LevelType
      /\ EmptyLevel.running = 0 /\ first.running = 1
  BY EmptyFacts, TaskAssumption DEF Tasks
<1> HIDE DEF first, last
<1>2. /\ r0 \in CtlType /\ r0.now_lv = 0 /\ r0.lv_change = 0
      /\ \A l \in Levels : r0.lv[l] = EmptyLevel
      /\ \A t \in Tasks : /\ r0.flags[t] = Free /\ r0.level[t] = 0
                          /\ r0.priority[t] = IF t = TaskA THEN 2 ELSE 0
  <2> DEFINE raw == RawTaskctl(ZeroRam)
  <2>1. /\ raw \in CtlType /\ raw.now_lv = 0 /\ raw.lv_change = 0
        /\ \A l \in Levels : raw.lv[l] = EmptyLevel
        /\ raw.flags = [t \in Tasks |-> Free] /\ raw.level = [t \in Tasks |-> 0]
        /\ raw.priority = [t \in Tasks |-> 0]
    <3>1. raw = [now_lv |-> 0, lv_change |-> 0, lv |-> [l \in Levels |-> EmptyLevel],
                 flags |-> [t \in Tasks |-> Free], level |-> [t \in Tasks |-> 0],
                 priority |-> [t \in Tasks |-> 0]]
      BY DEF RawTaskctl, ZeroRam, EmptyLevel
    <3> HIDE DEF raw
    <3> QED BY <3>1, <1>1, Sizes DEF CtlType
  <2> HIDE DEF raw
  <2>3. /\ [raw.priority EXCEPT ![TaskA] = 2] \in [Tasks -> 0 .. 2]
        /\ [raw.level EXCEPT ![TaskA] = 0] \in [Tasks -> Levels]
    BY <1>1, <2>1, CtlFields, Sizes
  <2>4. /\ r0 \in CtlType /\ r0.now_lv = 0 /\ r0.lv_change = 0 /\ r0.lv = raw.lv
        /\ r0.flags = raw.flags /\ r0.level = [raw.level EXCEPT ![TaskA] = 0]
        /\ r0.priority = [raw.priority EXCEPT ![TaskA] = 2]
    BY <2>1, <2>3 DEF CtlType, raw
  <2> HIDE DEF r0
  <2> QED BY <1>1, <2>1, <2>4
<1> HIDE DEF r0
<1>3. /\ r1 \in CtlType /\ r1.now_lv = 0
      /\ \A l \in Levels : r1.lv[l] = IF l = 0 THEN first ELSE EmptyLevel
      /\ \A t \in Tasks : r1.flags[t] = IF t = TaskA THEN Active ELSE Free
      /\ r1.level = r0.level /\ r1.priority = r0.priority
  <2>1. r1 = [r0 EXCEPT !.lv[0] = first, !.flags[TaskA] = Active]
    BY <1>1, <1>2, Sizes DEF TaskAdd, first
  <2>2. /\ [r0.lv EXCEPT ![0] = first] \in [Levels -> LevelType]
        /\ [r0.flags EXCEPT ![TaskA] = Active] \in [Tasks -> {Free, Asleep, Active}]
    BY <1>1, <1>2, CtlFields
  <2>3. /\ r1 \in CtlType /\ r1.now_lv = 0
        /\ r1.lv = [r0.lv EXCEPT ![0] = first]
        /\ r1.flags = [r0.flags EXCEPT ![TaskA] = Active]
        /\ r1.level = r0.level /\ r1.priority = r0.priority
    <3> HIDE DEF r1
    <3> QED BY <1>2, <2>1, <2>2 DEF CtlType
  <2> HIDE DEF r1
  <2> QED BY <1>1, <1>2, <2>3, CtlFields
<1> HIDE DEF r1
<1>4. /\ r2 \in CtlType /\ r2.now_lv = 0 /\ r2.lv = r1.lv /\ r2.flags = r1.flags
      /\ r2.level = r1.level /\ r2.priority = r1.priority
  <2> DEFINE m == CHOOSE l \in DOMAIN r1.lv : IsTopLevel(r1, l)
  <2>1. DOMAIN r1.lv = Levels /\ r1.lv[0].running = 1
    BY <1>1, <1>3, CtlFields, Sizes
  <2>2. IsTopLevel(r1, 0)
    <3>1. \A k \in Levels : ~(k < 0)
      BY Sizes
    <3> QED BY <2>1, <3>1 DEF IsTopLevel
  <2>3. ASSUME NEW l \in Levels, IsTopLevel(r1, l)
        PROVE  l = 0
    <3>1. r1.lv[l].running > 0
      BY <2>3 DEF IsTopLevel
    <3> QED BY <1>1, <1>3, <3>1
  <2>4. m = 0
    BY <2>1, <2>2, <2>3, Sizes
  <2>5. r2 = [r1 EXCEPT !.now_lv = m, !.lv_change = 0]
    BY DEF SwitchSub
  <2> HIDE DEF m, r2
  <2> QED BY <1>3, <2>4, <2>5, Sizes DEF CtlType
<1> HIDE DEF r2
<1>5. /\ r4 \in CtlType /\ r4.now_lv = 0 /\ r4.lv = r2.lv /\ r4.priority = r2.priority
      /\ \A t \in Tasks : /\ r4.flags[t] = IF t = TaskA THEN Active
                                           ELSE IF t = Idle THEN Asleep ELSE Free
                          /\ r4.level[t] = IF t = Idle THEN LastLevel ELSE 0
      /\ r3.flags[Idle] = Asleep
  <2>1. /\ [r2.flags EXCEPT ![Idle] = Asleep] \in [Tasks -> {Free, Asleep, Active}]
        /\ [r2.level EXCEPT ![Idle] = LastLevel] \in [Tasks -> Levels]
    BY <1>1, <1>4, CtlFields, Sizes
  <2>2. /\ r4 \in CtlType /\ r4.now_lv = 0 /\ r4.lv = r2.lv /\ r4.priority = r2.priority
        /\ r4.flags = [r2.flags EXCEPT ![Idle] = Asleep]
        /\ r4.level = [r2.level EXCEPT ![Idle] = LastLevel]
        /\ r3.flags = [r2.flags EXCEPT ![Idle] = Asleep]
    BY <1>4, <2>1 DEF CtlType, Allocated
  <2> HIDE DEF r3, r4
  <2> QED BY <1>1, <1>2, <1>3, <1>4, <2>2, CtlFields
<1>6. Booted(ZeroRam) = r6
  <2>1. r2 = FirstTask(RawTaskctl(ZeroRam))
    BY DEF FirstTask, r0, r1, r2
  <2>2. Requeued(r3, Idle, LastLevel) = r5
    <3> HIDE DEF r3
    <3> QED BY <1>5 DEF Requeued
  <2>3. TaskRun(r3, Idle, LastLevel, 1) = Marked(Requeued(r3, Idle, LastLevel), Idle, 1)
    <3>1. ~(LastLevel < 0)
      BY Sizes
    <3> HIDE DEF r3
    <3> QED BY <3>1 DEF TaskRun, Marked
  <2> QED BY <2>1, <2>2, <2>3 DEF Booted
<1> HIDE DEF r3, r4
<1>7. /\ r5 \in CtlType /\ r5.now_lv = 0 /\ r5.level = r4.level /\ r5.priority = r4.priority
      /\ \A l \in Levels : r5.lv[l] = IF l = LastLevel THEN last ELSE r4.lv[l]
      /\ \A t \in Tasks : r5.flags[t] = IF t = Idle THEN Active ELSE r4.flags[t]
  <2>1. r4.lv[LastLevel] = EmptyLevel /\ r4.level[Idle] = LastLevel
    BY <1>1, <1>3, <1>4, <1>5, Sizes
  <2>2. r5 = [r4 EXCEPT !.lv[LastLevel] = last, !.flags[Idle] = Active]
    BY <2>1 DEF TaskAdd, last
  <2>3. /\ [r4.lv EXCEPT ![LastLevel] = last] \in [Levels -> LevelType]
        /\ [r4.flags EXCEPT ![Idle] = Active] \in [Tasks -> {Free, Asleep, Active}]
    BY <1>1, <1>5, CtlFields
  <2>4. /\ r5 \in CtlType /\ r5.now_lv = 0
        /\ r5.lv = [r4.lv EXCEPT ![LastLevel] = last]
        /\ r5.flags = [r4.flags EXCEPT ![Idle] = Active]
        /\ r5.level = r4.level /\ r5.priority = r4.priority
    <3> HIDE DEF r5
    <3> QED BY <1>5, <2>2, <2>3 DEF CtlType
  <2> HIDE DEF r5
  <2> QED BY <1>1, <1>5, <2>4, CtlFields
<1> HIDE DEF r5
<1>8. /\ r6 \in CtlType /\ r6.now_lv = 0 /\ r6.lv_change = 1
      /\ r6.lv = r5.lv /\ r6.flags = r5.flags /\ r6.level = r5.level
      /\ r6.priority[TaskA] = r5.priority[TaskA] /\ r6.priority[Idle] = 1
  <2>1. [r5.priority EXCEPT ![Idle] = 1] \in [Tasks -> 0 .. 2]
    BY <1>1, <1>7, CtlFields
  <2>2. /\ r6 \in CtlType /\ r6.now_lv = 0 /\ r6.lv_change = 1
        /\ r6.lv = r5.lv /\ r6.flags = r5.flags /\ r6.level = r5.level
        /\ r6.priority = [r5.priority EXCEPT ![Idle] = 1]
    BY <1>7, <2>1 DEF CtlType, Marked
  <2> HIDE DEF r6
  <2> QED BY <1>1, <1>7, <2>2, CtlFields
<1> HIDE DEF r6
<1>9. /\ \A l \in Levels : r6.lv[l] = IF l = 0 THEN first ELSE IF l = LastLevel THEN last
                                     ELSE EmptyLevel
      /\ \A t \in Tasks : r6.flags[t] = IF t \in {TaskA, Idle} THEN Active ELSE Free
      /\ \A t \in Tasks : r6.level[t] = IF t = Idle THEN LastLevel ELSE 0
      /\ r6.priority[TaskA] = 2
  BY <1>1, <1>2, <1>3, <1>4, <1>5, <1>7, <1>8, Sizes
<1> QED BY <1>6, <1>8, <1>9 DEF first, last

\* task_init leaves HariMain running, alone on level 0.
LEMMA BootedInv == Inv(Booted(ZeroRam), TaskA) /\ Booted(ZeroRam).priority[TaskA] = 2
<1> DEFINE b == Booted(ZeroRam)
           first == LevelAdd(EmptyLevel, TaskA)
           last == LevelAdd(EmptyLevel, Idle)
<1>1. /\ b \in CtlType /\ b.now_lv = 0 /\ b.lv_change = 1
      /\ \A l \in Levels : b.lv[l] = IF l = 0 THEN first
                                     ELSE IF l = LastLevel THEN last ELSE EmptyLevel
      /\ \A t \in Tasks : /\ b.flags[t] = IF t \in {TaskA, Idle} THEN Active ELSE Free
                          /\ b.level[t] = IF t = Idle THEN LastLevel ELSE 0
      /\ b.priority[TaskA] = 2 /\ b.priority[Idle] = 1
  BY BootedFields
<1> HIDE DEF b
<1>2. /\ TaskA \in Tasks /\ Idle \in Tasks /\ TaskA # Idle
      /\ TaskA \notin Consoles /\ Idle \notin Consoles /\ LastLevel # 0
      /\ 0 \in Levels /\ LastLevel \in Levels
  BY TaskAssumption, Sizes DEF Tasks
<1>3. /\ EmptyLevel \in LevelType /\ Window(EmptyLevel) = {} /\ Distinct(EmptyLevel)
      /\ EmptyLevel.running = 0 /\ EmptyLevel.now = 0
      /\ first.running = 1 /\ first.now = 0 /\ first.tasks[0] = TaskA
      /\ Window(first) = {TaskA} /\ Distinct(first)
      /\ last.running = 1 /\ last.now = 0 /\ Window(last) = {Idle} /\ Distinct(last)
  BY <1>2, EmptyFacts
<1> HIDE DEF first, last
<1>4. ASSUME NEW l \in Levels
      PROVE  QueueOK(b, l)
  <2>1. CASE l = 0
    <3>1. ActiveAt(b, l) = {TaskA}
      BY <2>1, <1>1, <1>2 DEF ActiveAt
    <3> QED BY <2>1, <3>1, <1>1, <1>3 DEF QueueOK
  <2>2. CASE l = LastLevel
    <3>1. ActiveAt(b, l) = {Idle}
      BY <2>2, <1>1, <1>2 DEF ActiveAt
    <3> QED BY <2>2, <3>1, <1>1, <1>2, <1>3 DEF QueueOK
  <2>3. CASE l # 0 /\ l # LastLevel
    <3>1. ActiveAt(b, l) = {}
      BY <2>3, <1>1, <1>2 DEF ActiveAt
    <3> QED BY <2>3, <3>1, <1>1, <1>3 DEF QueueOK
  <2> QED BY <2>1, <2>2, <2>3
<1>5. Core(b)
  <2>1. \A t \in Consoles : t \in Tasks /\ t # TaskA /\ t # Idle
    BY <1>2 DEF Tasks
  <2>2. Homes(b)
    BY <1>1, <1>2, <2>1 DEF Homes
  <2> QED BY <1>1, <1>4, <2>2 DEF Core
<1>6. Current(b, TaskA)
  BY <1>1, <1>2, <1>3 DEF Current, TaskNow
<1>7. BootPhase(b, TaskA)
  <2>1. \A t \in Consoles : t \in Tasks /\ t # TaskA /\ t # Idle
    BY <1>2 DEF Tasks
  <2> QED BY <1>1, <1>2, <2>1 DEF BootPhase
<1>8. HasSlice(b) /\ Top(b)
  BY <1>1, <1>2 DEF HasSlice, Top
<1> QED BY <1>1, <1>5, <1>6, <1>7, <1>8 DEF Inv, b

-----------------------------------------------------------------------------
(* The theorems. *)

\* The invariant holds after task_init.
LEMMA IInvInit == Init => IInv
  BY BootedInv DEF Init, IInv, Tasks

\* Every action keeps the invariant; one step per action of Next.
LEMMA IInvNext == IInv /\ [Next]_vars => IInv'
<1> SUFFICES ASSUME IInv, [Next]_vars
             PROVE  IInv'
  OBVIOUS
<1>0. Inv(ctl, cpu) /\ cpu \in Tasks /\ slice \in 1 .. 2 /\ leaving \subseteq Consoles
  BY DEF IInv
<1>1. CASE Demote
  <2>1. Inv(ctl', cpu)
    BY <1>0, <1>1, DemoteInv DEF Demote
  <2> QED BY <1>0, <1>1, <2>1 DEF Demote, IInv
<1>2. CASE Tick
  BY <1>0, <1>2 DEF Tick, IInv
<1>3. CASE Switch
  <2>1. Inv(ctl', cpu') /\ cpu' \in Tasks
    BY <1>0, <1>3, SwitchInv DEF Switch, HandedTo
  <2>2. slice' \in 1 .. 2
    BY <1>3, <2>1 DEF Switch, Inv, HasSlice, Current
  <2> QED BY <1>0, <1>3, <2>1, <2>2 DEF Switch, IInv
<1>4. ASSUME NEW t \in Tasks, Wake(t)
      PROVE  IInv'
  <2>1. ctl.level[TaskA] # 0
    BY <1>0, <1>4 DEF Wake, Inv, BootPhase, Tasks
  <2>2. Inv(ctl', cpu)
    BY <1>0, <1>4, <2>1, RunSame DEF Wake
  <2> QED BY <1>0, <1>4, <2>2 DEF Wake, IInv
<1>5. ASSUME NEW t \in Tasks, Rouse(t)
      PROVE  IInv'
  <2>1. Inv(ctl', cpu)
    BY <1>0, <1>5, RunSame, TaskAssumption DEF Rouse
  <2> QED BY <1>0, <1>5, <2>1 DEF Rouse, IInv
<1>6. ASSUME NEW t \in Tasks, Sleep(t)
      PROVE  IInv'
  <2>1. t \in Tasks \ {Idle} /\ Inv(ctl, t) /\ t = TaskNow(ctl) /\ ctl.level[TaskA] # 0
    <3>1. t = cpu /\ t = TaskNow(ctl) /\ ctl.flags[t] = Active /\ ctl.level[t] # 0
      BY <1>0, <1>6 DEF Sleep, Inv, Current
    <3>2. ctl.level[TaskA] # 0
      BY <1>0, <3>1 DEF Inv, BootPhase
    <3> QED BY <1>0, <1>6, <3>1, <3>2 DEF Sleep
  <2>2. ctl' = TaskSleep(ctl, t) /\ cpu' = TaskNow(ctl') /\ UNCHANGED <<slice, leaving>>
    BY <1>6, <2>1 DEF Sleep
  <2>3. HandedTo(ctl', cpu')
    BY <2>1, <2>2, SleepSelf
  <2> QED BY <1>0, <2>2, <2>3 DEF HandedTo, IInv
<1>7. ASSUME NEW t \in Consoles, Open(t)
      PROVE  IInv'
  <2>1. Inv(ctl', cpu)
    BY <1>0, <1>7, RunNew DEF Open
  <2> QED BY <1>0, <1>7, <2>1 DEF Open, IInv
<1>8. ASSUME NEW t \in Consoles, Exit(t)
      PROVE  IInv'
  <2>1. CASE ctl.flags[TaskA] # Active
    <3>1. TaskA \in Tasks /\ ctl.flags[TaskA] # Free /\ ctl.level[TaskA] # 0
      BY <1>0, <2>1 DEF Inv, BootPhase, Tasks
    <3>2. Inv(ctl', cpu)
      BY <1>0, <1>8, <2>1, <3>1, RunSame, TaskAssumption DEF Exit
    <3> QED BY <1>0, <1>8, <3>2 DEF Exit, IInv
  <2>2. CASE ctl.flags[TaskA] = Active
    BY <1>0, <1>8, <2>2 DEF Exit, IInv
  <2> QED BY <2>1, <2>2
<1>9. ASSUME NEW t \in Consoles, Close(t)
      PROVE  IInv'
  <2>1. ctl' = Freed(TaskSleep(ctl, t), t) /\ cpu = TaskA /\ cpu' = cpu
    BY <1>9 DEF Close, Freed
  <2>2. Inv(ctl', cpu)
    BY <1>0, <2>1, CloseInv
  <2> QED BY <1>0, <1>9, <2>1, <2>2 DEF Close, IInv
<1>10. CASE UNCHANGED vars
  BY <1>0, <1>10 DEF vars, IInv
<1> QED BY <1>1, <1>2, <1>3, <1>4, <1>5, <1>6, <1>7, <1>8, <1>9, <1>10 DEF Next

\* IInv is an invariant of the scheduler: the state of the run queues, of the
\* running task and of the boot is always consistent.
THEOREM Invariance == Spec => []IInv
  BY IInvInit, IInvNext, PTL DEF Spec

\* taskctl, the running task and its slice keep their ranges (TypeOK).
THEOREM TypeCorrect == Spec => []TypeOK
<1>1. IInv => TypeOK
  BY DEF IInv, Inv, Core, CtlType, TypeOK
<1> QED BY <1>1, Invariance, PTL

\* The first running entries of a level are its active tasks, each once,
\* whatever sequence of task_run, task_sleep and task_switch led there.
THEOREM QueuesMatchFlags == Spec => []RunQueues
<1>1. IInv => RunQueues
  BY DEF IInv, Inv, Core, QueueOK, ActiveAt, RunQueues
<1> QED BY <1>1, Invariance, PTL

\* task_now always returns the task that runs.
THEOREM TaskNowIsRunning == Spec => []CpuIsTaskNow
<1>1. IInv => CpuIsTaskNow
  BY DEF IInv, Inv, Current, CpuIsTaskNow
<1> QED BY <1>1, Invariance, PTL

\* While no level change is pending the current level is the highest that has
\* an active task.
THEOREM CurrentLevelIsTop == Spec => []NothingAbove
<1>1. IInv => NothingAbove
  BY DEF IInv, Inv, Top, NothingAbove
<1> QED BY <1>1, Invariance, PTL

\* task_idle never leaves the last level, so task_switchsub finds a task.
THEOREM SomethingToRun == Spec => []IdleIsReady
<1>1. IInv => IdleIsReady
  BY DEF IInv, Inv, Core, Homes, IdleIsReady
<1> QED BY <1>1, Invariance, PTL

\* The processor changes hands only to a task of the highest active level.
THEOREM HighestLevelFirst == Spec => HandsOverToTop
<1>1. IInv /\ [Next]_vars => [cpu' # cpu => IsTopLevel(ctl', ctl'.level[cpu'])]_vars
  <2> SUFFICES ASSUME IInv, Next, cpu' # cpu
               PROVE  IsTopLevel(ctl', ctl'.level[cpu'])
    BY DEF vars
  <2>0. Inv(ctl, cpu) /\ cpu \in Tasks
    BY DEF IInv
  <2>1. CASE Switch
    BY <2>0, <2>1, SwitchInv DEF Switch, HandedTo
  <2>2. ASSUME NEW t \in Tasks, Sleep(t)
        PROVE  HandedTo(ctl', cpu')
    <3>1. t = cpu /\ t = TaskNow(ctl) /\ ctl.flags[t] = Active /\ ctl.level[t] # 0 /\ t # Idle
      BY <2>0, <2>2 DEF Sleep, Inv, Current
    <3>2. ctl.level[TaskA] # 0
      BY <2>0, <3>1 DEF Inv, BootPhase
    <3>3. ctl' = TaskSleep(ctl, t) /\ cpu' = TaskNow(ctl')
      BY <2>2, <3>1 DEF Sleep
    <3> QED BY <2>0, <3>1, <3>2, <3>3, SleepSelf
  <2>3. Switch \/ \E t \in Tasks : Sleep(t)
    BY DEF Next, Demote, Tick, Wake, Rouse, Open, Exit, Close
  <2> QED BY <2>1, <2>2, <2>3 DEF HandedTo
<1> QED BY <1>1, Invariance, PTL DEF Spec, HandsOverToTop
=============================================================================
