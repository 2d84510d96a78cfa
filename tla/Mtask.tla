------------------------------- MODULE Mtask -------------------------------
(***************************************************************************)
(* The run queues of osask/src/sys/mtask.c, as operators on taskctl.       *)
(*                                                                         *)
(* A level (tasklevel_t) is an array of task pointers of which the first   *)
(* running ones count, and the index now of the one whose turn it is.  The *)
(* rest of the array holds stale pointers, and the code does read one of   *)
(* them, so the array is modelled with them.                               *)
(*                                                                         *)
(* A taskctl is a record: now_lv, lv_change, the levels lv[l], and of each *)
(* task its flags (0 free, 1 allocated and asleep, 2 active), its level    *)
(* and its priority (the length of its time slice).                        *)
(***************************************************************************)
EXTENDS Integers

Free == 0
Asleep == 1
Active == 2

-----------------------------------------------------------------------------
(* One level. *)

\* The levels with an array of n entries that point into tasks.
LevelRecords(n, tasks) ==
    [running : 0 .. n, now : 0 .. n, tasks : [0 .. n - 1 -> tasks]]

\* The tasks of a level.
Window(tl) == {tl.tasks[i] : i \in 0 .. tl.running - 1}

\* No task is there twice.
Distinct(tl) ==
    \A i, j \in 0 .. tl.running - 1 : tl.tasks[i] = tl.tasks[j] => i = j

\* task_add: append.
LevelAdd(tl, t) ==
    [tl EXCEPT !.tasks[tl.running] = t,
               !.running = @ + 1]

\* The search loop of task_remove: the first index that holds t, or running.
Find(tl, t) ==
    CHOOSE i \in 0 .. tl.running :
        /\ i < tl.running => tl.tasks[i] = t
        /\ \A j \in 0 .. i - 1 : tl.tasks[j] # t

\* Slip: now is left behind the last task.
LevelRemoveAtEnd(tl, t) ==
    LET i == Find(tl, t)
        left == tl.running - 1
    IN  [running |-> left,
         now |-> IF i < tl.now THEN tl.now - 1 ELSE tl.now,
         tasks |-> [j \in DOMAIN tl.tasks |->
                      IF i <= j /\ j < left THEN tl.tasks[j + 1] ELSE tl.tasks[j]]]

\* task_remove: close the gap, and move now along with the task it points at.
LevelRemove(tl, t) ==
    LET i == Find(tl, t)
        left == tl.running - 1
        moved == IF i < tl.now THEN tl.now - 1 ELSE tl.now
    IN  [running |-> left,
         now |-> IF moved >= left THEN 0 ELSE moved,
         tasks |-> [j \in DOMAIN tl.tasks |->
                      IF i <= j /\ j < left THEN tl.tasks[j + 1] ELSE tl.tasks[j]]]

\* Slip: the turn goes back to the first task one task too early.
LevelAdvanceShort(tl) ==
    [tl EXCEPT !.now = IF @ + 1 >= tl.running - 1 THEN 0 ELSE @ + 1]

\* task_switch: the turn passes to the next task of the level.
LevelAdvance(tl) ==
    [tl EXCEPT !.now = IF @ + 1 = tl.running THEN 0 ELSE @ + 1]

-----------------------------------------------------------------------------
(* All levels. *)

\* task_now
TaskNow(ctl) == ctl.lv[ctl.now_lv].tasks[ctl.lv[ctl.now_lv].now]

\* task_add
TaskAdd(ctl, t) ==
    [ctl EXCEPT !.lv[ctl.level[t]] = LevelAdd(@, t),
                !.flags[t] = Active]

\* task_remove
TaskRemove(ctl, t) ==
    [ctl EXCEPT !.lv[ctl.level[t]] = LevelRemove(@, t),
                !.flags[t] = Asleep]

\* The search loop of task_switchsub: the first level with a task, if any.
IsTopLevel(ctl, l) ==
    /\ ctl.lv[l].running > 0
    /\ \A k \in DOMAIN ctl.lv : k < l => ctl.lv[k].running <= 0

\* task_switchsub
SwitchSub(ctl) ==
    [ctl EXCEPT !.now_lv = CHOOSE l \in DOMAIN ctl.lv : IsTopLevel(ctl, l),
                !.lv_change = 0]

\* task_alloc: the first free entry of tasks0, tasks being numbered there.
Allocated(ctl, t) == [ctl EXCEPT !.flags[t] = Asleep]

\* Slip: a task that changes level stays in its old queue.
RequeuedInPlace(ctl, t, level) ==
    LET moved == [ctl EXCEPT !.level[t] = level]
    IN  IF ctl.flags[t] # Active THEN TaskAdd(moved, t) ELSE moved

\* The two ifs of task_run: a task that changes level leaves its queue, and a
\* task in no queue enters the one of its level.
Requeued(ctl, t, level) ==
    LET out == IF ctl.flags[t] = Active /\ ctl.level[t] # level
               THEN TaskRemove(ctl, t)
               ELSE ctl
    IN  IF out.flags[t] # Active
        THEN TaskAdd([out EXCEPT !.level[t] = level], t)
        ELSE out

Same == -1   \* as a level or 0 as a priority: leave it as it is

\* Slip: priority 0 is taken for a priority.
TaskRunNoSlice(ctl, t, level, priority) ==
    [Requeued(ctl, t, IF level < 0 THEN ctl.level[t] ELSE level)
       EXCEPT !.priority[t] = priority,
              !.lv_change = 1]

\* Slip: the next task_switch is not told to look at the levels.
TaskRunUnnoticed(ctl, t, level, priority) ==
    [Requeued(ctl, t, IF level < 0 THEN ctl.level[t] ELSE level)
       EXCEPT !.priority[t] = IF priority > 0 THEN priority ELSE @]

\* task_run
TaskRun(ctl, t, level, priority) ==
    LET prio == IF priority > 0 THEN priority ELSE ctl.priority[t]
    IN  [Requeued(ctl, t, IF level < 0 THEN ctl.level[t] ELSE level)
           EXCEPT !.priority[t] = prio,
                  !.lv_change = 1]

\* Slip: lv_change is only looked at when nobody on the level has a turn to take.
TaskSwitchKeepsLevel(ctl) ==
    LET turned == [ctl EXCEPT !.lv[ctl.now_lv] = LevelAdvance(@)]
    IN  IF ctl.lv_change # 0 /\ ctl.lv[ctl.now_lv].running < 2
        THEN SwitchSub(turned)
        ELSE turned

\* task_switch: the CPU goes to TaskNow of the result.
TaskSwitch(ctl) ==
    LET turned == [ctl EXCEPT !.lv[ctl.now_lv] = LevelAdvance(@)]
    IN  IF ctl.lv_change # 0 THEN SwitchSub(turned) ELSE turned

\* task_sleep: the CPU changes hands only if the task sent to sleep has it.
TaskSleep(ctl, t) ==
    IF ctl.flags[t] # Active THEN ctl
    ELSE IF t = TaskNow(ctl) THEN SwitchSub(TaskRemove(ctl, t))
    ELSE TaskRemove(ctl, t)
=============================================================================
