----------------------------- MODULE Scheduler -----------------------------
(***************************************************************************)
(* The multitasking of the kernel: mtask.c as its callers drive it.        *)
(*                                                                         *)
(*   TaskA     the task that booted and runs HariMain, the window manager; *)
(*             it starts on level 0 and demotes itself to level 1          *)
(*   Consoles  the slots of the console tasks, on level 2; open_constask   *)
(*             starts them, close_constask ends them                       *)
(*   Idle      task_idle, on the last level, which never sleeps            *)
(*                                                                         *)
(* cpu is the task whose registers the processor holds: farjmp changes it. *)
(* Each action is one call of mtask.c made in a handler (interrupts are    *)
(* off) or by the running task, taken as atomic; what an interrupt in the  *)
(* middle of a task's own call does is the subject of module WakeRace.     *)
(***************************************************************************)
EXTENDS Integers, FiniteSets, Mtask

CONSTANTS TaskA, Idle, Consoles,
          NoEntry,         \* what an array entry holds that was never written
          LastLevel,      \* MAX_TASKLEVELS - 1
          MaxPerLevel     \* MAX_TASKS_LV

Tasks == {TaskA, Idle} \cup Consoles
Levels == 0 .. LastLevel
Slots == 0 .. MaxPerLevel - 1
ConsoleLevel == 2

ASSUME TaskAssumption == /\ TaskA # Idle
                         /\ TaskA \notin Consoles
                         /\ Idle \notin Consoles
                         /\ NoEntry \notin Tasks
ASSUME LevelAssumption == LastLevel \in Nat /\ LastLevel > ConsoleLevel

\* The arrays hold every task that could be active at once.  mtask.c does not
\* check it: MAX_TASKS is 1024, MAX_TASKS_LV is 100.
ASSUME RoomAssumption == /\ MaxPerLevel \in Nat \ {0}
                         /\ IsFiniteSet(Consoles)
                         /\ Cardinality(Consoles) <= MaxPerLevel

VARIABLES ctl,       \* taskctl
          cpu,       \* the task that runs
          slice,     \* timer interrupts until task_timer is due
          leaving    \* consoles that executed cmd_exit and only sleep from now on

vars == <<ctl, cpu, slice, leaving>>

-----------------------------------------------------------------------------
(* Boot.  task_init takes the memory of taskctl from memman_alloc_4k and   *)
(* does not set running and now of the levels, so their first values are   *)
(* what the memory held: ram[l].                                           *)

RawTaskctl(ram) ==
    [now_lv |-> 0, lv_change |-> 0,
     lv |-> [l \in Levels |-> [running |-> ram[l].running, now |-> ram[l].now,
                               tasks |-> [i \in Slots |-> NoEntry]]],
     flags |-> [t \in Tasks |-> Free],
     level |-> [t \in Tasks |-> 0],
     priority |-> [t \in Tasks |-> 0]]

\* task_init up to the first task: allocate, fill in, task_add, task_switchsub.
FirstTask(c) ==
    SwitchSub(TaskAdd([c EXCEPT !.priority[TaskA] = 2,
                                !.level[TaskA] = 0], TaskA))

\* Slip: the idle task is never run.
BootedWithoutIdle(ram) == Allocated(FirstTask(RawTaskctl(ram)), Idle)

\* task_init
Booted(ram) == TaskRun(Allocated(FirstTask(RawTaskctl(ram)), Idle), Idle, LastLevel, 1)

\* Memory that reads as zero, as after power-on in an emulator.
ZeroRam == [l \in Levels |-> [running |-> 0, now |-> 0]]

Init == /\ ctl = Booted(ZeroRam)
        /\ cpu = TaskA
        /\ slice = ctl.priority[TaskA]
        /\ leaving = {}

-----------------------------------------------------------------------------
\* HariMain: task_run(task_a, 1, 0), once.
Demote == /\ cpu = TaskA
          /\ ctl.level[TaskA] = 0
          /\ ctl' = TaskRun(ctl, TaskA, 1, 0)
          /\ UNCHANGED <<cpu, slice, leaving>>

\* inthandler20 before task_timer is due.
Tick == /\ slice > 1
        /\ slice' = slice - 1
        /\ UNCHANGED <<ctl, cpu, leaving>>

\* inthandler20 when task_timer is due: task_switch, which sets the timer to
\* the slice of the task it picks.
Switch == /\ slice = 1
          /\ ctl' = TaskSwitch(ctl)
          /\ cpu' = TaskNow(ctl')
          /\ slice' = ctl'.priority[cpu']
          /\ UNCHANGED leaving

\* fifo32_put, by a handler or by a task, into the queue of a task that is
\* asleep: task_run(task, -1, 0).
Wake(t) == /\ t # Idle
           /\ ctl.flags[t] = Asleep
           /\ ctl' = TaskRun(ctl, t, Same, 0)
           /\ UNCHANGED <<cpu, slice, leaving>>

\* HariMain after it redirected an application to asm_end_app, by Ctrl+C or by
\* the close button: task_run(task, -1, 0) whether the task sleeps or not.
Rouse(t) == /\ cpu = TaskA
            /\ ctl.level[TaskA] # 0
            /\ t \in Consoles \ leaving
            /\ ctl.flags[t] # Free
            /\ ctl' = TaskRun(ctl, t, Same, 0)
            /\ UNCHANGED <<cpu, slice, leaving>>

\* task_sleep(task) by the task itself, its queue being empty; of a console
\* that leaves, in the endless loop of cmd_exit.  task_timer runs on.
Sleep(t) == /\ cpu = t
            /\ t # Idle
            /\ ctl.level[t] # 0
            /\ ctl' = TaskSleep(ctl, t)
            /\ cpu' = IF t = TaskNow(ctl) THEN TaskNow(ctl') ELSE cpu
            /\ UNCHANGED <<slice, leaving>>

\* open_constask, from HariMain or from the start and open commands of a
\* console: task_alloc and task_run(task, 2, 2).
Open(t) == /\ cpu \in {TaskA} \cup (Consoles \ leaving)
           /\ ctl.level[TaskA] # 0
           /\ t \in Consoles
           /\ ctl.flags[t] = Free
           /\ ctl' = TaskRun(Allocated(ctl, t), t, ConsoleLevel, 2)
           /\ UNCHANGED <<cpu, slice, leaving>>

\* cmd_exit: the message to HariMain wakes TaskA.
Exit(t) == /\ cpu = t
           /\ t \in Consoles \ leaving
           /\ leaving' = leaving \cup {t}
           /\ ctl' = IF ctl.flags[TaskA] # Active THEN TaskRun(ctl, TaskA, Same, 0) ELSE ctl
           /\ UNCHANGED <<cpu, slice>>

\* close_constask, when HariMain reads that message: task_sleep(task) and
\* flags = 0.
Close(t) == /\ cpu = TaskA
            /\ t \in leaving
            /\ ctl' = LET asleep == TaskSleep(ctl, t)
                      IN  [asleep EXCEPT !.flags[t] = Free]
            /\ leaving' = leaving \ {t}
            /\ UNCHANGED <<cpu, slice>>

Next == \/ Demote
        \/ Tick
        \/ Switch
        \/ \E t \in Tasks : Wake(t) \/ Rouse(t) \/ Sleep(t)
        \/ \E t \in Consoles : Open(t) \/ Exit(t) \/ Close(t)

Spec == Init /\ [][Next]_vars

\* The timer interrupts again and again, and task_timer is always armed.
FairSpec == Spec /\ WF_vars(Tick) /\ WF_vars(Switch)

-----------------------------------------------------------------------------
(* Properties. *)

LevelType == LevelRecords(MaxPerLevel, Tasks \cup {NoEntry})

\* taskctl, the running task and the leaving consoles keep their ranges.
TypeOK ==
    /\ ctl \in [now_lv : Levels, lv_change : {0, 1}, lv : [Levels -> LevelType],
                flags : [Tasks -> {Free, Asleep, Active}],
                level : [Tasks -> Levels], priority : [Tasks -> 0 .. 2]]
    /\ cpu \in Tasks
    /\ slice \in 1 .. 2
    /\ leaving \subseteq Consoles

\* The first running entries of a level are its active tasks, each once: a
\* task that flags calls active is never missing from its queue, never twice
\* in one, never in the queue of another level (task_add and task_remove keep
\* flags, level, running and the array in step).
RunQueues ==
    \A l \in Levels :
        /\ Window(ctl.lv[l]) = {t \in Tasks : ctl.flags[t] = Active /\ ctl.level[t] = l}
        /\ Distinct(ctl.lv[l])

\* task_now is the task that runs, and it is active.  Every system call finds
\* its console through task_now.  It holds between task_run(task_a, 1, 0) and
\* the next task_switch only because task_remove leaves a stale pointer to
\* task_a in the emptied level 0.
CpuIsTaskNow == TaskNow(ctl) = cpu /\ ctl.flags[cpu] = Active

\* Unless a level change is pending, nobody above the current level is active:
\* task_run's lv_change makes the next task_switch look at the levels anew.
NothingAbove ==
    ctl.lv_change = 0 => IsTopLevel(ctl, ctl.now_lv)

\* There is always something to run: task_switchsub finds a level.
IdleIsReady == ctl.flags[Idle] = Active /\ ctl.level[Idle] = LastLevel

\* The processor is handed only to a task of the highest level with an active
\* task, whoever gave it up and why.
HandsOverToTop ==
    [][cpu' # cpu => IsTopLevel(ctl', ctl'.level[cpu'])]_vars

\* An active task gets the processor, unless some task of a higher level stays
\* active for ever or its own level never comes to rest: tasks that fall asleep
\* and are woken again queue up behind, but pass the turn on to one another.
HigherActive(t) == \E u \in Tasks : ctl.flags[u] = Active /\ ctl.level[u] < ctl.level[t]
PeerLeaves(t) == \E u \in Tasks \ {t} : /\ ctl.level[u] = ctl.level[t]
                                         /\ ctl.flags[u] = Active
                                         /\ ctl'.flags[u] # Active
FairShare ==
    \A t \in Tasks :
        \/ []<>(cpu = t)
        \/ []<>(ctl.flags[t] # Active)
        \/ <>[]HigherActive(t)
        \/ []<><<PeerLeaves(t)>>_vars
=============================================================================
