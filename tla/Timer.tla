------------------------------- MODULE Timer -------------------------------
(***************************************************************************)
(* The timers of osask/src/sys/timer.c and their users.                    *)
(*                                                                         *)
(* The armed timers are linked through next in the order of their times,   *)
(* from timerctl.t0 to a sentinel that is never due; timerctl.next is the  *)
(* time of the first.  An interrupt cuts off the beginning of the list.    *)
(*                                                                         *)
(* Users: task_switch re-arms TaskTimer in the interrupt; a console has a  *)
(* timer for its cursor, which it arms with interrupts enabled, and its    *)
(* application allocates timers of its own (API 16 to 19, interrupts       *)
(* disabled), which timer_cancelall takes back when it ends.               *)
(*                                                                         *)
(* Exposed names the things the code does not protect itself against:      *)
(*   "kill_arming"  Ctrl+C or the close button ends an application while   *)
(*                  its system call arms the cursor timer                  *)
(*   "init_late"    a task switch between an application's timer_alloc     *)
(*                  (API 16) and its timer_init (API 17)                   *)
(*   "set_armed"    an application arms a timer that is armed (API 18)     *)
(*   "free_armed"   an application frees a timer that is armed (API 19)    *)
(***************************************************************************)
EXTENDS Integers, FiniteSets, FiniteSetsExt

CONSTANTS Others,       \* the timers but for the sentinel and TaskTimer
          Sentinel, TaskTimer, Nil,
          Consoles,     \* their queues: timer->fifo
          CursorDelay,  \* the time of a cursor's blink, in interrupts
          Delays,       \* the times applications arm their timers for
          Slices,       \* the priorities of tasks
          Never,        \* 0xffffffff
          MaxCount,     \* bound on count, so that no sum wraps around
          Exposed

All == {Sentinel, TaskTimer} \cup Others

ASSUME TimerAssumption ==
    /\ Sentinel # TaskTimer /\ {Sentinel, TaskTimer} \cap Others = {} /\ Nil \notin All \cup Consoles
    /\ IsFiniteSet(Others)
    /\ CursorDelay \in Nat \ {0} /\ Delays \subseteq Nat /\ Slices \subseteq Nat \ {0}
    /\ MaxCount \in Nat /\ Never \in Nat
    /\ \A d \in Delays \cup Slices \cup {CursorDelay} : MaxCount + d < Never
    /\ Exposed \subseteq {"kill_arming", "init_late", "set_armed", "free_armed"}

NotUsed == 0
Alloc == 1    \* TIMER_FLAGS_ALLOC
Using == 2    \* TIMER_FLAGS_USING

\* timer_t, and the structure with all of them.
TimerRecords == [next : All \cup {Nil}, timeout : 0 .. Never, flags : {NotUsed, Alloc, Using},
                 flags2 : {0, 1}, fifo : Consoles \cup {Nil}]
Controls == [timers0 : [All -> TimerRecords], t0 : All, next : 0 .. Never, count : 0 .. MaxCount]

VARIABLES timerctl,  \* the structure: timers0, t0, next and count
          rang,      \* the timers that expired at the last interrupt
          cursor,    \* of each console cons->timer, or Nil
          app,       \* the consoles that run an application
          user,      \* of each timer the console that uses it, or Nil
          pending,   \* the cursor timers that their console is about to arm
          arming     \* those between flags = USING and io_cli in timer_settime

vars == <<timerctl, rang, cursor, app, user, pending, arming>>

-----------------------------------------------------------------------------
(* The list.  ctl is a value of timerctl. *)

Positions == 0 .. Cardinality(All)

\* The timers in the order of the list; the sentinel's next is 0.
Chain(ctl) ==
    LET f[i \in Positions] ==
          IF i = 0 THEN ctl.t0
          ELSE IF f[i - 1] = Nil THEN Nil ELSE ctl.timers0[f[i - 1]].next
    IN  f

Time(ctl, t) == ctl.timers0[t].timeout

\* Slip: the time is taken for a time that is left.
ReadyLeft(ctl, t, d) == [ctl EXCEPT !.timers0[t].timeout = d - ctl.count,
                                    !.timers0[t].flags = Using]

\* The first half of timer_settime, before io_cli.
Ready(ctl, t, d) == [ctl EXCEPT !.timers0[t].timeout = d + ctl.count,
                                !.timers0[t].flags = Using]

\* Slip: the timer always goes to the front.
InsertFront(ctl, t) == [ctl EXCEPT !.timers0[t].next = ctl.t0,
                                   !.t0 = t,
                                   !.next = Time(ctl, t)]

\* The second half: t goes in front of the first timer that is not earlier.
Insert(ctl, t) ==
    LET c == Chain(ctl)
        k == Min({i \in Positions : c[i] # Nil /\ Time(ctl, t) <= Time(ctl, c[i])})
    IN  IF k = 0 THEN [ctl EXCEPT !.timers0[t].next = ctl.t0,
                                  !.t0 = t,
                                  !.next = Time(ctl, t)]
        ELSE [ctl EXCEPT !.timers0[t].next = c[k],
                         !.timers0[c[k - 1]].next = t]

Settime(ctl, t, d) == Insert(Ready(ctl, t, d), t)

\* The timer that timer_cancel's walk finds in front of t.
Before(ctl, t) ==
    LET c == Chain(ctl)
    IN  c[Min({i \in Positions : c[i] # Nil /\ ctl.timers0[c[i]].next = t})]

\* Slip: every timer is cancelled as if it were the first.
CancelFirst(ctl, t) ==
    LET rest == ctl.timers0[t].next
    IN  IF ctl.timers0[t].flags # Using THEN ctl
        ELSE [ctl EXCEPT !.timers0[t].flags = Alloc, !.t0 = rest, !.next = Time(ctl, rest)]

\* timer_cancel.
Cancel(ctl, t) ==
    LET rest == ctl.timers0[t].next
        idle == [ctl EXCEPT !.timers0[t].flags = Alloc]
    IN  IF ctl.timers0[t].flags # Using THEN ctl
        ELSE IF t = ctl.t0 THEN [idle EXCEPT !.t0 = rest, !.next = Time(ctl, rest)]
        ELSE [idle EXCEPT !.timers0[Before(ctl, t)].next = rest]

\* timer_free.
Release(ctl, t) == [ctl EXCEPT !.timers0[t].flags = NotUsed]

\* Slip: flags2 is not looked at.
CancelableAny(ctl, f) == {t \in All : /\ ctl.timers0[t].flags # NotUsed
                                      /\ ctl.timers0[t].fifo = f}

\* timer_cancelall: of the timers of one queue those that may be cancelled.
Cancelable(ctl, f) == {t \in All : /\ ctl.timers0[t].flags # NotUsed
                                   /\ ctl.timers0[t].flags2 # 0
                                   /\ ctl.timers0[t].fifo = f}

CancelAll(ctl, f) ==
    FoldSet(LAMBDA t, c : Release(Cancel(c, t), t), ctl, Cancelable(ctl, f))

\* timer_alloc of t; timer_init gives it the queue f.
Allocate(ctl, t, f, flags2) ==
    [ctl EXCEPT !.timers0[t].flags = Alloc, !.timers0[t].flags2 = flags2,
                !.timers0[t].fifo = f]

\* Slip: a timer is due the interrupt after its time.
ExpiredLate(ctl) == LET c == Chain(ctl) IN
    {c[i] : i \in {j \in Positions : \A k \in 0 .. j :
                     c[k] # Nil /\ Time(ctl, c[k]) < ctl.count}}

\* What the interrupt cuts off: the beginning of the list that is due.
Expired(ctl) == LET c == Chain(ctl) IN
    {c[i] : i \in {j \in Positions : \A k \in 0 .. j :
                     c[k] # Nil /\ Time(ctl, c[k]) <= ctl.count}}

\* Slip: what was cut off keeps its flags.
ExpireKeepsFlags(ctl) ==
    LET c == Chain(ctl)
        first == c[Min({i \in Positions : c[i] \notin Expired(ctl)})]
    IN  [ctl EXCEPT !.t0 = first, !.next = Time(ctl, first)]

Expire(ctl) ==
    LET c == Chain(ctl)
        first == c[Min({i \in Positions : c[i] \notin Expired(ctl)})]
    IN  [ctl EXCEPT !.timers0 = [t \in All |-> IF t \in Expired(ctl)
                                   THEN [ctl.timers0[t] EXCEPT !.flags = Alloc]
                                   ELSE ctl.timers0[t]],
                    !.t0 = first,
                    !.next = Time(ctl, first)]

-----------------------------------------------------------------------------
Unused == [next |-> Nil, timeout |-> 0, flags |-> NotUsed, flags2 |-> 0, fifo |-> Nil]

\* init_pit takes the sentinel, task_init takes and arms TaskTimer.
Init == /\ \E s \in Slices :
             timerctl = Settime([timers0 |->
                 [t \in All |-> IF t = Sentinel
                               THEN [Unused EXCEPT !.timeout = Never, !.flags = Using]
                               ELSE Unused],
                 t0 |-> Sentinel, next |-> Never, count |-> 0], TaskTimer, s)
        /\ rang = {}
        /\ cursor = [f \in Consoles |-> Nil]
        /\ app = {}
        /\ user = [t \in Others |-> Nil]
        /\ pending = {} /\ arming = {}

\* A console that opens allocates its cursor timer and arms it; one without a
\* window does without.
OpenCursor(f) ==
    /\ cursor[f] = Nil /\ f \notin app
    /\ \E t \in Others :
         /\ timerctl.timers0[t].flags = NotUsed
         /\ timerctl' = Ready(Allocate(timerctl, t, f, 0), t, CursorDelay)
         /\ cursor' = [cursor EXCEPT ![f] = t]
         /\ user' = [user EXCEPT ![t] = f]
         /\ arming' = arming \cup {t}
    /\ UNCHANGED <<rang, app, pending>>

\* The cursor timer is armed again for each datum it sends, by console_task or
\* in API 15.  This and the first time run with interrupts enabled.
CursorReady(t) == /\ t \in pending
                  /\ timerctl' = Ready(timerctl, t, CursorDelay)
                  /\ pending' = pending \ {t}
                  /\ arming' = arming \cup {t}
                  /\ UNCHANGED <<rang, cursor, app, user>>

CursorInsert(t) == /\ t \in arming
                   /\ timerctl' = Insert(timerctl, t)
                   /\ arming' = arming \ {t}
                   /\ UNCHANGED <<rang, cursor, app, user, pending>>

\* The task of a console is within timer_settime.
Busy(f) == cursor[f] \in arming

\* API 15 on the datum 4: the window is closed, the application goes on.
CloseWindow(f) == /\ cursor[f] # Nil /\ f \in app /\ ~Busy(f)
                  /\ timerctl' = Cancel(timerctl, cursor[f])
                  /\ UNCHANGED <<rang, cursor, app, user, pending, arming>>

\* cmd_exit: the timer is cancelled, not freed.
Exit(f) == /\ cursor[f] # Nil /\ f \notin app /\ ~Busy(f)
           /\ timerctl' = Cancel(timerctl, cursor[f])
           /\ cursor' = [cursor EXCEPT ![f] = Nil]
           /\ user' = [user EXCEPT ![cursor[f]] = Nil]
           /\ pending' = pending \ {cursor[f]}
           /\ UNCHANGED <<rang, app, arming>>

\* cmd_app.
AppStart(f) == /\ f \notin app /\ ~Busy(f)
               /\ app' = app \cup {f}
               /\ UNCHANGED <<timerctl, rang, cursor, user, pending, arming>>

\* The application of f, not in a system call, and one of its timers.
Running(f) == f \in app /\ ~Busy(f)
AppTimer(t, f) == user[t] = f /\ cursor[f] # t

\* API 16 and 17.
AppAlloc(f) ==
    /\ Running(f)
    /\ \E t \in Others :
         /\ timerctl.timers0[t].flags = NotUsed
         /\ timerctl' = Allocate(timerctl, t, IF "init_late" \in Exposed
                                     THEN timerctl.timers0[t].fifo ELSE f, 1)
         /\ user' = [user EXCEPT ![t] = f]
    /\ UNCHANGED <<rang, cursor, app, pending, arming>>

\* API 17 by itself.
AppInit(t, f) == /\ Running(f) /\ AppTimer(t, f)
                 /\ timerctl' = [timerctl EXCEPT !.timers0[t].fifo = f]
                 /\ UNCHANGED <<rang, cursor, app, user, pending, arming>>

\* API 18.  timer_settime takes any timer; only the application knows whether
\* it is armed.
AppSet(t, f, d) ==
    /\ Running(f) /\ AppTimer(t, f) /\ timerctl.timers0[t].fifo = f
    /\ "set_armed" \in Exposed \/ timerctl.timers0[t].flags = Alloc
    /\ timerctl' = Settime(timerctl, t, d)
    /\ UNCHANGED <<rang, cursor, app, user, pending, arming>>

\* API 19, just as little guarded.
AppFree(t, f) ==
    /\ Running(f) /\ AppTimer(t, f)
    /\ "free_armed" \in Exposed \/ timerctl.timers0[t].flags = Alloc
    /\ timerctl' = Release(timerctl, t)
    /\ user' = [user EXCEPT ![t] = Nil]
    /\ UNCHANGED <<rang, cursor, app, pending, arming>>

\* The end of cmd_app, reached by API 4, or by asm_end_app wherever Ctrl+C or
\* the close button of its window meets the application.
AppEnd(f) ==
    /\ f \in app
    /\ Busy(f) => "kill_arming" \in Exposed
    /\ timerctl' = CancelAll(timerctl, f)
    /\ app' = app \ {f}
    /\ user' = [t \in Others |-> IF AppTimer(t, f) THEN Nil ELSE user[t]]
    /\ arming' = arming \ {cursor[f]}
    /\ UNCHANGED <<rang, cursor, pending>>

\* inthandler20.  Each expired timer sends its datum, which a full queue drops;
\* task_switch arms TaskTimer for the slice of the task that runs next.
inthandler20 ==
    LET now == [timerctl EXCEPT !.count = timerctl.count + 1]
        due == Expired(now)
    IN  /\ timerctl.count < MaxCount
        /\ UNCHANGED <<cursor, app, user, arming>>
        /\ \/ /\ now.next > now.count
              /\ timerctl' = now
              /\ rang' = {}
              /\ UNCHANGED pending
           \/ /\ now.next <= now.count
              /\ rang' = due
              /\ \E kept \in SUBSET {t \in due : \E f \in Consoles : cursor[f] = t} :
                   pending' = pending \cup kept
              /\ IF TaskTimer \in due
                 THEN \E s \in Slices : timerctl' = Settime(Expire(now), TaskTimer, s)
                 ELSE timerctl' = Expire(now)

Next == \/ \E f \in Consoles :
             \/ OpenCursor(f) \/ CloseWindow(f) \/ Exit(f)
             \/ AppStart(f) \/ AppAlloc(f) \/ AppEnd(f)
        \/ \E t \in Others : CursorReady(t) \/ CursorInsert(t)
        \/ \E t \in Others, f \in Consoles :
             \/ AppInit(t, f) \/ AppFree(t, f)
             \/ \E d \in Delays : AppSet(t, f, d)
        \/ inthandler20

Spec == Init /\ [][Next]_vars

-----------------------------------------------------------------------------
(* Properties. *)

Linked == {Chain(timerctl)[i] : i \in Positions} \ {Nil}

\* Every variable has a value of its type.
TypeOK ==
    /\ timerctl \in Controls
    /\ rang \subseteq All
    /\ cursor \in [Consoles -> Others \cup {Nil}]
    /\ app \subseteq Consoles
    /\ user \in [Others -> Consoles \cup {Nil}]
    /\ pending \subseteq Others /\ arming \subseteq Others

\* The list has no cycle, is in the order of the times and ends with the
\* sentinel: the loops of timer_settime, timer_cancel and inthandler20, which
\* have no other bound, come to an end.  What is in it is armed, as inthandler20
\* takes for granted, and timerctl.next, which is compared with the time before
\* the list is looked at, is the time of its first.
ListInOrder ==
    LET c == Chain(timerctl) IN
    /\ \E n \in Positions :
         /\ c[n] = Sentinel
         /\ \A i \in 0 .. n - 1 :
              /\ c[i] \notin {c[j] : j \in i + 1 .. n}
              /\ Time(timerctl, c[i]) <= Time(timerctl, c[i + 1])
    /\ \A t \in Linked : timerctl.timers0[t].flags = Using
    /\ timerctl.next = Time(timerctl, timerctl.t0)

\* timer_cancel walks the list to the timer in front of an armed one: it is
\* there, unless its own task has not linked it yet and cannot cancel it.
ArmedIsLinked ==
    \A t \in All : timerctl.timers0[t].flags = Using => t \in Linked \cup arming

\* A timer in use is not free for timer_alloc to hand out once more.
OneUser == \A t \in Others : user[t] # Nil => timerctl.timers0[t].flags # NotUsed

\* The task switch is always going to happen: no interrupt and no cancellation
\* takes TaskTimer out of the list for good.
SliceRuns == TaskTimer \in Linked

\* The list implements the alarms: each timer rings at the first interrupt that
\* is not before its time, none is forgotten and none rings that was cancelled.
Promise == INSTANCE Alarms WITH
    Timers <- All \ {Sentinel},
    Never <- Never,
    now <- timerctl.count,
    due <- [t \in Linked \ {Sentinel} |-> Time(timerctl, t)],
    rang <- rang

ImplementsAlarms == Promise!Spec
=============================================================================
