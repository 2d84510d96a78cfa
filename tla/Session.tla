------------------------------ MODULE Session ------------------------------
(***************************************************************************)
(* Who is there: the windows, the consoles and their applications, and the *)
(* messages by which HariMain (bootpack.c) and the console tasks           *)
(* (console.c) tell each other that one of them opens, closes or ends.     *)
(*                                                                         *)
(* HariMain runs on a level above the consoles, so a handler of its loop   *)
(* is one step.  Keys and clicks come through the queue that also brings   *)
(* the messages of consoles; an event handled while messages are waiting   *)
(* is one that arrived before them.  A console can be interrupted by       *)
(* HariMain at any place where interrupts are enabled.  System calls are   *)
(* masked up to the loop of API 15.                                        *)
(*                                                                         *)
(* A line typed into a console is one datum; what the line says is decided *)
(* when it is run.  Cursor timers are the subject of module Timer, the     *)
(* picture of the stack that of module Desktop.                            *)
(***************************************************************************)
EXTENDS Integers, Sequences, FiniteSets, SequencesExt

CONSTANTS
    SlotCount,   \* the tasks that open_constask may be given
    SheetCount,  \* the sheets besides the background and the pointer
    QueueSize,   \* how many data wait for a console at most (128)
    TypeAhead,   \* how many data wait for the consoles at most when the user acts
    Exposed      \* what the code does not guard against and may happen

\* "typing":  a key or the close button reaches a console that cmd_start is to type into
\* "hiding":  an application is ended after API 15 took the datum 4
\* "ending":  the close button is hit when the application is ending already
Hazards == {"typing", "hiding", "ending"}

ASSUME SessionAssumption ==
    /\ SlotCount \in Nat \ {0}
    /\ SheetCount \in Nat \ {0}
    /\ QueueSize \in Nat \ {0}
    /\ TypeAhead \in Nat \ {0}
    /\ Exposed \subseteq Hazards

Slots == 1 .. SlotCount
Windows == 1 .. SheetCount

May(hazard) == hazard \in Exposed

None == 0      \* no window, no task
Back == -1     \* the background, when it is key_win

VARIABLES
    kind,     \* of each sheet: free, or what its flags 0x10 and 0x20 say
    owner,    \* sheet_t.task
    order,    \* the visible windows, from the back to the front
    key_win,  \* the window with the focus
    reused,   \* history: key_win was freed, and cmd_start has it before HariMain noticed
    mail,     \* what consoles have put into HariMain's queue
    pc,       \* where each task is
    sht,      \* cons.sht of each task
    inbox,    \* the queue of each task
    cursor,   \* cons.cur_c >= 0
    child     \* the window that cmd_start of the task is opening

vars == <<kind, owner, order, key_win, reused, mail, pc, sht, inbox, cursor, child>>

windows == <<kind, owner, order>>
focus == <<key_win, reused>>
tasks == <<pc, sht, inbox, cursor, child>>

\* The application runs or may run on: tss.ss0 is not 0.
InApp == {"app", "hiding"}

\* "astray": asm_end_app has returned to whatever the kernel stack held.
Places == {"free", "loop", "start", "show", "type", "exit", "ended", "cleanup", "astray"}
          \cup InApp

\* What a console puts into the queue of HariMain: 768 + sheet, 1024 + task,
\* 2024 + sheet.
Message(code, n) == [code |-> code, of |-> n]

-----------------------------------------------------------------------------
(* Windows and queues. *)

FreeWindows == {w \in Windows : kind[w] = "free"}
FreeSlots == {t \in Slots : pc[t] = "free"}

\* sheet_alloc and task_alloc take the first free entry of their table.
First(S) == CHOOSE n \in S : \A m \in S : n <= m

\* fifo32_put; with QueueFits, without the data that find the queue full.
Put(queues, t, datum) == [queues EXCEPT ![t] = Append(@, datum)]

QueuesFit == \A t \in Slots : Len(inbox'[t]) <= QueueSize

\* The user is kept from filling a queue: at most TypeAhead data wait when a key or a
\* click puts more, and one place is left for what the end of another console brings.
UserQueuesFit == inbox' # inbox =>
    /\ Cardinality(UNION {{t} \X DOMAIN inbox[t] : t \in Slots}) <= TypeAhead
    /\ \A t \in Slots : Len(inbox'[t]) < QueueSize

\* A task for whoever opens a console now; cmd_start is sure of the one it needs.
SlotLeft == Cardinality(FreeSlots) > Cardinality({t \in Slots : pc[t] = "start"})

\* keywin_off and keywin_on: only a console's window has flag 0x20.
Notify(queues, w, datum) ==
    IF w \in Windows /\ kind[w] = "console" THEN Put(queues, owner[w], datum) ELSE queues
Off(queues, w) == Notify(queues, w, "off")
On(queues, w) == Notify(queues, w, "on")

\* sheet_updown: taken out of the stack at its height, or put on the top.
Height(w) == CHOOSE i \in DOMAIN order : order[i] = w
Without(w) == IF Contains(order, w) THEN RemoveAt(order, Height(w)) ELSE order
Raised(w) == Append(Without(w), w)
Top(stack) == IF stack = <<>> THEN Back ELSE Last(stack)

-----------------------------------------------------------------------------
(* HariMain: every message first finds out whether the window with the     *)
(* focus was closed; if so the highest window gets it.                     *)

Lost == key_win \in Windows /\ kind[key_win] = "free"

\* Slip: nobody looks whether the window is still there.
FocusUnchecked == key_win

Focus == IF ~Lost THEN key_win
         ELSE IF order = <<>> THEN None ELSE Last(order)

Queues == IF Lost THEN On(inbox, Focus) ELSE inbox

\* keywin_on is not called for a window that keeps the focus.
FocusStays == reused' = (reused /\ key_win' = key_win)

\* The tasks that cmd_start of another one has started and types a line into.
TypedInto == {owner[child[t]] : t \in {u \in Slots : pc[u] \in {"show", "type"}}}

\* A key, or a line of them, for the window with the focus.  The queue of task 0,
\* of the background and of a window that has no task yet, is memory at a small
\* address; what a key does there is undefined and left out.
Type ==
    /\ Focus \in Windows /\ owner[Focus] # None
    /\ Len(SelectSeq(inbox[owner[Focus]], LAMBDA d : d = "line")) < TypeAhead
    /\ May("typing") \/ owner[Focus] \notin TypedInto
    /\ key_win' = Focus /\ FocusStays
    /\ inbox' = Put(Queues, owner[Focus], "line")
    /\ UserQueuesFit
    /\ UNCHANGED <<windows, mail, pc, sht, cursor, child>>

\* Tab: the window below; below the lowest, the highest.  For the background or a
\* window that is not shown sheets[] is read in front of its beginning; what comes
\* of it is undefined and left out.
Tab ==
    /\ Focus \in Windows /\ Contains(order, Focus)
    /\ LET h == Height(Focus)
       IN  key_win' = IF h = 1 THEN Last(order) ELSE order[h - 1]
    /\ reused' = FALSE
    /\ inbox' = On(Off(Queues, Focus), key_win')
    /\ UserQueuesFit
    /\ UNCHANGED <<windows, mail, pc, sht, cursor, child>>

\* Ctrl+C: the application of the console with the focus goes on in asm_end_app.
Interrupt ==
    /\ Focus \in Windows
    /\ key_win' = Focus /\ FocusStays
    /\ LET t == owner[Focus]
       IN  pc' = IF t # None /\ pc[t] \in InApp THEN [pc EXCEPT ![t] = "cleanup"] ELSE pc
    /\ May("hiding") \/ \A t \in Slots : pc'[t] # pc[t] => pc[t] # "hiding"
    /\ inbox' = Queues
    /\ UserQueuesFit
    /\ UNCHANGED <<windows, mail, sht, cursor, child>>

\* open_constask: a console in slot t with window w, or with none.
StartConsole(t, w) ==
    /\ sht' = [sht EXCEPT ![t] = w]
    /\ cursor' = [cursor EXCEPT ![t] = FALSE]

\* Ctrl+T: a new console, with the focus.
NewConsole ==
    /\ FreeWindows # {} /\ SlotLeft
    /\ LET w == First(FreeWindows)
           t == First(FreeSlots)
       IN  /\ kind' = [kind EXCEPT ![w] = "console"]
           /\ owner' = [owner EXCEPT ![w] = t]
           /\ order' = Append(order, w)
           /\ key_win' = w /\ reused' = FALSE
           /\ pc' = [pc EXCEPT ![t] = "loop"]
           /\ StartConsole(t, w)
           /\ inbox' = [Off(Queues, Focus) EXCEPT ![t] = <<"on">>]
    /\ UserQueuesFit
    /\ UNCHANGED <<mail, child>>

\* F11: the lowest window comes to the front.
Cycle ==
    /\ Len(order) > 1
    /\ order' = Raised(Head(order))
    /\ key_win' = Focus /\ FocusStays
    /\ inbox' = Queues
    /\ UserQueuesFit
    /\ UNCHANGED <<kind, owner, mail, pc, sht, cursor, child>>

\* Slip: the window that had the focus is not told.
RefocusedQuietly(w) == IF w = Focus THEN Queues ELSE On(Queues, w)

\* The queues after a click has given the focus to w.
Refocused(w) == IF w = Focus THEN Queues ELSE On(Off(Queues, Focus), w)

\* A click on window w: it comes to the front and gets the focus.  While key_win
\* is 0 keywin_off follows a null pointer, which is left out here and below.
Click(w) ==
    /\ Contains(order, w)
    /\ Focus # None
    /\ order' = Raised(w)
    /\ key_win' = w /\ FocusStays
    /\ inbox' = Refocused(w)
    /\ UserQueuesFit
    /\ UNCHANGED <<kind, owner, mail, pc, sht, cursor, child>>

\* A click on the close button of an application: as Ctrl+C, but whether the
\* application still runs is not looked at.  If it does not, esp0 points into a part
\* of the stack that has been used again, and asm_end_app returns from there.
CloseApp(w) ==
    /\ Contains(order, w) /\ kind[w] = "app"
    /\ Focus # None
    /\ May("hiding") \/ pc[owner[w]] # "hiding"
    /\ May("ending") \/ pc[owner[w]] \in InApp
    /\ order' = Raised(w)
    /\ key_win' = w /\ FocusStays
    /\ inbox' = Refocused(w)
    /\ pc' = [pc EXCEPT ![owner[w]] = IF @ \in InApp THEN "cleanup" ELSE "astray"]
    /\ UserQueuesFit
    /\ UNCHANGED <<kind, owner, mail, sht, cursor, child>>

\* A click on the close button of a console: hidden for the time being, the
\* focus goes to the highest sheet that is left, be it the background, and the
\* console is told.
CloseConsole(w) ==
    /\ Contains(order, w) /\ kind[w] = "console"
    /\ Focus # None
    /\ May("typing") \/ owner[w] \notin TypedInto
    /\ order' = Without(w)
    /\ key_win' = Top(order') /\ reused' = FALSE
    /\ inbox' = Put(On(Off(Refocused(w), w), key_win'), owner[w], "close")
    /\ UserQueuesFit
    /\ UNCHANGED <<kind, owner, mail, pc, sht, cursor, child>>

\* Any other event: all it does here is to notice that the window is gone.
Notice ==
    /\ Lost
    /\ key_win' = Focus /\ FocusStays
    /\ inbox' = Queues
    /\ UserQueuesFit
    /\ UNCHANGED <<windows, mail, pc, sht, cursor, child>>

\* sheet_free.  The task of a sheet that is not in use is not looked at;
\* sheet_alloc sets it to 0.
SheetFree(w) ==
    /\ kind' = [kind EXCEPT ![w] = "free"]
    /\ owner' = [owner EXCEPT ![w] = None]
    /\ order' = Without(w)

\* 768: close_console; 1024: close_constask; 2024: the window alone.  With
\* the task go its stack, where its console structure is, and its queue.
Receive ==
    LET m == Head(mail)
        left == CASE m.code = "console" -> {owner[m.of]}
                  [] m.code = "task" -> {m.of}
                  [] m.code = "window" -> {}
        reset(f, v) == [t \in Slots |-> IF t \in left THEN v ELSE f[t]]
    IN  /\ mail # <<>>
        /\ mail' = Tail(mail)
        /\ key_win' = Focus /\ FocusStays
        /\ IF m.code = "task" THEN UNCHANGED windows ELSE SheetFree(m.of)
        /\ pc' = reset(pc, "free")
        /\ sht' = reset(sht, None)
        /\ inbox' = reset(Queues, <<>>)
        /\ cursor' = reset(cursor, FALSE)
        /\ QueuesFit
        /\ UNCHANGED child

-----------------------------------------------------------------------------
(* Consoles. *)

\* After a command: a console without a window exits.
Done(t) == IF sht[t] = None THEN "exit" ELSE "loop"

Take(t) == inbox' = [inbox EXCEPT ![t] = Tail(@)]

At(t, place, datum) == pc[t] = place /\ inbox[t] # <<>> /\ Head(inbox[t]) = datum

\* The cursor is switched on or off; likewise in the loop of API 15.
SetCursor(t) ==
    /\ \E switch \in {"on", "off"} :
          /\ At(t, "loop", switch) \/ At(t, "app", switch)
          /\ cursor' = [cursor EXCEPT ![t] = (switch = "on")]
    /\ Take(t)
    /\ UNCHANGED <<windows, focus, mail, pc, sht, child>>

\* The datum 4, or the command exit.
Leave(t) ==
    /\ At(t, "loop", "close") \/ At(t, "loop", "line")
    /\ Take(t)
    /\ pc' = [pc EXCEPT ![t] = "exit"]
    /\ UNCHANGED <<windows, focus, mail, sht, cursor, child>>

\* Slip: HariMain is always told the window.
CmdExitWindow(t) ==
    /\ pc[t] = "exit"
    /\ mail' = Append(mail, Message("console", sht[t]))
    /\ pc' = [pc EXCEPT ![t] = "ended"]
    /\ UNCHANGED <<windows, focus, sht, inbox, cursor, child>>

\* cmd_exit: the message to HariMain, then asleep for ever.
CmdExit(t) ==
    /\ pc[t] = "exit"
    /\ mail' = Append(mail, IF sht[t] # None THEN Message("console", sht[t])
                            ELSE Message("task", t))
    /\ pc' = [pc EXCEPT ![t] = "ended"]
    /\ UNCHANGED <<windows, focus, sht, inbox, cursor, child>>

\* A command that opens, starts and ends nothing, or no command.
Plain(t) ==
    /\ At(t, "loop", "line")
    /\ Take(t)
    /\ pc' = [pc EXCEPT ![t] = Done(t)]
    /\ UNCHANGED <<windows, focus, mail, sht, cursor, child>>

\* cmd_start: open_console up to sheet_alloc, which leaves the task of the
\* sheet 0 and its flags without 0x20; if that sheet had the focus when it was
\* freed, HariMain sees flags # 0 again and keeps the focus there ...
StartSheet(t) ==
    /\ At(t, "loop", "line")
    /\ FreeWindows # {} /\ SlotLeft
    /\ Take(t)
    /\ LET w == First(FreeWindows)
       IN  /\ kind' = [kind EXCEPT ![w] = "raw"]
           /\ owner' = [owner EXCEPT ![w] = None]
           /\ child' = [child EXCEPT ![t] = w]
           /\ reused' = (reused \/ w = key_win)
    /\ pc' = [pc EXCEPT ![t] = "start"]
    /\ UNCHANGED <<order, key_win, mail, sht, cursor>>

\* ... open_constask, and the rest of open_console ...
StartTask(t) ==
    /\ pc[t] = "start"
    /\ LET u == First(FreeSlots)
           w == child[t]
       IN  /\ kind' = [kind EXCEPT ![w] = "console"]
           /\ owner' = [owner EXCEPT ![w] = u]
           /\ pc' = [pc EXCEPT ![t] = "show", ![u] = "loop"]
           /\ StartConsole(u, w)
           /\ inbox' = [inbox EXCEPT ![u] = <<>>]
    /\ UNCHANGED <<order, focus, mail, child>>

\* ... sheet_updown ...
StartShow(t) ==
    /\ pc[t] = "show"
    /\ order' = Append(order, child[t])
    /\ pc' = [pc EXCEPT ![t] = "type"]
    /\ UNCHANGED <<kind, owner, focus, mail, sht, inbox, cursor, child>>

\* ... and the rest of the line, put into the queue of the new console.
StartType(t) ==
    /\ pc[t] = "type"
    /\ inbox' = Put(inbox, owner[child[t]], "line")
    /\ QueuesFit
    /\ pc' = [pc EXCEPT ![t] = Done(t)]
    /\ child' = [child EXCEPT ![t] = None]
    /\ UNCHANGED <<windows, focus, mail, sht, cursor>>

\* cmd_open: a console without a window, given the rest of the line.
CmdOpen(t) ==
    /\ At(t, "loop", "line")
    /\ SlotLeft
    /\ LET u == First(FreeSlots)
       IN  /\ inbox' = [inbox EXCEPT ![t] = Tail(@), ![u] = <<"line">>]
           /\ pc' = [pc EXCEPT ![t] = Done(t), ![u] = "loop"]
           /\ StartConsole(u, None)
    /\ UNCHANGED <<windows, focus, mail, child>>

-----------------------------------------------------------------------------
(* Applications: cmd_app and system calls. *)

\* cmd_app up to start_app.
StartApp(t) ==
    /\ At(t, "loop", "line")
    /\ Take(t)
    /\ pc' = [pc EXCEPT ![t] = "app"]
    /\ UNCHANGED <<windows, focus, mail, sht, cursor, child>>

\* API 5
OpenWindow(t) ==
    /\ pc[t] = "app"
    /\ FreeWindows # {}
    /\ LET w == First(FreeWindows)
       IN  /\ kind' = [kind EXCEPT ![w] = "app"]
           /\ owner' = [owner EXCEPT ![w] = t]
           /\ order' = Append(order, w)
    /\ UNCHANGED <<focus, mail, tasks>>

OwnWindows(t) == {w \in Windows : kind[w] = "app" /\ owner[w] = t}

\* API 14, of a window that the application opened.
CloseWindow(t) ==
    /\ pc[t] = "app"
    /\ \E w \in OwnWindows(t) : SheetFree(w)
    /\ UNCHANGED <<focus, mail, tasks>>

\* API 15: a key is handed to the application.
GetKey(t) ==
    /\ At(t, "app", "line")
    /\ Take(t)
    /\ UNCHANGED <<windows, focus, mail, pc, sht, cursor, child>>

\* Slip: the datum is taken, and looked at no further.
TakeCloseAsKey(t) ==
    /\ At(t, "app", "close")
    /\ Take(t)
    /\ UNCHANGED <<windows, focus, mail, pc, sht, cursor, child>>

\* API 15: the console's window was closed; with interrupts enabled the
\* cursor timer is cancelled ...
TakeClose(t) ==
    /\ At(t, "app", "close")
    /\ Take(t)
    /\ pc' = [pc EXCEPT ![t] = "hiding"]
    /\ UNCHANGED <<windows, focus, mail, sht, cursor, child>>

\* Slip: cons.sht keeps the window.
GiveUpWindowKept(t) ==
    /\ pc[t] = "hiding"
    /\ mail' = Append(mail, Message("window", sht[t]))
    /\ pc' = [pc EXCEPT ![t] = "app"]
    /\ UNCHANGED <<windows, focus, sht, inbox, cursor, child>>

\* ... and, between io_cli and io_sti, HariMain is told to free the window.
GiveUpWindow(t) ==
    /\ pc[t] = "hiding"
    /\ mail' = Append(mail, Message("window", sht[t]))
    /\ sht' = [sht EXCEPT ![t] = None]
    /\ pc' = [pc EXCEPT ![t] = "app"]
    /\ UNCHANGED <<windows, focus, inbox, cursor, child>>

\* API 4, or an exception.
EndApp(t) ==
    /\ pc[t] = "app"
    /\ pc' = [pc EXCEPT ![t] = "cleanup"]
    /\ UNCHANGED <<windows, focus, mail, sht, inbox, cursor, child>>

\* cmd_app after start_app: the windows left over are freed one by one.
Cleanup(t) ==
    /\ pc[t] = "cleanup"
    /\ LET w == First(OwnWindows(t))
       IN  IF OwnWindows(t) = {}
           THEN pc' = [pc EXCEPT ![t] = Done(t)] /\ UNCHANGED windows
           ELSE SheetFree(w) /\ UNCHANGED pc
    /\ UNCHANGED <<focus, mail, sht, inbox, cursor, child>>

-----------------------------------------------------------------------------
\* HariMain has opened a console and given it the focus.
Init ==
    /\ kind = [w \in Windows |-> IF w = 1 THEN "console" ELSE "free"]
    /\ owner = [w \in Windows |-> IF w = 1 THEN 1 ELSE None]
    /\ order = <<1>>
    /\ key_win = 1
    /\ reused = FALSE
    /\ mail = <<>>
    /\ pc = [t \in Slots |-> IF t = 1 THEN "loop" ELSE "free"]
    /\ sht = [t \in Slots |-> IF t = 1 THEN 1 ELSE None]
    /\ inbox = [t \in Slots |-> IF t = 1 THEN <<"on">> ELSE <<>>]
    /\ cursor = [t \in Slots |-> FALSE]
    /\ child = [t \in Slots |-> None]

User ==
    \/ Type \/ Tab \/ Interrupt \/ NewConsole \/ Cycle \/ Notice
    \/ \E w \in Windows : Click(w) \/ CloseApp(w) \/ CloseConsole(w)

\* What a console does of itself ...
Console(t) ==
    \/ SetCursor(t) \/ Leave(t) \/ CmdExit(t) \/ Plain(t)
    \/ StartSheet(t) \/ StartTask(t) \/ StartShow(t) \/ StartType(t) \/ CmdOpen(t)
    \/ StartApp(t) \/ Cleanup(t) \/ GiveUpWindow(t)

\* ... and what depends on the application.
Application(t) ==
    \/ OpenWindow(t) \/ CloseWindow(t) \/ GetKey(t) \/ TakeClose(t) \/ EndApp(t)

Next == User \/ Receive \/ \E t \in Slots : Console(t) \/ Application(t)

Spec == Init /\ [][Next]_vars

\* HariMain is above the consoles, and each console gets its share of the
\* processor.  Nothing is assumed of the user and of applications.
FairSpec == /\ Spec
            /\ WF_vars(Receive)
            /\ \A t \in Slots : WF_vars(Console(t))

-----------------------------------------------------------------------------
(* Properties. *)

Alive == {t \in Slots : pc[t] # "free"}

\* Every part of the state keeps its range.
TypeOK ==
    /\ kind \in [Windows -> {"free", "raw", "console", "app"}]
    /\ owner \in [Windows -> Slots \cup {None}]
    /\ order \in Seq(Windows)
    /\ key_win \in Windows \cup {None, Back}
    /\ reused \in BOOLEAN
    /\ mail \in Seq([code : {"console", "task", "window"}, of : Slots \cup Windows])
    /\ pc \in [Slots -> Places]
    /\ sht \in [Slots -> Windows \cup {None}]
    /\ inbox \in [Slots -> Seq({"on", "off", "close", "line"})]
    /\ cursor \in [Slots -> BOOLEAN]
    /\ child \in [Slots -> Windows \cup {None}]

Waiting(code, n) == Cardinality({i \in DOMAIN mail : mail[i] = Message(code, n)})

\* HariMain and the consoles agree on what exists.  A console that has ended
\* has exactly one message waiting that names it, one that has not ended has
\* none, so that no window and no task is freed twice, or while it is in use.
\* Nobody puts data into the queue of a task that is gone, which would wake it.
\* Each window in use has an owner that will see to its end.
MessagesAgree ==
    /\ \A t \in Slots :
          LET w == sht[t] IN
          Waiting("task", t) + (IF w = None THEN 0 ELSE Waiting("console", w))
              = IF pc[t] = "ended" THEN 1 ELSE 0
    /\ \A t \in Alive : sht[t] # None => kind[sht[t]] = "console" /\ owner[sht[t]] = t
    /\ \A w \in Windows :
          /\ Waiting("window", w) <= 1
          /\ CASE kind[w] = "console" ->
                    Waiting("window", w) = IF \E t \in Alive : sht[t] = w THEN 0 ELSE 1
               [] kind[w] = "app" -> pc[owner[w]] \in InApp \cup {"cleanup"}
               [] kind[w] = "raw" -> \E t \in Slots : pc[t] = "start" /\ child[t] = w
               [] kind[w] = "free" -> Waiting("console", w) + Waiting("window", w) = 0
    /\ \A t \in Slots \ Alive : inbox[t] = <<>>
    /\ \A i, j \in DOMAIN order : order[i] = order[j] => i = j
    /\ \A i \in DOMAIN order : kind[order[i]] # "free"

\* A window to which HariMain sends a key is on the screen and belongs to a task
\* that exists, unless it is the window that a cmd_start is just opening with the
\* sheet that had the focus.  After a click on the button of the last window the
\* background has the focus, which is no window.
FocusIsLive ==
    Focus \in Windows =>
        \/ Contains(order, Focus) /\ owner[Focus] \in Alive
        \/ reused /\ \E t \in Slots : pc[t] \in {"start", "show"} /\ child[t] = Focus

\* What the cursor will be when the console has read its queue: it is on, or
\* will be switched on, and nothing that switches it off comes later.
Ordered(t) ==
    LET q == inbox[t] IN
    \/ cursor[t] /\ \A i \in DOMAIN q : q[i] # "off"
    \/ \E i \in DOMAIN q : q[i] = "on" /\ \A j \in DOMAIN q : i < j => q[j] # "off"

\* Exactly the console with the focus has, or is being told to have, a cursor; but
\* a console whose sheet kept the focus of the window before it has none.
CursorFollowsFocus ==
    \A t \in Alive : sht[t] # None => (Ordered(t) <=> key_win = sht[t] /\ ~reused)

Hidden(w) == kind[w] = "console" /\ ~Contains(order, w)

\* The window's console runs an application that has not looked at its queue
\* since the close button was hit.
Unread(w) ==
    LET t == owner[w] IN pc[t] = "app" /\ \E i \in DOMAIN inbox[t] : inbox[t][i] = "close"

\* A console that was closed goes: a window that was hidden does not stay
\* allocated, unless an application that need not read its queue is in the way.
ClosesAtLast ==
    \A w \in Windows : Hidden(w) ~> (~Hidden(w) \/ Unread(w))
=============================================================================
