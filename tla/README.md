# A model of the PriPara OS kernel

The repository is a personal collection of course work, exercises and book code. The one
large running program in it is the operating system under `src/coursedesign/os/osask/src`: a
32-bit multitasking kernel with windows, consoles and applications (`sys/`, about 2600 lines
of C), the applications (`app/`), their library of system calls (`lib/`) and a design document
(`src/coursedesign/os/source/*.tex`). This directory models that kernel in TLA+, checks it with
TLC and proves part of what is checked with TLAPS. File names below are those of `sys/` unless a
path is given. Five smaller programs, which share nothing with the kernel, are modelled as pure
operators and compared with what they are for: the archiver of `coursedesign/zip`, the three
simulators of `experiment/os`, and the examination program of `coursedesign/exam`.

## The system

One processor. Code runs in one of three ways: a **task** with interrupts enabled, a task
between `io_cli` and `io_sti`, or an **interrupt handler**. Tasks share all memory; there are no
locks. A task loses the processor only when `inthandler20` calls `task_switch`, or when it calls
`task_sleep`. System calls start with interrupts disabled (`asm_hrb_api` has no `sti`) until API 15
enables them, so a system call is a critical section, `console_task` and `HariMain` are not.

| part | state | operations | works with |
|---|---|---|---|
| FIFO queues, `fifo.c` | `fifo32`: ring buffer, `p`, `q`, `free`, `flags`, owner | init, put, get, status | a put wakes the owner: `task_run` |
| Multitasking, `mtask.c` | `taskctl`: levels (`running`, `now`, array), `now_lv`, `lv_change`, task flags | init, alloc, run, switch, sleep, now | timer interrupt, queues, console start and end |
| Timers, `timer.c` | linked list in the order of the times, `next`, `count` | alloc, init, settime, free, cancel, cancelall, interrupt | puts data into queues; `task_timer` drives `task_switch`, which arms it again |
| Memory, `memory.c` | table of free blocks | init, alloc, free, total, in bytes and pages | consoles, windows, applications, files |
| Sheets, `sheet.c` | stack of windows, map of the screen | alloc, updown, slide, refresh, free | `HariMain` and system calls |
| Window manager, `bootpack.c` | focus (`key_win`), mouse mode, keyboard state, `keycmd` queue | dispatch of one queue of messages | all of the above |
| Consoles, `console.c` | command line, cursor, open files, the application | commands, 26 system calls | messages from and to `HariMain` |
| Keyboard, mouse, `keyboard.c`, `mouse.c` | packet decoder, controller handshake | interrupt handlers, `mouse_decode` | put into the queue of `HariMain` |
| Files, `file.c` | decoded FAT12 table | readfat, loadfile, search | consoles |
| Drawing, boot, descriptors | pixels, tables of the processor | | |
| Archiver, `coursedesign/zip` | tree, table of codes, bits | compress, decompress | |
| Simulators, `experiment/os/exp3` to `exp5` | processes; blocks of memory; pages and frames | scheduling by priority; four ways to place a block; five ways to replace a page | |
| Examination, `coursedesign/exam` | databases of problems, papers, scores, users | insert, remove, save, compose, answer, mark | |

What is hard here: puts into a queue by tasks with interrupts enabled while a handler puts into
the same queue; run queues kept in arrays by counters; the looks-then-sleeps protocol; a linked
list that the interrupt cuts while tasks insert; timers, sheets, memory and task slots that pass
from one console to the next; tasks that are ended from outside at any instruction. The list of
hazards, each at its line, is in `PROJECT.json`.

What makes each part correct: a queue is first-in first-out and wakes its owner; the run queues
and the flags agree and the highest level runs; armed timers ring on time and once; memory is
free, in use by one, or lost; the stack of sheets holds each visible window once, in order of
height, and the map shows the topmost; messages between `HariMain` and a console leave both with
the same idea of what exists; the lights of the keyboard end up as the lock keys say, and a mouse
packet is three bytes of one movement; a file is loaded along its chain of clusters, and a line is
what was typed. Of the other programs: what is packed comes back and is as short as it can be; a
placed block is free, fits, and is found if there is one; the frames hold the pages the policy
names; every process gets its time; an id names one problem, and a paper is what was asked for.

## The modules

| module | models |
|---|---|
| `BoundedQueue` | abstract: what a queue promises |
| `Fifo32` | `fifo.c` as operators on the structure |
| `Fifo32Queue` | one queue, its producers and its owner; implements `BoundedQueue` |
| `Input` | what fills `HariMain`'s queue: keyboard, mouse, the lights; extends `Fifo32Queue` |
| `Mtask` | the run queues of `mtask.c` as operators on `taskctl` |
| `Scheduler` | `mtask.c` driven by the timer, the queues, `HariMain` and the consoles |
| `WakeRace` | `fifo32_put` and `task_run` statement by statement against the timer interrupt |
| `Alarms` | abstract: what the timers promise |
| `Timer` | `timer.c`, the cursor timers of the consoles and the timers of applications; implements `Alarms` |
| `Heap` | abstract: what the memory manager promises |
| `Memman` | `memory.c` as operators on `memman_t` |
| `MemoryPool` | the kernel's pool and its users; implements `Heap` |
| `WindowOrder` | abstract: the order of windows the user expects |
| `Sheets` | `sheet.c` as operators on `shtctl_t`, with the map and the pixels of the screen |
| `Desktop` | the callers of `sheet.c`: `HariMain`'s mouse and keys, owners of windows; implements `WindowOrder` |
| `Session` | who exists: `HariMain`, consoles, applications, their windows and messages |
| `ConsoleText` | the text on a console's screen and the line being typed, as operators |
| `Files` | the table of clusters, loading, searching, positions in open files, as operators |
| `Huffman`, `Paging`, `Placement`, `Priority`, `Exam` | the other programs, as operators |
| `KernelLemmas` | lemmas for several of the proofs: numbers, sequences, `Fifo32` and `Mtask` as operators |
| `InputProofs`, `SchedulerProofs`, `WakeRaceProofs`, `TimerProofs`, `MemoryProofs`, `DesktopProofs`, `SessionProofs` | theorems and proofs; `InputProofs` is about `Fifo32Queue`, `Input`, `ConsoleText` and `Files` |
| `MC*` | values for TLC; for the modules without behaviour, the comparisons as `ASSUME`s. `MCPrograms` gathers those of the other programs |

The operator modules (`Fifo32`, `Mtask`, `Memman`, `Sheets`) are the C functions with their structure as
argument and result; the state modules have one action for each handler or stretch of code that
nothing interrupts. `Input` composes the devices with `Fifo32Queue`, whose steps its own refine.
`Session` abstracts the stack of windows to its order (the picture is `Desktop`'s), a queue to a
sequence (the ring buffer is `Fifo32Queue`'s) and a console's work to what it does to others (text
and files are `ConsoleText`'s and `Files`'). `WakeRace` composes `Fifo32` and `Mtask`:
the handler uses their operators in one step, `HariMain` runs the same code one statement at a time.

An operator with the comment *Slip* is not part of the model: it is the definition below it with
a programming mistake, and `PROJECT.json` ("mutants") names the property that finds it.

### How the state corresponds to the code

* **Fifo32**: a record with the fields of `fifo32`; `buf` is a function on `0 .. size - 1` with
  arbitrary first content. `FLAGS_OVERRUN` is the whole of `flags`.
* **Mtask, Scheduler**: `ctl` has `now_lv` and `lv_change` of `taskctl`; `lv[l]` is
  `level[l]`, its array complete with the stale pointers behind `running`, because
  `task_now` really reads one of them after `task_run(task_a, 1, 0)` (bootpack.c:74) has emptied
  level 0. `flags`, `level` and `priority` of the tasks are functions. `cpu` is the task that
  `farjmp` last went to, `slice` the interrupts until `task_timer` is due. Actions: `Demote`
  (bootpack.c:74), `Tick` and `Switch` (`inthandler20`), `Wake` (`fifo32_put` into the queue of
  a sleeping task), `Rouse` (after Ctrl+C or the close button), `Sleep` (`task_sleep` by the
  task itself), `Open`, `Exit`, `Close` (a console's life). `task_init` does not set `running` and
  `now` of the levels; `Booted(ram)` takes what the memory held, and `Init` has it zero.
* **WakeRace**: `pc` is `HariMain`'s place within `fifo32_put`/`task_run`/`task_add`. `copy` is the
  register of the statement that reads a field and writes it again: if the interrupt comes in between, the
  statement may or may not use the value from before it. `HariMain` makes these calls with interrupts
  enabled, and the handler may come at every `pc`. An index `p` beyond the buffer is kept as `Outside`, and the
  memory written there is left out, as are `lv_change` and `now_lv`, which a wake-up only sets.
* **Timer**: `timerctl` has `timers0`, `t0`, `next` and `count` of the structure (`using` is never
  used by the code). `user` and `cursor` say who holds which timer, `pending` and `arming` where a
  console is between the datum of its cursor timer and the end of `timer_settime`, whose first
  half runs before `io_cli`. `Exposed` names four things the code does not protect itself against,
  the two gaps of the kernel and the two uses of API 18 and 19 on a timer that is armed, which the kernel does not
  look at; it is empty in the run that passes. Two runs show what the gaps lead to; with `set_armed` or `free_armed`
  in it TLC finds `ListInOrder` violated: the list gets a cycle, or keeps a timer that is free.
* **Memman, MemoryPool**: `man.free` is the table up to `frees`. `owned` is what the users hold,
  with the sizes they asked for, `lost` what a failed release has lost.
* **Sheets, Desktop**: `ctl` is `shtctl_t`; a sheet is its number in `sheets0`, and `used`,
  `height`, `place`, `buf` are the fields of the sheets. A pixel is known by its sheet, its index in
  the buffer and whether it was drawn an odd number of times, so `vram` tells whose pixel, which
  one and how recent. The loops over lines and columns are sets of addresses; `Columns` keeps the
  arithmetic of the loop by fours, with C's division, because it goes wrong for some ranges.
  Sizes and transparent pixels belong to a number of a sheet, and drawing does not change which
  pixels are transparent: all programs under `app/` open their windows without a transparent
  colour, and the pointer is drawn once. `opening` holds windows between `sheet_alloc` and their
  first `sheet_updown`, `grabbed` is `HariMain`'s `sht` while the button is held (it may point to a
  window that is gone), `dirty` is a history variable. A call is one step. Opening a window takes
  three calls, with those of other tasks between them; system call 5 runs masked and is a special
  case of that.
* **Input**: `fifo` is `HariMain`'s queue, extended from `Fifo32Queue`; `key_leds`, `keycmd` and
  `keycmd_wait` are the variables of `HariMain` (`keycmd` a sequence: `HariMain` alone uses it, so
  it is a `BoundedQueue`), `phase` is `mdec.phase`. The keyboard (what it was sent last, the lights it
  shows) and the mouse (which byte of a packet comes next) are external: a keyboard acknowledges a
  byte or asks for it again, a mouse sends packets of three bytes once it is enabled. The values of
  the second and third byte are left out, the resynchronisation on the first byte is not.
* **Session**: `kind` and `owner` are what `flags` and `task` of a sheet tell, `order` the windows on
  the stack, `key_win` itself, `mail` the messages 768, 1024 and 2024 (windows and tasks to free) in
  `HariMain`'s queue, `inbox` the queue of each console. `pc` is a console's place between two
  messages: a slot that is free, the loop, the stretches of `cmd_start`, an application, the wait of API
  15 between taking the datum 4 and hiding the window, the steps of `cmd_exit`. The actions of
  `HariMain` are the branches of its loop (`Type`, `Tab`, `Interrupt`, `NewConsole`, `Cycle`, `Click`,
  `CloseApp`, `CloseConsole`, `Receive`), those of the consoles are the stretches of `console.c`
  that nothing of the model can cut. `Lost` and `Focus` are the check of `key_win`'s flags at the
  head of the loop.
* **ConsoleText, Files**: functions of `console.c` and `file.c` as operators, on positions counted in
  characters and on clusters. They compute without waiting, so they have no behaviour of their own.
* **Huffman**: `qsort` may leave trees of equal counts in any order, so `Trees` is a set, and what is
  said of a file is said of each. **Paging**: an algorithm is the step of its loop over the stream.
  **Placement**: the list of blocks, and `next` of the next fit. **Priority**: a slice of the simulated
  processor is a relation between the processes before and after, because `qsort` may leave those of
  one priority in any order.
  **Exam**: a list is its items, `max_id` and `count`; a file the sequence of its records.

## What is checked

| run | module | states | what it shows |
|---|---|---|---|
| `fifo` | `MCInput` | 390382 | `IndexesAgree`: `p`, `q` and `free`, never compared by the code, agree. `NoLostWakeup`: a sleeping owner has an empty queue. `ImplementsQueue`: refinement of `BoundedQueue`. `Served`: what is in the queue is read. `PacketsWhole`: as long as no byte was dropped, each byte of the mouse in the queue is one the decoder expects when it comes to read it, so that a packet is three bytes of one movement. `LedsSettle`: when the lock keys are left alone, the lights come to be those of `key_leds`, unless a queue has dropped something |
| `scheduler` | `MCScheduler` | 52464 | `RunQueues`, `CpuIsTaskNow`, `NothingAbove`, `IdleIsReady`, `HandsOverToTop`, `FairShare` |
| `wake` | `MCWakeRace` | 24301 | whatever interrupts come between the statements of `HariMain`'s put, no wake-up is lost (`WakeIsComing`) and an active console is on its level (`ActiveIsListed`); before it starts, the comparisons of the other programs |
| `wake_running` | `MCWakeRace` | violation | the interrupt between the test of `flags` and `task_add`: the console stands twice in its level |
| `memory` | `MCMemory` | 44549 | `TableOrdered`, `Partition`, `Accounts`, and the refinement of `Heap` |
| `memory_empty_file` | `MCMemory` | violation | a request of size 0 breaks the order of the table |
| `timer` | `MCTimer` | 60178 | `ListInOrder`, `ArmedIsLinked`, `OneUser`, `SliceRuns`, and the refinement of `Alarms` |
| `timer_kill_arming` | `MCTimer` | violation | an application ended within `timer_settime` leaves a timer armed in no list |
| `timer_init_late` | `MCTimer` | violation | a timer between API 16 and 17 is freed by its former user's end |
| `desktop` | `MCDesktop` | 23760 | `StackAgrees`, `WindowsBetween` (background below, pointer above), `MapIsTopmost`, `ScreenIsRight`, and `WindowsInOrder`, the refinement of `WindowOrder` |
| `desktop_wide` | `MCDesktop` | violation | the refresh of two columns of a window wider than the screen paints a pixel of the line above |
| `session` | `MCSession` | 352876 | `MessagesAgree`: what waits in `mail` and in the queues of consoles is about windows and tasks that are there, once each. `FocusIsLive`: keys go to a window that is there, or is just being opened with the sheet that had the focus. `CursorFollowsFocus`: the last datum about the cursor agrees with the focus as it was given. `ClosesAtLast`: a console that was hidden to be closed goes, unless its application never reads its queue; before it starts, the comparisons of text and files |

The runs that end in a violation disagree with a comment or the design document; `PROJECT.json`
("findings") quotes each. Two more of the kind are visible in the model and have no run:
`task_sleep` does not set `task_timer`, so the next task gets what is left of a slice
(conclusion.tex:16 promises each a slice), and `cmd_exit` never frees the cursor timer.

### What `session` keeps out

`Exposed` names three things that may happen and that the code does not guard against. The run has
it empty, as the theorems do: after each of them a task is written to that is no longer there, returns to what its
stack happens to hold, or waits for ever. Each alone breaks a property:

| in `Exposed` | what happens | violated |
|---|---|---|
| `typing` | a key or the close button reaches a console that `cmd_start` has started and not typed its line into yet (console.c:298) | `MessagesAgree` |
| `hiding` | an application is ended after API 15 took the datum 4 and before it gave the window up (console.c:494) | `ClosesAtLast` |
| `ending` | the close button is hit while the application is ending already (bootpack.c:283) | `MessagesAgree` |

Two more things the code does not guard against are in the run and in the theorems. The click on the button of the
last window gives the focus to the background, whose task is 0 (bootpack.c:294), where the code elsewhere takes it away
(bootpack.c:130): `FocusIsLive` says no more of it than that no window has the focus. And `cmd_start` may
get the sheet that had the focus before `HariMain` sees that it was freed (bootpack.c:129): the new window inherits
the focus, at first without a task and not on the screen, and has no cursor. `reused` is a history
variable that remembers this for as long as the focus stays there; `FocusIsLive` and `CursorFollowsFocus` name it
as their only exception.

Some input is undefined in the code and has no step: a click or close button while `key_win` is 0
(bootpack.c:271 follows it), a key for the background or for a window that has no task yet (task 0 has no
queue), Tab while the focus is on one of these (bootpack.c:161 counts down from its height), `cls` in a
console without a window (console.c:232).

### Comparisons of modules without behaviour

Evaluated by TLC over bounded inputs before `session`:

* `FatIsUnpacked`: `file_readfat` undoes the packing of 12-bit entries. `FileIsLoaded`: a file is what its
  chain of clusters holds, and nothing behind its end is read. `NameIsFound`, `OnlyFilesAreFound`,
  `LongNames`: which entry of the directory a name finds. `ProgramIsFound`: a command runs the file it names
  or else the one with `.HRB`.
* `SeekStays`: a position stays in the file, and is the nearest to the one asked for as long as the sum
  fits into an `int`. `ReadInPieces`: a file read in pieces is the file.
* `TabsStop`: a tab is as wide as its loop makes it. `ScreenIsLastLines`: the screen shows the last lines of all
  that was written. `LineIsWhatWasTyped`: the command gets what was typed with the backspaces
  applied, and that is what is seen.

Evaluated before `wake`. Some of them say that the code does *not* do what its purpose is; the lines
are named because a reader would not expect it:

* `Huffman`: `FilesComeBack`, `CodesArePrefixFree`, `CodesAreShortest` (no prefix code makes the data
  shorter), for files of at least two symbols. `OneSymbolIsLost`: the only symbol of a file has a code of
  no bits, and the file comes back empty.
* `Paging`: `StreamLeavesMemory`: page.c:138 and 142 make addresses of page 32, one behind
  `pages[]`. `FramesAreShared`: a frame is free or holds one page. `FifoListIsMemory`: the busy list of
  FIFO is what is in memory. `LruKeepsRecent`: LRU holds the most recent pages; `LruGainsFromFrames`: a
  frame more never costs it a fault. `OptIsNotBest`: "OPT" may have more faults than necessary,
  because `dist` (pager.c:220) keeps the last use of a page and not the next.
* `Placement`: `FitsAreSound`: each way to choose hands out free memory only and takes back what the process
  had, and the blocks tile the memory. `FitsFindRoom`: first, best and worst fit refuse nothing there is
  room for. `NextFitMisses`: memory.c:150 looks for ever, or behind the list, or passes over the block
  it used last. `TableIsCounted`: memory.c:233 and 240 use `n` for the blocks and for the requests.
* `Priority`: `RunsEnd`, `TimeIsGiven`: every process ends with the time it needs, one runs at a time.
  `PriorityIsFixed`: that priorities change decides nothing between processes that do not block:
  one that has started goes on, and those that wait gain the same. `FinishedMayBlock`:
  priority.c:234 blocks a process that has nothing left to do.
* `Exam`: `IdsAreOwn`, `UsersAreOwn`: no two records have one id or name. `IdsComeBack`: when the last
  problem is deleted its id is given again, and a paper that has it asks another problem.
  `RandomPapersAreFull`, `PapersAreWanted`: papers have different problems, each of the kind asked
  for. `TagPapersMissLength`: a paper of tags may have one problem too many, or too few because a tag that
  finds too little leaves nothing to the next. `DifficultyPapersEndEarly`: when one difficulty has had its
  share. `MarksAreOfPaper`: a mark is a percentage, and all right answers give a full one unless a
  problem of the paper has been deleted.

### Bounds

* `fifo`: two slots, one lock key, one first and one other byte of a packet, a `keycmd` of two bytes,
  which is one command. Both queues wrap and overflow, data in the queue can be equal, and a key can be
  pressed while the bytes of the last one are still on their way. The theorems cover every size.
* `scheduler`: three console slots, so that a level can lose a task before, at and behind `now`;
  four levels are those in use (0 at boot, 1, 2 and the last). `MaxPerLevel = 3` is enough for all
  of them at once: the code does not check `MAX_TASKS_LV`, and `RoomAssumption` says so.
* `wake`: a queue of two and two data: a put finds room for one and for two, wraps, and meets a full queue.
  A race leaves an entry too many on the level or a datum too many in the queue, and each further race adds to it;
  room for four entries (`MaxPerLevel`) and two data more than slots (`MaxOver`) is room for two of them, one after the
  other. A handler's put that would need more, counting what the put it cuts still adds, does not happen.
* `memory`: pages of two bytes, two regions of two and five pages, requests of one to three bytes
  and a table of three entries: blocks are joined on both sides, rounding matters, the table
  overflows.
* `timer`: two timers for two consoles besides `task_timer` and the sentinel, four interrupts
  (`MaxCount`), slices of two, delays of 0, 1 and 2: a timer goes before, behind and level with
  every other, expires together with others and together with `task_timer`, and passes from one
  console to the other. `MaxCount` also keeps the sum `timeout + count` from wrapping.
* `desktop`: a screen of eight columns and two lines, four sheets. The console's window (five
  columns) has places at a multiple of four with one column on the screen, at one with all of it,
  and off the multiple with a line below the screen, so that each loop of `sheet_refreshsub` runs;
  the other window is opened, covered, moved and closed; the pointer leaves the screen on the right
  and has transparent pixels. Two windows are enough for an order that can be wrong, and with the
  background and the pointer every shift of `sheets[]` but one: no caller lowers a visible
  sheet without hiding it, so `Lowered` is there and not exercised.
* `desktop_wide`: the second window has twelve columns.
* `session`: two tasks for consoles and three windows, so that a console can start one with a command while
  another closes, with an application's window besides, and slots and sheets are used again.
  `TypeAhead = 1` bounds the user, not the code (`UserQueuesFit`): a key or click that puts data into the queues of
  consoles is handled while at most one datum waits there, whatever the consoles are doing. The close button of a
  console without the focus puts three (off, on and 4) into one queue, which with that datum and the `on` that
  the end of another console brings makes `QueueSize = 5`: nothing is dropped and nobody is held up by it, and a larger
  one gives the same states. A full queue is the subject of `fifo`. `SlotLeft` keeps the slot that a `cmd_start` is about to
  take from everybody else: when there is none the code goes on with task 0.
* text and files: a screen of six columns and two lines, clusters of two bytes, six entries in the
  table, an `int` from -16 to 15; `Half` is small so that the sums reach its end.
* other programs: bytes of two bits, files of up to seven of four symbols; every stream of eight
  instructions that `page.c` may make out of four pages of two; a table of three blocks and six requests; any
  two processes, and any three that do not block; databases after four changes, papers from four
  problems. The header of each MC module says why. Left out: the empty file (`n - 1` wraps), FIFO with a
  single frame, a paper by no tags (divided by their number), more than 254 requests.

### Fairness

`Scheduler!FairSpec` assumes that the timer interrupts again and again: weak fairness of `Tick`
and `Switch`. The interval timer is hardware and `task_timer` is always armed (`SliceRuns` of
`Timer`). Nothing is assumed of the tasks. `FairShare` therefore has its exceptions written out: a
task may wait for ever if a higher level never rests, or if the tasks of its own level keep falling
asleep, for then the turn passes among them. `Fifo32Queue!FairSpec` assumes that an awake owner
gets to run its loop, which is what `FairShare` gives it when the levels above come to rest.
`Input!InputFairSpec` keeps that and adds the keyboard: it answers every byte, and not with a
refusal for ever (strong fairness of `Accept`). Without the latter the lights need not settle, nor
would the code give up. Nothing is assumed of the user or the mouse. `Session!FairSpec` assumes that
`HariMain` receives (it is on the higher level) and that each console takes its next step; nothing is
assumed of the user, nor of an application, which may run for ever.

Deadlock is checked in every run: in each module something can always happen.

## What is proved

A theorem holds for every value of the constants that the assumptions of its module admit; where it
needs more, the third column names its hypothesis; the runs that end in a violation and the table of what
`session` keeps out show what happens without.
Each component has an inductive invariant `IInv`, in the module with its proofs: what the checked
invariants need to know of one another, and of the places between two steps.

| module | proved | under |
|---|---|---|
| `InputProofs` | `TypeOK`, `IndexesAgree`, `NoLostWakeup`, `ImplementsQueue` of `Fifo32Queue`, and of `Input`; `PacketsWhole`; single steps of the operators of `ConsoleText` and `Files` | |
| `SchedulerProofs` | `TypeOK`, `RunQueues`, `CpuIsTaskNow`, `NothingAbove`, `IdleIsReady`, `HandsOverToTop` | |
| `WakeRaceProofs` | `TypeOK`, `WakeIsComing`, `ActiveIsListed` | |
| `TimerProofs` | `TypeOK`, `ListInOrder`, `ArmedIsLinked`, `OneUser`, `SliceRuns`, `ImplementsAlarms` | `Exposed = {}` |
| `MemoryProofs` | `TypeOK`, `TableOrdered`, `Partition`, `Accounts`, `ImplementsHeap` | `0 \notin Requests` |
| `DesktopProofs` | `TypeOK`, `StackAgrees`, `WindowsBetween`, `MapIsTopmost`, `WindowsInOrder`; `ScreenIsRight` | for the last, `Fitting` |
| `SessionProofs` | `TypeOK`, `MessagesAgree`, `FocusIsLive`, `CursorFollowsFocus` | `Exposed = {}` |

* **Queue.** The conjunction of the three invariants is inductive: `IndexesAgree` says where `p` is, so a
  put changes no slot that `Items` shows and a get removes exactly the first. Every step of `Input` is a
  step of `Fifo32Queue` or leaves the queue alone (`StepOfQueue`), so the theorems hold for
  `HariMain`'s queue with every set of keys and bytes. `PacketsWhole` is inductive beside it: a run of
  phases from the decoder's to the mouse's, in which each waiting byte of the mouse may come, is
  one longer after a put (`DecodesAppend`) and one shorter after a get (`DecodesTail`).
* **Scheduler.** `IInv` adds `now < running` for a level in use, who stands on which level, and the two
  phases of the boot: before `Demote`, `task_a` alone is on level 0; after it and until the first
  `task_switch`, the stale pointer `tasks[0]` of the empty level 0 is still `task_a` and `lv_change`
  is set. Without that phase `task_now` would not be `cpu`.
* **WakeRace.** `IInv` says what holds between any two statements of `fifo32_put` and `task_run`, whatever the interrupt
  did there: what a register holds of `p` or `free` still fits the field, `free` being too large at most
  (`QueueInv`); the level has room for the entry on its way (`RoomInv`); and between the two statements of
  `task_add` the entry stands at the place that the register's `running` says, where the interrupt's own entry
  is the same (`GrowInv`), so that the larger or the smaller `running` lists it. Entries need not be distinct and
  data need not be in order: `wake_running` shows the first, and for the second let one slot be left, `HariMain` pass the
  test of `free`, and the interrupt take the slot before the store.
* **Timer.** The proof describes the list by the sequence `s` of its timers (`Listed`), not by following `next`;
  `ChainFacts` says that both are the same. What is to be known of the operators is then one lemma each: arming puts
  one timer into `s` and changes nothing else (`InsertFacts`), cancelling takes one out (`CancelFacts`), the interrupt
  takes out just those whose time has come (`ExpireFacts`), and `timer_cancelall`, which is a fold over a set,
  drops the timers of that set in any order (`CancelAllFacts`). `IInv` is that there is such an `s`, which holds
  the armed timers but for those a console is arming (`Sound`), and that the kernel's idea of a timer agrees with its
  user's: a cursor timer has `flags2 = 0`, so `timer_cancelall` passes it over (`CursorUse`), each timer of
  an application is found (`TimerUse`), and nothing else is (`CancelUse`). `CancelUse` is false while an application
  is between API 16 and 17, and `Sound` once one is ended within `timer_settime`, and so it is when an armed timer is
  armed again or freed: these are the four things `Exposed` names.
* **Memory.** `IInv` has the order of the table as a relation of any two entries (`Table`), `Partition`, and
  the number of lost addresses. `KernelLemmas!Smallest` gives the entry at which `memman_free` stops looking;
  each of its four ways to take a block back adds one interval to what the table covers (`ReleaseFacts`), and an
  allocation takes one away (`AllocFacts`). A request is refused only without a free run because, in
  an ordered table with gaps, a run of free addresses lies in one entry (`SpanInEntry`). A
  request of size 0 would break the order, as `memory_empty_file` shows.
* **Desktop.** `IInv` is that the stack agrees, that the background covers the screen and the pointer is on top
  (`Stacked`), that buffers are drawn in up to their ends (`Bounded`), that windows being opened are
  in use and hidden (`Opened`), and that `map` is right at every pixel (`Right`). The moves of `sheets[]`
  are described entry by entry (`RaisedIn`, `HiddenIn`, `ShownIn`). For the map, a sheet that moves can be
  wrong only where it was or comes to be, and only about itself (`RightBut`): recomputing that area from the
  height of the sheet up is enough if it rises or appears (`FinishMap`), and from the
  background up if it leaves (`BaseMap`), which is just what `sheet_updown` and `sheet_slide` do.
  Underneath is that an address of `map` belongs to one column and line (`AddressTells`), and that a
  hidden sheet leaves room in `sheets[]` (`RoomForOne`, by the pigeonhole principle).
  `ScreenIsRight` compares a pixel with what its sheet has drawn and so depends on what each call paints.
  `Shown` strengthens it by who will repaint: a pixel is `Current`, or it is `Owed`, since it lies in an area
  that its owner has drawn and not refreshed yet. Each call leaves a pixel as it was or paints it anew
  (`PaintedFrom`), and what changes hands is painted, because `map` and screen are recomputed over the same area and
  heights (`ShownKept`). Underneath is that a refresh, whose loop by fours may begin in front of
  the columns asked for, still finds at an address the pixel of the sheet that lies there
  (`TriedIsThere`). This needs `Fitting`: at least six columns, and no sheet wider than the screen or
  just one column narrower. It excludes no screen mode (they start at 320 columns) and is no more than
  needed: in a sheet about that wide a refresh begins up to two columns in front of it, and at `x = 0` these
  are the last two columns of the line above, of which the sheet may own some. A sheet as wide as the screen has
  the right pixels there, for its buffer has lines of the same length; a wider one has not
  (`desktop_wide`), and neither has one of a column less.
* **Session.** `IInv` is a conjunction of parts that refer to each other: the window of a console is its own
  (`Sheets`); what is in the queue of a console, and that none is written to after its end (`Boxes`); the
  cursor will be where the focus is (`Cursors`); a message to `HariMain` says what is so, and
  is there once (`Letters`); a window that `cmd_start` is opening is its own, and its console waits for
  the line (`Children`); what is on the stack is in use, and so is what has the focus unless it was freed and
  nobody noticed yet, and a sheet that was reused with the focus is in use (`Stack`, `Aimed`); the windows of an application have a task that will free them
  (`Apps`); there is a slot for each console about to start (`Room`).
* **Console.** For every size of table, cluster and `int`: `ReadFat` gets every table out of the bytes it
  was packed into (`FatUnpacked`); a position stays within its file, even if the sum of a seek does not fit
  into an `int`, and a read moves it by what was read (`SeekInFile`, `ReadInFile`). For every size of the
  screen: a character put leaves the cursor on the screen and the text a screenful (`PutCharOnScreen`), a
  key leaves the cursor behind the prompt and within `cmdline` (`KeyOnLine`), and adds one character
  to the line or takes the last one away (`KeyEditsLine`).

The assumptions of the modules are: different tasks are different, at least four levels, and room on
each level for every console (`RoomAssumption`); the sentinel and `task_timer` are different timers, and no
sum `timeout + count` reaches 0xffffffff (`TimerAssumption`); two regions of memory, the second behind the
first with a gap, and a table of at least two entries (`RegionAssumption`); sheets have a width and a height,
the background is as large as the screen and not transparent, and what is drawn in a window lies in its
buffer (`SheetsAssumption`, `DesktopAssumption`). That each holds of the code is visible in its calls, but
for three: the room on a level and the sum, which the code does not check (the latter lasts for 497 days if
no application asks for more), and the last one, which for an application is the library's and not the
kernel's care.

Only model-checked:

* liveness (`Served`, `LedsSettle`, `FairShare`, `ClosesAtLast`), which the prover does not do;
* what a whole string of characters, a chain of clusters or a list gives. The induction theorems of the
  library take an operator as a parameter and cannot be used. Where an induction over numbers or the
  positions of a sequence is enough, `KernelLemmas` proves what is needed from the least element of a set of
  numbers (`Smallest`, `Induct`): so `memman_total` is the number of free addresses. Functions on
  chains and strings are `RECURSIVE` or folds, and stay with TLC's comparisons, and so do the other programs.

## Not modelled

* Of the kernel: drawing, fonts and palettes, the boot sector, descriptor tables, the registers of a
  task, the tables from keys to characters, the sound timer (API 20), the command line handed to an
  application (API 26), the commands `mem` and `dir`, which only print, and `memtest`: no state
  beyond pixels, ports and registers. The applications are what the system calls' users may do.
  Calls of `sheet.c`, `memory.c` and `timer_alloc` are one step each, though a task switch
  can cut them; `WakeRace` shows for one such call what that leads to. What follows from a result
  0 that is used unseen, a level of more than a hundred tasks, or a wrapped count is memory
  overwritten at places the models do not have; `PROJECT.json` lists these hazards.
* `experiment/os/exp2` is two uses of `pipe` and `fork`. Of the examination program: menus, printing,
  and `slist.c`, which is libtool's.
* The rest of the repository, nine tenths of its lines: examples that come with books (`apue3e`,
  `unpv13e`), third-party programs and parsers (`socks5exp`, `pcap`), programming exercises of a page each,
  in several languages, and typeset texts. They are no part of one system, keep no shared state,
  and are not this repository's own design; so the models cover the kernel and the course projects well
  and the repository as a whole by a small share.

## Plan

1. (done) queues, scheduler, their race, memory, timers, the stack of windows and the screen;
   proofs for queues and scheduler.
2. (done) the devices on `HariMain`'s queue, consoles and their messages, text and files; the other
   course projects as operators; proofs for the input queue and for single steps of text and files.
3. (done) proofs of `WakeRace`, of `Timer`, `MemoryPool`, `Session` and `Desktop`, with their refinements.
   For these `Session` looks for a window by its height instead of filtering, `MemTotal` is a recursive function,
   and the two regions of `MemoryPool` are constants.
4. (done) proof of `ScreenIsRight`, with which a theorem states each safety property that a passing run of a
   component with behaviour checks. Then `WakeRace` with interrupts between all statements, and `Session` with the last window and
   reused sheets, proved again. Next: that `WakeRace` without an interrupt in between is `Wake` of `Scheduler`.
5. `SheetRace`, `MemmanRace`: `sheet_updown` of a console and `memman_alloc` statement by statement,
   cut by `HariMain`, in the manner of `WakeRace`.
