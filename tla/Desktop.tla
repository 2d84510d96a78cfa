------------------------------- MODULE Desktop -------------------------------
(***************************************************************************)
(* The callers of sheet.c: HariMain (bootpack.c) shows the background, the *)
(* windows and the mouse pointer; consoles and applications open windows   *)
(* (cmd_start, hrb_api), draw in them, refresh them and close them.  Each  *)
(* call of a function of sheet.c is one step; calls of different tasks     *)
(* come in any order.                                                      *)
(***************************************************************************)
EXTENDS Sheets

CONSTANTS Places,   \* where a sheet may be moved to
          Boxes     \* the parts of a window that are drawn and refreshed

\* sheet_alloc numbers the sheets of HariMain in this order.
Back == 0
Console == 1
Mouse == 2
Windows == Ids \ {Back, Mouse}

ASSUME DesktopAssumption ==
    /\ {Back, Console, Mouse} \subseteq Ids
    /\ Clear[Back] = {} /\ Width[Back] = XSize /\ Height[Back] = YSize
    /\ \A s \in Ids \ {Back} : Places[s] \subseteq [x : Int, y : Int] /\ Places[s] # {}
    /\ \A s \in Windows : \A b \in Boxes[s] :
          /\ b \in [x0 : Int, y0 : Int, x1 : Int, y1 : Int]
          /\ 0 <= b.x0 /\ b.x0 < b.x1 /\ b.x1 <= Width[s]
          /\ 0 <= b.y0 /\ b.y0 < b.y1 /\ b.y1 <= Height[s]

VARIABLES
    ctl,      \* shtctl_t
    opening,  \* the windows allocated and not yet shown
    grabbed,  \* the sheet HariMain moves while the button is held: its sht
    dirty     \* history: what is drawn and not refreshed, for each sheet

vars == <<ctl, opening, grabbed, dirty>>

Created(c, s) == Setbuf(SheetAlloc(c, s), s)

\* HariMain shows the background, its first window and the pointer.
Booted ==
    LET made == Created(Created(Created(ShtctlInit, Back), Console), Mouse)
        put(c, s) == LET at == CHOOSE at \in Places[s] : TRUE IN Slide(c, s, at.x, at.y)
        set  == put(put(Slide(made, Back, 0, 0), Console), Mouse)
    IN  Updown(Updown(Updown(set, Back, 0), Console, 1), Mouse, 2)

Init ==
    /\ ctl = Booted
    /\ opening = {}
    /\ grabbed = NoSheet
    /\ dirty = [s \in Ids |-> {}]

-----------------------------------------------------------------------------
(* Opening a window: open_console and its callers, system call 5. *)

Create(s) ==
    /\ s = AllocResult(ctl)
    /\ ctl' = Created(ctl, s)
    /\ opening' = opening \union {s}
    /\ dirty' = [dirty EXCEPT ![s] = {}]
    /\ UNCHANGED grabbed

PutInPlace(s) ==
    /\ s \in opening
    /\ \E at \in Places[s] : ctl' = Slide(ctl, s, at.x, at.y)
    /\ UNCHANGED <<opening, grabbed, dirty>>

\* Slip: the new window is shown one sheet too low.
ShowLow(s) ==
    /\ s \in opening
    /\ ctl' = Updown(ctl, s, ctl.top - 1)
    /\ opening' = opening \ {s}
    /\ UNCHANGED <<grabbed, dirty>>

Show(s) ==
    /\ s \in opening
    /\ ctl' = Updown(ctl, s, ctl.top)
    /\ opening' = opening \ {s}
    /\ UNCHANGED <<grabbed, dirty>>

-----------------------------------------------------------------------------
(* The mouse and the keyboard: HariMain. *)

\* new_mx, new_my: kept on the screen.
MovePointer ==
    /\ \E at \in Places[Mouse] : ctl' = Slide(ctl, Mouse, at.x, at.y)
    /\ UNCHANGED <<opening, grabbed, dirty>>

\* The sheets between the background and the pointer that are under the point,
\* and not transparent there.
UnderPoint(p) ==
    {h \in 1 .. ctl.top - 1 :
        LET s == ctl.sheets[h]
            x == p.x - ctl.place[s].x
            y == p.y - ctl.place[s].y
        IN  /\ x \in 0 .. Width[s] - 1 /\ y \in 0 .. Height[s] - 1
            /\ Index(s, x, y) \notin Clear[s]}

\* The button goes down: the highest of them comes to the front.  It is grabbed
\* if the point lies in its title; a console whose close button it hits is
\* hidden.  Title and button overlap, so that a hidden window may be grabbed.
Click ==
    /\ grabbed = NoSheet
    /\ \E p \in Places[Mouse] :
          /\ UnderPoint(p) # {}
          /\ LET s == ctl.sheets[Max(UnderPoint(p))]
                 front == Updown(ctl, s, ctl.top - 1)
             IN  /\ ctl' \in {front, Updown(front, s, Hidden)}
                 /\ grabbed' \in {s, NoSheet}
    /\ UNCHANGED <<opening, dirty>>

\* The grabbed sheet follows the pointer, whatever has become of it.
Drag ==
    /\ grabbed # NoSheet
    /\ \E at \in Places[grabbed] : ctl' = Slide(ctl, grabbed, at.x, at.y)
    /\ UNCHANGED <<opening, grabbed, dirty>>

Release ==
    /\ grabbed # NoSheet
    /\ grabbed' = NoSheet
    /\ UNCHANGED <<ctl, opening, dirty>>

\* Slip: F11 with no window on the screen.
CycleAlways ==
    /\ ctl' = Updown(ctl, ctl.sheets[1], ctl.top - 1)
    /\ UNCHANGED <<opening, grabbed, dirty>>

\* F11: the lowest window comes to the front.
Cycle ==
    /\ ctl.top > 2
    /\ ctl' = Updown(ctl, ctl.sheets[1], ctl.top - 1)
    /\ UNCHANGED <<opening, grabbed, dirty>>

-----------------------------------------------------------------------------
(* Drawing and closing: the owner of a window. *)

Paint(s, b) ==
    /\ ctl.used[s]
    /\ ctl' = Draw(ctl, s, b)
    /\ dirty' = [dirty EXCEPT ![s] = @ \union Box(s, b)]
    /\ UNCHANGED <<opening, grabbed>>

Renew(s, b) ==
    /\ ctl.used[s]
    /\ ctl' = Refresh(ctl, s, b)
    /\ dirty' = [dirty EXCEPT ![s] = @ \ Box(s, b)]
    /\ UNCHANGED <<opening, grabbed>>

\* close_console, system call 14, and the end of an application.
CloseWindow(s) ==
    /\ ctl.used[s]
    /\ ctl' = SheetFree(ctl, s)
    /\ opening' = opening \ {s}
    /\ UNCHANGED <<grabbed, dirty>>

Next ==
    \/ MovePointer \/ Click \/ Drag \/ Release \/ Cycle
    \/ \E s \in Windows : \/ Create(s) \/ PutInPlace(s) \/ Show(s) \/ CloseWindow(s)
                          \/ \E b \in Boxes[s] : Paint(s, b) \/ Renew(s, b)

Spec == Init /\ [][Next]_vars

-----------------------------------------------------------------------------
(* Properties. *)

\* The state of the sheets, the screen and HariMain's drag are what the code
\* may keep there; a buffer is only drawn in up to its end.
TypeOK ==
    /\ ctl.used \in [Ids -> BOOLEAN]
    /\ ctl.height \in [Ids -> Ids \union {Hidden}]
    /\ ctl.sheets \in [Ids -> Ids \union {NoSheet}]
    /\ ctl.top \in Ids
    /\ ctl.map \in [Screen -> Ids]
    /\ \A s \in Ids : ctl.buf[s] \subseteq 0 .. Width[s] * Height[s] - 1
    /\ \A p \in Screen : ctl.vram[p] \in Ids \X Int \X BOOLEAN
    /\ opening \subseteq Windows
    /\ grabbed \in Windows \union {NoSheet}
    /\ \A s \in Ids : dirty[s] \subseteq 0 .. Width[s] * Height[s] - 1

\* sheets[], the heights of the sheets and top tell the same story: each
\* visible sheet has one entry, of its height, and is in use.
StackAgrees ==
    /\ \A h \in 0 .. ctl.top : ctl.height[ctl.sheets[h]] = h
    /\ \A s \in Ids : ctl.height[s] # Hidden =>
          /\ ctl.used[s]
          /\ ctl.height[s] <= ctl.top
          /\ ctl.sheets[ctl.height[s]] = s

\* The background stays below and the pointer above all windows, whatever
\* order the callers open, raise and close windows in.
WindowsBetween ==
    /\ ctl.sheets[0] = Back
    /\ ctl.sheets[ctl.top] = Mouse

Column(p) == p % XSize
Line(p) == p \div XSize

\* The index of the pixel of the sheet that lies at p, if there is one.
IndicesAt(s, p) ==
    {Index(s, x, y) : x \in {Column(p) - ctl.place[s].x} \cap (0 .. Width[s] - 1),
                      y \in {Line(p) - ctl.place[s].y} \cap (0 .. Height[s] - 1)}

\* The sheets one would see at p, were the others taken away.
SeenAt(p) == {s \in Ids : ctl.height[s] # Hidden /\ IndicesAt(s, p) \ Clear[s] # {}}

TopmostAt(p) == CHOOSE s \in SeenAt(p) : \A t \in SeenAt(p) : ctl.height[t] <= ctl.height[s]

\* map is kept by many partial updates; after each call it names the topmost
\* sheet of every pixel, as if computed anew.
MapIsTopmost == \A p \in Screen : ctl.map[p] = TopmostAt(p)

\* The screen shows the topmost sheet everywhere, and shows it up to date but
\* for what its owner has drawn and not refreshed since.
ScreenIsRight ==
    \A p \in Screen :
        LET s == TopmostAt(p)
            i == CHOOSE i \in IndicesAt(s, p) : TRUE
        IN  \/ ctl.vram[p] = Pixel(ctl, s, i)
            \/ i \in dirty[s] /\ <<ctl.vram[p][1], ctl.vram[p][2]>> = <<s, i>>

\* The order of the windows is the one users expect.
Order == INSTANCE WindowOrder WITH
    First <- Console,
    order <- [i \in 1 .. ctl.top - 1 |-> ctl.sheets[i]]

WindowsInOrder == Order!Spec

\* Were a part of a window refreshed now, nothing would change on the screen
\* outside that part, cut to the screen.
RefreshInRange ==
    \A s \in Windows : \A b \in Boxes[s] :
        LET a == OnScreen(PartOf(ctl, s, b))
        IN  \A p \in Screen : Refresh(ctl, s, b).vram[p] # ctl.vram[p] =>
                /\ Column(p) \in a.x0 .. a.x1 - 1
                /\ Line(p) \in a.y0 .. a.y1 - 1
=============================================================================
