-------------------------------- MODULE Sheets --------------------------------
(***************************************************************************)
(* The window stack of osask/src/sys/sheet.c, as operators on shtctl_t.    *)
(*                                                                         *)
(* A sheet is a buffer of pixels at a place of the screen; sheets0 numbers *)
(* the sheets, sheets[h] is the visible sheet at height h.  map says which *)
(* sheet owns each pixel of the screen; a sheet paints only the pixels it  *)
(* owns.  A pixel of a buffer is known by its sheet, its index and whether *)
(* it was drawn an odd number of times, so that the screen (vram) tells    *)
(* what it shows and whether that is up to date.                           *)
(***************************************************************************)
EXTENDS Integers, FiniteSetsExt

CONSTANTS MaxSheets,      \* MAX_SHEETS
          XSize, YSize,   \* the screen
          Width, Height,  \* bxsize and bysize of each sheet
          Clear           \* the indices of its buffer with the colour alpha

ASSUME SheetsAssumption ==
    /\ MaxSheets \in Nat \ {0} /\ XSize \in Nat \ {0} /\ YSize \in Nat \ {0}
    /\ Width \in [0 .. MaxSheets - 1 -> Nat \ {0}]
    /\ Height \in [0 .. MaxSheets - 1 -> Nat \ {0}]
    /\ Clear \in [0 .. MaxSheets - 1 -> SUBSET Nat]

Ids == 0 .. MaxSheets - 1
NoSheet == -1
Hidden == -1    \* as a height
Screen == 0 .. XSize * YSize - 1

At(x, y) == [x |-> x, y |-> y]
Area(x0, y0, x1, y1) == [x0 |-> x0, y0 |-> y0, x1 |-> x1, y1 |-> y1]

\* Slip: lines of a buffer are taken to be as long as those of the screen.
IndexByScreen(s, bx, by) == by * XSize + bx

\* by * sht->bxsize + bx
Index(s, bx, by) == by * Width[s] + bx

\* What a pixel of the buffer looks like now.
Pixel(ctl, s, i) == <<s, i, i \in ctl.buf[s]>>

\* sheets[] and the memory behind map are not initialised: nothing in them is
\* read before it is written.
ShtctlInit ==
    [used   |-> [s \in Ids |-> FALSE],
     height |-> [s \in Ids |-> Hidden],
     place  |-> [s \in Ids |-> At(0, 0)],
     buf    |-> [s \in Ids |-> {}],
     sheets |-> [h \in Ids |-> NoSheet],
     top    |-> -1,
     map    |-> [p \in Screen |-> NoSheet],
     vram   |-> [p \in Screen |-> <<NoSheet, 0, FALSE>>]]

-----------------------------------------------------------------------------
(* Areas. *)

\* The area a sheet takes on the screen, and the part b of it given in the
\* coordinates of the sheet.
PartOf(ctl, s, b) ==
    LET at == ctl.place[s]
    IN  Area(at.x + b.x0, at.y + b.y0, at.x + b.x1, at.y + b.y1)

Whole(ctl, s) == PartOf(ctl, s, Area(0, 0, Width[s], Height[s]))

OnScreen(a) ==
    Area(Max({a.x0, 0}), Max({a.y0, 0}), Min({a.x1, XSize}), Min({a.y1, YSize}))

\* What the area a of the screen cuts out of the sheet s, in its coordinates.
CutOf(ctl, s, a) ==
    LET c  == OnScreen(a)
        at == ctl.place[s]
    IN  Area(Max({c.x0 - at.x, 0}), Max({c.y0 - at.y, 0}),
             Min({c.x1 - at.x, Width[s]}), Min({c.y1 - at.y, Height[s]}))

\* Where the pixel of a sheet lies in map and vram.
Address(ctl, s, bx, by) == (ctl.place[s].y + by) * XSize + ctl.place[s].x + bx

-----------------------------------------------------------------------------
(* Who owns the pixels of an area: sheet_refreshmap. *)

\* The addresses at which the sheet is not transparent.  The loop by fours,
\* taken when all of vx0, bx0 and bx1 allow it, reaches the same addresses.
Covered(ctl, s, a) ==
    LET b == CutOf(ctl, s, a)
    IN  {Address(ctl, s, c[1], c[2]) :
            c \in {d \in (b.x0 .. b.x1 - 1) \X (b.y0 .. b.y1 - 1) :
                      Index(s, d[1], d[2]) \notin Clear[s]}}

\* The heights from h0 to the top, from the bottom: the highest sheet that covers
\* an address is the last one to write there.
RefreshMap(ctl, a, h0) ==
    LET covered == [h \in h0 .. ctl.top |-> Covered(ctl, ctl.sheets[h], a)]
        over(p) == {h \in h0 .. ctl.top : p \in covered[h]}
    IN  [ctl EXCEPT !.map = [p \in Screen |-> IF over(p) = {} THEN ctl.map[p]
                                              ELSE ctl.sheets[Max(over(p))]]]

-----------------------------------------------------------------------------
(* Painting an area: sheet_refreshsub. *)

\* C's n / 4, towards zero.
Quarter(n) == IF n < 0 THEN -((-n) \div 4) ELSE n \div 4

\* The columns painted in each line.  A sheet that starts at a multiple of four
\* is painted by single bytes up to a multiple of four, by fours, and by single
\* bytes again.  The number of fours is negative when the range contains no
\* multiple of four, or is empty: the last loop then starts in front of it.
Columns(x, bx0, bx1) ==
    LET i    == Quarter(bx0 + 3)
        i1   == Quarter(bx1) - i
        left == IF bx0 < bx1 THEN Min({4 * i, bx1}) ELSE bx0
    IN  IF x % 4 = 0 THEN (bx0 .. bx1 - 1) \union (left + 4 * i1 .. bx1 - 1)
        ELSE bx0 .. bx1 - 1

\* The pixels of the sheet that a refresh of the area a tries.  Some may have
\* the address of another one's, at the end of the line above.
Tried(ctl, s, a) ==
    LET b == CutOf(ctl, s, a)
    IN  Columns(ctl.place[s].x, b.x0, b.x1) \X (b.y0 .. b.y1 - 1)

\* A sheet writes at the addresses it owns, and the last line to write there
\* stays.  Addresses in front of the screen are left out: what lies there shows
\* nowhere.
RefreshSub(ctl, a, h0, h1) ==
    LET tried == [s \in {ctl.sheets[h] : h \in h0 .. h1} |-> Tried(ctl, s, a)]
        hits(p) == IF ctl.map[p] \in DOMAIN tried
                   THEN {c \in tried[ctl.map[p]] :
                            Address(ctl, ctl.map[p], c[1], c[2]) = p}
                   ELSE {}
        last(p) == CHOOSE c \in hits(p) : \A d \in hits(p) : d[2] <= c[2]
    IN  [ctl EXCEPT !.vram = [p \in Screen |->
            IF hits(p) = {} THEN ctl.vram[p]
            ELSE Pixel(ctl, ctl.map[p],
                       Index(ctl.map[p], last(p)[1], last(p)[2]))]]

\* sheet_refresh: b is in the coordinates of the sheet.
Refresh(ctl, s, b) ==
    IF ctl.height[s] >= 0
    THEN RefreshSub(ctl, PartOf(ctl, s, b), ctl.height[s], ctl.height[s])
    ELSE ctl

-----------------------------------------------------------------------------
(* The sheets. *)

\* sheet_alloc takes the first free sheet; NoSheet when all are in use.
AllocResult(ctl) ==
    IF \A s \in Ids : ctl.used[s] THEN NoSheet
    ELSE Min({s \in Ids : ~ctl.used[s]})

SheetAlloc(ctl, s) == [ctl EXCEPT !.used[s] = TRUE, !.height[s] = Hidden]

\* sheet_setbuf, with a buffer just drawn.
Setbuf(ctl, s) == [ctl EXCEPT !.buf[s] = {}]

\* Drawing in the buffer of a sheet, as boxfill8 and the system calls do: the
\* screen does not change.
Box(s, b) == {Index(s, x, y) : x \in b.x0 .. b.x1 - 1, y \in b.y0 .. b.y1 - 1}

Draw(ctl, s, b) ==
    [ctl EXCEPT !.buf[s] = (@ \ Box(s, b)) \union (Box(s, b) \ @)]

\* Slip: the sheets that come down are not told their heights.
ShiftedUntold(ctl, h0, h1, by) ==
    [ctl EXCEPT !.sheets = [h \in Ids |-> IF h \in h0 .. h1 THEN ctl.sheets[h + by]
                                          ELSE ctl.sheets[h]]]

\* The loops that shift sheets[]: the entries from h0 to h1 come from above or
\* below, and each of those sheets is told its height.
Shifted(ctl, h0, h1, by) ==
    LET sheets == [h \in Ids |-> IF h \in h0 .. h1 THEN ctl.sheets[h + by]
                                 ELSE ctl.sheets[h]]
    IN  [ctl EXCEPT !.sheets = sheets,
                    !.height = [s \in Ids |->
                        IF \E h \in h0 .. h1 : sheets[h] = s
                        THEN CHOOSE h \in h0 .. h1 : sheets[h] = s
                        ELSE ctl.height[s]]]

\* The sheet s, already told its height, takes its entry.
Seated(ctl, s, height) == [ctl EXCEPT !.sheets[height] = s]

\* Slip: what the sheet covered is shared out among those above it only.
TakenOutAboveOnly(ctl, s, old) ==
    LET moved == [Shifted(ctl, old, ctl.top - 1, 1) EXCEPT !.top = @ - 1]
        whole == Whole(ctl, s)
    IN  RefreshSub(RefreshMap(moved, whole, old), whole, 0, old - 1)

\* The four cases of sheet_updown.
Lowered(ctl, s, old, height) ==
    LET moved == Seated(Shifted(ctl, height + 1, old, -1), s, height)
        whole == Whole(ctl, s)
    IN  RefreshSub(RefreshMap(moved, whole, height + 1), whole, height + 1, old)

TakenOut(ctl, s, old) ==
    LET moved == [Shifted(ctl, old, ctl.top - 1, 1) EXCEPT !.top = @ - 1]
        whole == Whole(ctl, s)
    IN  RefreshSub(RefreshMap(moved, whole, 0), whole, 0, old - 1)

Raised(ctl, s, old, height) ==
    LET moved == Seated(Shifted(ctl, old, height - 1, 1), s, height)
        whole == Whole(ctl, s)
    IN  RefreshSub(RefreshMap(moved, whole, height), whole, height, height)

PutIn(ctl, s, height) ==
    LET moved == [Seated(Shifted(ctl, height + 1, ctl.top + 1, -1), s, height)
                    EXCEPT !.top = @ + 1]
        whole == Whole(ctl, s)
    IN  RefreshSub(RefreshMap(moved, whole, height), whole, height, height)

\* sheets[] is arranged anew for the height that s has been told.
Arranged(told, s, old, height) ==
    IF height < old
    THEN IF height >= 0 THEN Lowered(told, s, old, height) ELSE TakenOut(told, s, old)
    ELSE IF old < height
    THEN IF old >= 0 THEN Raised(told, s, old, height) ELSE PutIn(told, s, height)
    ELSE told

\* sheet_updown.  A height above top is cut to top + 1, where a sheet that is
\* already visible would find no other to change places with.
Updown(ctl, s, wanted) ==
    LET height == Max({Min({wanted, ctl.top + 1}), Hidden})
    IN  Arranged([ctl EXCEPT !.height[s] = height], s, ctl.height[s], height)

\* Slip: what the sheet uncovers is not painted.
SlideUnpainted(ctl, s, x, y) ==
    LET moved == [ctl EXCEPT !.place[s] = At(x, y)]
        mapped == RefreshMap(RefreshMap(moved, Whole(ctl, s), 0),
                             Whole(moved, s), ctl.height[s])
    IN  IF ctl.height[s] < 0 THEN moved
        ELSE RefreshSub(mapped, Whole(moved, s), ctl.height[s], ctl.height[s])

\* sheet_slide
Slide(ctl, s, x, y) ==
    LET moved == [ctl EXCEPT !.place[s] = At(x, y)]
        was   == Whole(ctl, s)
        is    == Whole(moved, s)
        h     == ctl.height[s]
        mapped == RefreshMap(RefreshMap(moved, was, 0), is, h)
    IN  IF h < 0 THEN moved
        ELSE RefreshSub(RefreshSub(mapped, was, 0, h - 1), is, h, h)

\* sheet_free
SheetFree(ctl, s) ==
    [(IF ctl.height[s] >= 0 THEN Updown(ctl, s, Hidden) ELSE ctl) EXCEPT !.used[s] = FALSE]
=============================================================================
