---------------------------- MODULE DesktopProofs ----------------------------
(***************************************************************************)
(* The window stack, for every number of sheets, every size of the screen, *)
(* of the sheets and of their transparent parts, and every place a sheet   *)
(* may be moved to: sheets[], the heights and top agree, all windows lie   *)
(* between the background and the pointer in the order users expect, and   *)
(* map, which sheet_refreshmap keeps by partial updates, always names the  *)
(* topmost sheet of every pixel. Where no sheet is wider than the screen   *)
(* or one column narrower, the screen shows that sheet up to date, but for *)
(* what was drawn and not refreshed.                                       *)
(***************************************************************************)
EXTENDS Desktop, KernelLemmas

-----------------------------------------------------------------------------
(* Addresses of pixels. *)

\* Multiplication by a width keeps the order of lines.
LEMMA LineOrder ==
  ASSUME NEW a \in Int, NEW b \in Int, NEW w \in Nat, a <= b
  PROVE  a * w <= b * w
  OBVIOUS

\* The next line starts one width further.
LEMMA NextLine ==
  ASSUME NEW a \in Int, NEW w \in Int
  PROVE  (a + 1) * w = a * w + w
  OBVIOUS

\* A pixel inside a rectangle has an index inside its buffer.
LEMMA IndexInside ==
  ASSUME NEW w \in Nat \ {0}, NEW h \in Nat, NEW x \in 0 .. w - 1, NEW y \in 0 .. h - 1
  PROVE  y * w + x \in 0 .. w * h - 1
<1>1. (y + 1) * w <= h * w /\ 0 * w <= y * w
  BY LineOrder
<1>2. (y + 1) * w = y * w + w
  BY NextLine
<1>3. h * w = w * h
  OBVIOUS
<1> QED BY <1>1, <1>2, <1>3

\* An address tells the column and the line.
LEMMA AddressTells ==
  ASSUME NEW x \in Int, NEW y \in Int, NEW u \in Int, NEW v \in Int, NEW w \in Nat \ {0},
         x \in 0 .. w - 1, u \in 0 .. w - 1, y * w + x = v * w + u
  PROVE  x = u /\ y = v
<1>1. ~(y < v)
  <2> SUFFICES ASSUME y < v PROVE FALSE
    OBVIOUS
  <2>1. (y + 1) * w <= v * w
    BY LineOrder
  <2>2. (y + 1) * w = y * w + w
    BY NextLine
  <2> QED BY <2>1, <2>2
<1>2. ~(v < y)
  <2> SUFFICES ASSUME v < y PROVE FALSE
    OBVIOUS
  <2>1. (v + 1) * w <= y * w
    BY LineOrder
  <2>2. (v + 1) * w = v * w + w
    BY NextLine
  <2> QED BY <2>1, <2>2
<1> QED BY <1>1, <1>2

\* The constants, one by one.
LEMMA Sizes ==
  /\ MaxSheets \in Nat \ {0} /\ XSize \in Nat \ {0} /\ YSize \in Nat \ {0}
  /\ Back \in Ids /\ Console \in Ids /\ Mouse \in Ids
  /\ \A s \in Ids : Width[s] \in Nat \ {0} /\ Height[s] \in Nat \ {0} /\ Clear[s] \subseteq Nat
  /\ Width[Back] = XSize /\ Height[Back] = YSize /\ Clear[Back] = {}
  BY SheetsAssumption, DesktopAssumption DEF Ids

\* Every address of the screen is that of the pixel in its line and column.
LEMMA ScreenAddress ==
  ASSUME NEW p \in Screen
  PROVE  /\ Column(p) \in 0 .. XSize - 1 /\ Line(p) \in 0 .. YSize - 1
         /\ p = Line(p) * XSize + Column(p)
<1>1. XSize \in Nat \ {0} /\ YSize \in Nat \ {0}
  BY Sizes
<1>2. p \in Nat /\ p <= XSize * YSize - 1
  BY <1>1 DEF Screen
<1>3. /\ p \div XSize \in Int /\ p % XSize \in 0 .. XSize - 1
      /\ p = ((p \div XSize) * XSize) + (p % XSize)
  BY <1>1, <1>2
<1> DEFINE w == XSize
           h == YSize
           y == p \div XSize
           x == p % XSize
<1>4. w \in Nat \ {0} /\ h \in Nat /\ y \in Int /\ x \in 0 .. w - 1 /\ p = y * w + x
      /\ p \in Nat /\ p <= w * h - 1
  BY <1>1, <1>2, <1>3
<1> HIDE DEF w, h, y, x
<1>5. ~(y < 0)
  <2> SUFFICES ASSUME y < 0 PROVE FALSE
    OBVIOUS
  <2>1. (y + 1) * w <= 0 * w
    BY <1>4, LineOrder
  <2>2. (y + 1) * w = y * w + w
    BY <1>4, NextLine
  <2> QED BY <1>4, <2>1, <2>2
<1>6. ~(h <= y)
  <2> SUFFICES ASSUME h <= y PROVE FALSE
    OBVIOUS
  <2>1. h * w <= y * w
    BY <1>4, LineOrder
  <2>2. h * w = w * h
    BY <1>4
  <2>3. h * w \in Int /\ y * w \in Int
    BY <1>4
  <2> QED BY <1>4, <2>1, <2>2, <2>3
<1>7. x \in 0 .. w - 1 /\ y \in 0 .. h - 1 /\ p = y * w + x
  BY <1>4, <1>5, <1>6
<1> QED BY <1>7 DEF w, h, x, y, Column, Line

-----------------------------------------------------------------------------
(* Largest and smallest. *)

\* The larger and the smaller of two numbers.
LEMMA OfTwo ==
  ASSUME NEW a \in Int, NEW b \in Int
  PROVE  /\ Max({a, b}) = IF a >= b THEN a ELSE b
         /\ Min({a, b}) = IF a <= b THEN a ELSE b
<1>1. \E x \in {a, b} : \A y \in {a, b} : x >= y
  OBVIOUS
<1>2. \E x \in {a, b} : \A y \in {a, b} : x <= y
  OBVIOUS
<1>3. Max({a, b}) \in {a, b} /\ \A y \in {a, b} : Max({a, b}) >= y
  BY <1>1 DEF Max
<1>4. Min({a, b}) \in {a, b} /\ \A y \in {a, b} : Min({a, b}) <= y
  BY <1>2 DEF Min
<1> QED BY <1>3, <1>4

\* Numbers with a bound have a largest one.
LEMMA Largest ==
  ASSUME NEW T \in SUBSET Int, T # {}, NEW b \in Int, \A t \in T : t <= b
  PROVE  Max(T) \in T /\ \A t \in T : t <= Max(T)
<1> DEFINE D == {n \in Nat : b - n \in T}
<1>1. PICK t \in T : TRUE
  OBVIOUS
<1>2. b - t \in Nat /\ b - (b - t) = t
  BY <1>1
<1>3. b - t \in D
  BY <1>2
<1>4. PICK n \in D : \A m \in D : n <= m
  BY <1>3, Smallest
<1>5. \A u \in T : b - u \in Nat /\ b - (b - u) = u
  OBVIOUS
<1>6. \A u \in T : b - u \in D
  BY <1>5
<1>7. \A u \in T : u <= b - n
  <2> SUFFICES ASSUME NEW u \in T PROVE u <= b - n
    OBVIOUS
  <2>1. b - u \in D /\ b - u \in Nat
    BY <1>5, <1>6
  <2>2. n <= b - u
    BY <1>4, <2>1
  <2>3. n \in Int /\ u \in Int /\ b \in Int
    BY <1>4
  <2> HIDE DEF D
  <2> QED BY <2>2, <2>3
<1>8. b - n \in T
  BY <1>4
<1>9. \E x \in T : \A y \in T : x >= y
  BY <1>7, <1>8
<1> QED BY <1>9 DEF Max

-----------------------------------------------------------------------------
(* The state of the sheets. *)

Pixels == Ids \X Int \X BOOLEAN

Ctls == [used   : [Ids -> BOOLEAN],
         height : [Ids -> Int],
         place  : [Ids -> [x : Int, y : Int]],
         buf    : [Ids -> SUBSET Int],
         sheets : [Ids -> Ids \union {NoSheet}],
         top    : Int,
         map    : [Screen -> Int],
         vram   : [Screen -> Int \X Int \X BOOLEAN]]

\* sheets[], the heights and top agree.
Agrees(c) ==
    /\ c.top \in -1 .. MaxSheets - 1
    /\ \A h \in 0 .. c.top : c.sheets[h] \in Ids /\ c.height[c.sheets[h]] = h
    /\ \A s \in Ids : \/ c.height[s] = Hidden
                      \/ /\ c.height[s] \in 0 .. c.top
                         /\ c.sheets[c.height[s]] = s

\* The fields of a control block.
LEMMA CtlFields ==
  ASSUME NEW c \in Ctls
  PROVE  /\ c.used \in [Ids -> BOOLEAN] /\ c.height \in [Ids -> Int]
         /\ c.place \in [Ids -> [x : Int, y : Int]] /\ c.buf \in [Ids -> SUBSET Int]
         /\ c.sheets \in [Ids -> Ids \union {NoSheet}] /\ c.top \in Int
         /\ c.map \in [Screen -> Int] /\ c.vram \in [Screen -> Int \X Int \X BOOLEAN]
         /\ \A s \in Ids : c.place[s].x \in Int /\ c.place[s].y \in Int
         /\ \A s \in Ids : c.height[s] \in Int
  BY DEF Ctls

-----------------------------------------------------------------------------
(* Where a sheet covers the screen: sheet_refreshmap. *)

\* The address p lies in the area a.
InArea(a, p) == Column(p) \in a.x0 .. a.x1 - 1 /\ Line(p) \in a.y0 .. a.y1 - 1

\* The sheet s lies over p and is not transparent there.
Over(c, s, p) ==
    LET x == Column(p) - c.place[s].x
        y == Line(p) - c.place[s].y
    IN  /\ x \in 0 .. Width[s] - 1 /\ y \in 0 .. Height[s] - 1
        /\ Index(s, x, y) \notin Clear[s]

Areas == [x0 : Int, y0 : Int, x1 : Int, y1 : Int]

\* The part of a sheet that an area cuts out.
LEMMA CutFacts ==
  ASSUME NEW c \in Ctls, NEW s \in Ids, NEW a \in Areas, NEW x \in Int, NEW y \in Int
  PROVE  LET b == CutOf(c, s, a)
             X == c.place[s].x + x
             Y == c.place[s].y + y
         IN  /\ b \in Areas
             /\ x \in b.x0 .. b.x1 - 1 /\ y \in b.y0 .. b.y1 - 1
                <=> /\ X \in a.x0 .. a.x1 - 1 /\ X \in 0 .. XSize - 1
                    /\ Y \in a.y0 .. a.y1 - 1 /\ Y \in 0 .. YSize - 1
                    /\ x \in 0 .. Width[s] - 1 /\ y \in 0 .. Height[s] - 1
<1> DEFINE px == c.place[s].x
           py == c.place[s].y
           e == OnScreen(a)
           b == CutOf(c, s, a)
<1>1. /\ px \in Int /\ py \in Int /\ XSize \in Int /\ YSize \in Int
      /\ Width[s] \in Int /\ Height[s] \in Int
      /\ a.x0 \in Int /\ a.y0 \in Int /\ a.x1 \in Int /\ a.y1 \in Int
  BY CtlFields, Sizes DEF Areas
<1>2. /\ e.x0 = IF a.x0 >= 0 THEN a.x0 ELSE 0
      /\ e.y0 = IF a.y0 >= 0 THEN a.y0 ELSE 0
      /\ e.x1 = IF a.x1 <= XSize THEN a.x1 ELSE XSize
      /\ e.y1 = IF a.y1 <= YSize THEN a.y1 ELSE YSize
  <2>1. /\ Max({a.x0, 0}) = IF a.x0 >= 0 THEN a.x0 ELSE 0
        /\ Max({a.y0, 0}) = IF a.y0 >= 0 THEN a.y0 ELSE 0
    BY <1>1, OfTwo
  <2>2. /\ Min({a.x1, XSize}) = IF a.x1 <= XSize THEN a.x1 ELSE XSize
        /\ Min({a.y1, YSize}) = IF a.y1 <= YSize THEN a.y1 ELSE YSize
    BY <1>1, OfTwo
  <2> QED BY <2>1, <2>2 DEF OnScreen, Area
<1>3. e.x0 \in Int /\ e.y0 \in Int /\ e.x1 \in Int /\ e.y1 \in Int
  BY <1>1, <1>2
<1>4. b = Area(Max({e.x0 - px, 0}), Max({e.y0 - py, 0}),
               Min({e.x1 - px, Width[s]}), Min({e.y1 - py, Height[s]}))
  BY DEF CutOf
<1> HIDE DEF e, b
<1>5. /\ b.x0 = IF e.x0 - px >= 0 THEN e.x0 - px ELSE 0
      /\ b.y0 = IF e.y0 - py >= 0 THEN e.y0 - py ELSE 0
      /\ b.x1 = IF e.x1 - px <= Width[s] THEN e.x1 - px ELSE Width[s]
      /\ b.y1 = IF e.y1 - py <= Height[s] THEN e.y1 - py ELSE Height[s]
  <2>1. /\ e.x0 - px \in Int /\ e.y0 - py \in Int /\ e.x1 - px \in Int /\ e.y1 - py \in Int
    BY <1>1, <1>3
  <2>2. /\ Max({e.x0 - px, 0}) = IF e.x0 - px >= 0 THEN e.x0 - px ELSE 0
        /\ Max({e.y0 - py, 0}) = IF e.y0 - py >= 0 THEN e.y0 - py ELSE 0
        /\ Min({e.x1 - px, Width[s]}) = IF e.x1 - px <= Width[s] THEN e.x1 - px ELSE Width[s]
        /\ Min({e.y1 - py, Height[s]}) = IF e.y1 - py <= Height[s] THEN e.y1 - py ELSE Height[s]
    <3>1. /\ Max({e.x0 - px, 0}) = IF e.x0 - px >= 0 THEN e.x0 - px ELSE 0
          /\ Max({e.y0 - py, 0}) = IF e.y0 - py >= 0 THEN e.y0 - py ELSE 0
      BY <2>1, OfTwo
    <3>2. Min({e.x1 - px, Width[s]}) = IF e.x1 - px <= Width[s] THEN e.x1 - px ELSE Width[s]
      BY <1>1, <2>1, OfTwo
    <3>3. Min({e.y1 - py, Height[s]}) = IF e.y1 - py <= Height[s] THEN e.y1 - py ELSE Height[s]
      BY <1>1, <2>1, OfTwo
    <3> QED BY <3>1, <3>2, <3>3
  <2> QED BY <1>4, <2>2 DEF Area
<1>6. b.x0 \in Int /\ b.y0 \in Int /\ b.x1 \in Int /\ b.y1 \in Int
  BY <1>1, <1>3, <1>5
<1>7. b \in Areas
  BY <1>4, <1>5, <1>6 DEF Area, Areas
<1> HIDE DEF px, py
<1>8. x \in b.x0 .. b.x1 - 1 <=> /\ px + x \in a.x0 .. a.x1 - 1 /\ px + x \in 0 .. XSize - 1
                                 /\ x \in 0 .. Width[s] - 1
  BY <1>1, <1>2, <1>5
<1>9. y \in b.y0 .. b.y1 - 1 <=> /\ py + y \in a.y0 .. a.y1 - 1 /\ py + y \in 0 .. YSize - 1
                                 /\ y \in 0 .. Height[s] - 1
  BY <1>1, <1>2, <1>5
<1> QED BY <1>7, <1>8, <1>9 DEF b, px, py

\* The address of a pixel that lies in the column X and the line Y of the screen.
LEMMA AddressFacts ==
  ASSUME NEW c \in Ctls, NEW s \in Ids, NEW x \in Int, NEW y \in Int, NEW p \in Screen,
         c.place[s].x + x \in 0 .. XSize - 1
  PROVE  Address(c, s, x, y) = p
            <=> x = Column(p) - c.place[s].x /\ y = Line(p) - c.place[s].y
<1> DEFINE px == c.place[s].x
           py == c.place[s].y
           X == px + x
           Y == py + y
           u == Column(p)
           v == Line(p)
           w == XSize
<1>1. /\ px \in Int /\ py \in Int /\ w \in Nat \ {0}
  BY CtlFields, Sizes
<1>2. u \in 0 .. w - 1 /\ v \in Int /\ p = v * w + u
  BY ScreenAddress, Sizes
<1>3. Address(c, s, x, y) = Y * w + px + x
  BY DEF Address
<1>4. X \in 0 .. w - 1
  OBVIOUS
<1>5. Y \in Int /\ Y * w + px + x = Y * w + X
  <2>1. Y \in Int
    BY <1>1
  <2> HIDE DEF Y, px, w
  <2> QED BY <1>1, <2>1
<1>6. Address(c, s, x, y) = p <=> Y * w + X = v * w + u
  BY <1>2, <1>3, <1>5
<1>7. Y * w + X = v * w + u => X = u /\ Y = v
  <2> SUFFICES ASSUME Y * w + X = v * w + u PROVE X = u /\ Y = v
    OBVIOUS
  <2>1. /\ X \in Int /\ Y \in Int /\ u \in Int /\ v \in Int /\ w \in Nat \ {0}
        /\ X \in 0 .. w - 1 /\ u \in 0 .. w - 1
    BY <1>1, <1>2, <1>4, <1>5
  <2> HIDE DEF X, Y, u, v, w
  <2> QED BY <2>1, AddressTells
<1>8. X = u /\ Y = v => Y * w + X = v * w + u
  BY Zenon
<1>9. X = u /\ Y = v <=> x = u - px /\ y = v - py
  <2> HIDE DEF u, v, px, py
  <2> QED BY <1>1, <1>2
<1> QED BY <1>6, <1>7, <1>8, <1>9

\* A sheet covers those addresses of an area where it is not transparent.
LEMMA CoveredFacts ==
  ASSUME NEW c \in Ctls, NEW s \in Ids, NEW a \in Areas, NEW p \in Screen
  PROVE  p \in Covered(c, s, a) <=> InArea(a, p) /\ Over(c, s, p)
<1> DEFINE b == CutOf(c, s, a)
           x == Column(p) - c.place[s].x
           y == Line(p) - c.place[s].y
           R == (b.x0 .. b.x1 - 1) \X (b.y0 .. b.y1 - 1)
           D == {d \in R : Index(s, d[1], d[2]) \notin Clear[s]}
<1>1. Covered(c, s, a) = {Address(c, s, d[1], d[2]) : d \in D}
  BY DEF Covered
<1>2. /\ c.place[s].x \in Int /\ c.place[s].y \in Int
      /\ Column(p) \in 0 .. XSize - 1 /\ Line(p) \in 0 .. YSize - 1
      /\ Column(p) \in Int /\ Line(p) \in Int /\ x \in Int /\ y \in Int
      /\ c.place[s].x + x = Column(p) /\ c.place[s].y + y = Line(p)
  BY CtlFields, ScreenAddress, Sizes
<1>3. /\ b \in Areas /\ b.x0 \in Int /\ b.x1 \in Int /\ b.y0 \in Int /\ b.y1 \in Int
  BY CutFacts DEF Areas
<1>4. \A i, j \in Int :
        i \in b.x0 .. b.x1 - 1 /\ j \in b.y0 .. b.y1 - 1 =>
          /\ c.place[s].x + i \in a.x0 .. a.x1 - 1 /\ c.place[s].x + i \in 0 .. XSize - 1
          /\ c.place[s].y + j \in a.y0 .. a.y1 - 1 /\ c.place[s].y + j \in 0 .. YSize - 1
          /\ i \in 0 .. Width[s] - 1 /\ j \in 0 .. Height[s] - 1
  BY CutFacts
<1>5. ASSUME p \in Covered(c, s, a) PROVE InArea(a, p) /\ Over(c, s, p)
  <2>1. PICK d \in D : p = Address(c, s, d[1], d[2])
    BY <1>1, <1>5
  <2>2. /\ d[1] \in b.x0 .. b.x1 - 1 /\ d[2] \in b.y0 .. b.y1 - 1
        /\ d[1] \in Int /\ d[2] \in Int /\ Index(s, d[1], d[2]) \notin Clear[s]
    BY <1>3
  <2>3. /\ c.place[s].x + d[1] \in a.x0 .. a.x1 - 1 /\ c.place[s].x + d[1] \in 0 .. XSize - 1
        /\ c.place[s].y + d[2] \in a.y0 .. a.y1 - 1
        /\ d[1] \in 0 .. Width[s] - 1 /\ d[2] \in 0 .. Height[s] - 1
    BY <1>4, <2>2
  <2>4. d[1] = x /\ d[2] = y
    BY <2>1, <2>2, <2>3, AddressFacts
  <2> HIDE DEF D, R, b
  <2> QED BY <1>2, <2>2, <2>3, <2>4 DEF InArea, Over
<1>6. ASSUME InArea(a, p), Over(c, s, p) PROVE p \in Covered(c, s, a)
  <2>1. /\ x \in 0 .. Width[s] - 1 /\ y \in 0 .. Height[s] - 1
        /\ Index(s, x, y) \notin Clear[s]
        /\ Column(p) \in a.x0 .. a.x1 - 1 /\ Line(p) \in a.y0 .. a.y1 - 1
    BY <1>6 DEF InArea, Over
  <2>2. x \in b.x0 .. b.x1 - 1 /\ y \in b.y0 .. b.y1 - 1
    <3> HIDE DEF x, y
    <3>1. /\ x \in Int /\ y \in Int
          /\ c.place[s].x + x \in a.x0 .. a.x1 - 1 /\ c.place[s].x + x \in 0 .. XSize - 1
          /\ c.place[s].y + y \in a.y0 .. a.y1 - 1 /\ c.place[s].y + y \in 0 .. YSize - 1
      BY <1>2, <2>1
    <3> QED BY <2>1, <3>1, CutFacts
  <2>3. <<x, y>> \in D
    <3> HIDE DEF b, x, y
    <3> QED BY <2>1, <2>2
  <2>4. p = Address(c, s, x, y)
    BY <1>2, AddressFacts
  <2> HIDE DEF x, y, D
  <2> QED BY <1>1, <2>3, <2>4
<1> QED BY <1>5, <1>6

-----------------------------------------------------------------------------
(* sheet_refreshmap and sheet_refreshsub. *)

\* The sheets and their order are the same.
SameSheets(r, c) ==
    /\ r.used = c.used /\ r.height = c.height /\ r.place = c.place
    /\ r.buf = c.buf /\ r.sheets = c.sheets /\ r.top = c.top

\* In the area, map in r names the topmost of the sheets from the height h0 on;
\* where none of them lies it is that of c.
Remapped(r, c, a, h0) ==
    /\ r \in Ctls /\ SameSheets(r, c) /\ r.vram = c.vram
    /\ \A p \in Screen :
         \/ /\ r.map[p] = c.map[p]
            /\ \A h \in h0 .. c.top : ~(InArea(a, p) /\ Over(c, c.sheets[h], p))
         \/ /\ InArea(a, p)
            /\ \E h \in h0 .. c.top :
                 /\ r.map[p] = c.sheets[h] /\ Over(c, c.sheets[h], p)
                 /\ \A k \in h0 .. c.top : Over(c, c.sheets[k], p) => k <= h

\* sheet_refreshmap does that.
LEMMA MapFacts ==
  ASSUME NEW c \in Ctls, NEW a \in Areas, NEW h0 \in Nat,
         \A h \in h0 .. c.top : c.sheets[h] \in Ids
  PROVE  Remapped(RefreshMap(c, a, h0), c, a, h0)
<1> DEFINE covered == [h \in h0 .. c.top |-> Covered(c, c.sheets[h], a)]
           over(p) == {h \in h0 .. c.top : p \in covered[h]}
           m == [p \in Screen |-> IF over(p) = {} THEN c.map[p] ELSE c.sheets[Max(over(p))]]
           r == RefreshMap(c, a, h0)
<1>1. r = [c EXCEPT !.map = m]
  BY DEF RefreshMap
<1>2. c.top \in Int
  BY CtlFields
<1>3. \A p \in Screen : \A h \in h0 .. c.top :
        h \in over(p) <=> InArea(a, p) /\ Over(c, c.sheets[h], p)
  BY CoveredFacts
<1>4. \A p \in Screen : over(p) # {} =>
        /\ Max(over(p)) \in over(p) /\ \A k \in over(p) : k <= Max(over(p))
  <2> SUFFICES ASSUME NEW p \in Screen, over(p) # {}
               PROVE  Max(over(p)) \in over(p) /\ \A k \in over(p) : k <= Max(over(p))
    OBVIOUS
  <2>1. over(p) \in SUBSET Int /\ \A t \in over(p) : t <= c.top
    BY <1>2
  <2> HIDE DEF over
  <2> QED BY <1>2, <2>1, Largest
<1>5. \A p \in Screen : over(p) \subseteq h0 .. c.top
  OBVIOUS
<1> HIDE DEF over, covered
<1>6. m \in [Screen -> Int]
  <2> SUFFICES ASSUME NEW p \in Screen PROVE m[p] \in Int
    OBVIOUS
  <2>1. CASE over(p) = {}
    BY <2>1, CtlFields
  <2>2. CASE over(p) # {}
    <3>1. Max(over(p)) \in h0 .. c.top
      BY <1>4, <1>5, <2>2
    <3>2. c.sheets[Max(over(p))] \in Ids
      BY <3>1
    <3> QED BY <2>2, <3>2, Sizes DEF Ids
  <2> QED BY <2>1, <2>2
<1> HIDE DEF r
<1>7. r.map = m
  BY <1>1 DEF Ctls
<1>8. r \in Ctls /\ SameSheets(r, c) /\ r.vram = c.vram
  <2> HIDE DEF m
  <2> QED BY <1>1, <1>6 DEF Ctls, SameSheets
<1>9. ASSUME NEW p \in Screen
      PROVE  \/ /\ r.map[p] = c.map[p]
                /\ \A h \in h0 .. c.top : ~(InArea(a, p) /\ Over(c, c.sheets[h], p))
             \/ /\ InArea(a, p)
                /\ \E h \in h0 .. c.top :
                     /\ r.map[p] = c.sheets[h] /\ Over(c, c.sheets[h], p)
                     /\ \A k \in h0 .. c.top : Over(c, c.sheets[k], p) => k <= h
  <2>1. CASE over(p) = {}
    <3>1. r.map[p] = c.map[p]
      BY <1>7, <2>1
    <3>2. \A h \in h0 .. c.top : ~(InArea(a, p) /\ Over(c, c.sheets[h], p))
      BY <1>3, <2>1
    <3> QED BY <3>1, <3>2
  <2>2. CASE over(p) # {}
    <3> DEFINE h == Max(over(p))
    <3>1. r.map[p] = c.sheets[h]
      BY <1>7, <2>2
    <3>2. h \in over(p) /\ h \in h0 .. c.top /\ \A k \in over(p) : k <= h
      BY <1>4, <1>5, <2>2
    <3> HIDE DEF h
    <3>3. InArea(a, p) /\ Over(c, c.sheets[h], p)
      BY <1>3, <3>2
    <3>4. \A k \in h0 .. c.top : Over(c, c.sheets[k], p) => k <= h
      BY <1>3, <3>2, <3>3
    <3> QED BY <3>1, <3>2, <3>3, <3>4
  <2> QED BY <2>1, <2>2
<1> QED BY <1>8, <1>9 DEF r, Remapped

\* The columns tried contain those asked for.
LEMMA ColumnFacts ==
  ASSUME NEW x \in Int, NEW i \in Int, NEW j \in Int
  PROVE  Columns(x, i, j) \subseteq Int /\ i .. j - 1 \subseteq Columns(x, i, j)
<1>1. \A n \in Int : Quarter(n) \in Int
  BY DEF Quarter
<1>2. Quarter(i + 3) \in Int /\ Quarter(j) \in Int
  BY <1>1
<1>3. i .. j - 1 \subseteq Int
  OBVIOUS
<1> QED BY <1>2, <1>3 DEF Columns

\* The pixels a refresh tries, by column and line.
LEMMA TriedFacts ==
  ASSUME NEW c \in Ctls, NEW s \in Ids, NEW a \in Areas
  PROVE  /\ Tried(c, s, a) \subseteq Int \X Int
         /\ CutOf(c, s, a).y1 \in Int
         /\ \A e \in Tried(c, s, a) : e[2] <= CutOf(c, s, a).y1
<1> DEFINE b == CutOf(c, s, a)
           C == Columns(c.place[s].x, b.x0, b.x1)
<1>1. b \in Areas
  BY CutFacts
<1>2. b.x0 \in Int /\ b.x1 \in Int /\ b.y0 \in Int /\ b.y1 \in Int
  BY <1>1 DEF Areas
<1>3. C \subseteq Int
  BY <1>2, CtlFields, ColumnFacts
<1>4. Tried(c, s, a) = C \X (b.y0 .. b.y1 - 1)
  BY DEF Tried
<1> HIDE DEF b, C
<1>5. Tried(c, s, a) \subseteq Int \X Int
  <2>1. b.y0 .. b.y1 - 1 \subseteq Int
    OBVIOUS
  <2> QED BY <1>3, <1>4, <2>1
<1>6. \A e \in Tried(c, s, a) : e[2] <= b.y1
  BY <1>2, <1>4
<1> QED BY <1>2, <1>5, <1>6 DEF b

\* v is a pixel of the owner of p that a refresh of the area a tries there.
DrawnAs(v, c, a, p) ==
    LET s == c.map[p]
    IN  /\ s \in Ids
        /\ \E e \in Tried(c, s, a) : /\ Address(c, s, e[1], e[2]) = p
                                    /\ v = Pixel(c, s, Index(s, e[1], e[2]))

\* It is a pixel of a sheet.
LEMMA DrawnPixel ==
  ASSUME NEW c \in Ctls, NEW a \in Areas, NEW p \in Screen, NEW v, DrawnAs(v, c, a, p)
  PROVE  v \in Pixels
<1> DEFINE s == c.map[p]
<1>1. s \in Ids
  BY DEF DrawnAs
<1>2. PICK e \in Tried(c, s, a) : v = Pixel(c, s, Index(s, e[1], e[2]))
  BY DEF DrawnAs
<1> HIDE DEF s
<1> DEFINE i == Index(s, e[1], e[2])
           odd == i \in c.buf[s]
<1>3. e \in Int \X Int
  BY <1>1, <1>2, TriedFacts
<1>4. Width[s] \in Int /\ e[1] \in Int /\ e[2] \in Int
  BY <1>1, <1>3, Sizes
<1>5. i \in Int
  BY <1>4 DEF Index
<1>6. odd \in BOOLEAN /\ v = <<s, i, odd>>
  BY <1>2 DEF Pixel
<1> HIDE DEF i, odd
<1> QED BY <1>1, <1>5, <1>6 DEF Pixels

\* Only the screen differs.  It differs where the owner's pixels were tried, and
\* they were tried where one of the sheets from h0 to h1 owns an address of the area.
Repainted(r, c, a, h0, h1) ==
    /\ r \in Ctls /\ SameSheets(r, c) /\ r.map = c.map
    /\ \A p \in Screen : r.vram[p] = c.vram[p] \/ DrawnAs(r.vram[p], c, a, p)
    /\ \A p \in Screen : \A h \in h0 .. h1 :
         c.map[p] = c.sheets[h] /\ InArea(a, p) /\ Over(c, c.sheets[h], p) =>
           DrawnAs(r.vram[p], c, a, p)

\* sheet_refreshsub does that.
LEMMA SubFacts ==
  ASSUME NEW c \in Ctls, NEW a \in Areas, NEW h0 \in Nat, NEW h1 \in Int,
         \A h \in h0 .. h1 : c.sheets[h] \in Ids
  PROVE  Repainted(RefreshSub(c, a, h0, h1), c, a, h0, h1)
<1> DEFINE shown == {c.sheets[h] : h \in h0 .. h1}
           tried == [s \in shown |-> Tried(c, s, a)]
           hits(p) == IF c.map[p] \in DOMAIN tried
                      THEN {d \in tried[c.map[p]] : Address(c, c.map[p], d[1], d[2]) = p}
                      ELSE {}
           last(p) == CHOOSE d \in hits(p) : \A e \in hits(p) : e[2] <= d[2]
           v == [p \in Screen |->
                   IF hits(p) = {} THEN c.vram[p]
                   ELSE Pixel(c, c.map[p], Index(c.map[p], last(p)[1], last(p)[2]))]
           r == RefreshSub(c, a, h0, h1)
<1>1. r = [c EXCEPT !.vram = v]
  BY DEF RefreshSub
<1>2. shown \subseteq Ids /\ DOMAIN tried = shown
  OBVIOUS
<1>3. \A s \in shown : /\ Tried(c, s, a) \subseteq Int \X Int
                       /\ CutOf(c, s, a).y1 \in Int
                       /\ \A d \in Tried(c, s, a) : d[2] <= CutOf(c, s, a).y1
  BY <1>2, TriedFacts
<1>4. \A p \in Screen : hits(p) # {} =>
        c.map[p] \in shown /\ hits(p) \subseteq Tried(c, c.map[p], a)
  OBVIOUS
<1>5. \A p \in Screen : hits(p) # {} =>
        last(p) \in hits(p)
  <2> SUFFICES ASSUME NEW p \in Screen, hits(p) # {} PROVE last(p) \in hits(p)
    OBVIOUS
  <2> DEFINE b == CutOf(c, c.map[p], a)
             T == {d[2] : d \in hits(p)}
  <2>1. hits(p) \subseteq Int \X Int /\ b.y1 \in Int /\ \A d \in hits(p) : d[2] <= b.y1
    BY <1>3, <1>4
  <2> HIDE DEF hits, b
  <2>2. T \in SUBSET Int /\ T # {} /\ \A t \in T : t <= b.y1
    BY <2>1
  <2>3. Max(T) \in T /\ \A t \in T : t <= Max(T)
    <3> HIDE DEF T
    <3> QED BY <2>1, <2>2, Largest
  <2>4. PICK d \in hits(p) : d[2] = Max(T)
    BY <2>3
  <2>5. \A e \in hits(p) : e[2] <= d[2]
    BY <2>3, <2>4
  <2> QED BY <2>4, <2>5
<1> HIDE DEF hits, last
<1>6. \A p \in Screen : hits(p) # {} => DrawnAs(v[p], c, a, p)
  <2> SUFFICES ASSUME NEW p \in Screen, hits(p) # {} PROVE DrawnAs(v[p], c, a, p)
    OBVIOUS
  <2> DEFINE e == last(p)
  <2>1. c.map[p] \in Ids /\ e \in hits(p)
    BY <1>2, <1>4, <1>5
  <2>2. e \in Tried(c, c.map[p], a) /\ Address(c, c.map[p], e[1], e[2]) = p
    BY <1>4, <2>1 DEF hits
  <2>3. v[p] = Pixel(c, c.map[p], Index(c.map[p], e[1], e[2]))
    OBVIOUS
  <2> HIDE DEF e, v
  <2> QED BY <2>1, <2>2, <2>3 DEF DrawnAs
<1>7. \A p \in Screen : hits(p) = {} => v[p] = c.vram[p]
  OBVIOUS
<1>8. v \in [Screen -> Int \X Int \X BOOLEAN]
  <2>1. Pixels \subseteq Int \X Int \X BOOLEAN
    BY Sizes DEF Pixels, Ids
  <2>2. \A p \in Screen : v[p] \in Int \X Int \X BOOLEAN
    BY <1>6, <1>7, <2>1, CtlFields, DrawnPixel
  <2> QED BY <2>2
<1>9. \A p \in Screen : \A h \in h0 .. h1 :
        c.map[p] = c.sheets[h] /\ InArea(a, p) /\ Over(c, c.sheets[h], p) => hits(p) # {}
  <2> SUFFICES ASSUME NEW p \in Screen, NEW h \in h0 .. h1, c.map[p] = c.sheets[h],
                      InArea(a, p), Over(c, c.sheets[h], p)
               PROVE  hits(p) # {}
    OBVIOUS
  <2> DEFINE s == c.sheets[h]
             b == CutOf(c, s, a)
             x == Column(p) - c.place[s].x
             y == Line(p) - c.place[s].y
  <2>1. s \in Ids /\ s \in shown
    OBVIOUS
  <2>2. /\ c.place[s].x \in Int /\ c.place[s].y \in Int
        /\ Column(p) \in 0 .. XSize - 1 /\ Line(p) \in 0 .. YSize - 1
        /\ Column(p) \in Int /\ Line(p) \in Int /\ x \in Int /\ y \in Int
        /\ c.place[s].x + x = Column(p) /\ c.place[s].y + y = Line(p)
    <3> HIDE DEF s
    <3> QED BY <2>1, CtlFields, ScreenAddress, Sizes
  <2>3. /\ x \in 0 .. Width[s] - 1 /\ y \in 0 .. Height[s] - 1
        /\ Column(p) \in a.x0 .. a.x1 - 1 /\ Line(p) \in a.y0 .. a.y1 - 1
    BY DEF InArea, Over
  <2>4. p = Address(c, s, x, y)
    BY <2>1, <2>2, AddressFacts
  <2> HIDE DEF x, y, s
  <2>5. b \in Areas /\ b.x0 \in Int /\ b.x1 \in Int
    BY <2>1, CutFacts DEF Areas
  <2>6. x \in b.x0 .. b.x1 - 1 /\ y \in b.y0 .. b.y1 - 1
    <3>1. /\ c.place[s].x + x \in a.x0 .. a.x1 - 1 /\ c.place[s].x + x \in 0 .. XSize - 1
          /\ c.place[s].y + y \in a.y0 .. a.y1 - 1 /\ c.place[s].y + y \in 0 .. YSize - 1
      BY <2>2, <2>3
    <3>2. s \in Ids /\ x \in Int /\ y \in Int
      BY <2>1, <2>2
    <3> HIDE DEF b
    <3> QED BY <2>3, <3>1, <3>2, CutFacts DEF b
  <2>7. x \in Columns(c.place[s].x, b.x0, b.x1)
    BY <2>2, <2>5, <2>6, ColumnFacts
  <2> HIDE DEF b
  <2>8. <<x, y>> \in Tried(c, s, a)
    BY <2>6, <2>7 DEF Tried, b
  <2>9. tried[s] = Tried(c, s, a) /\ s \in DOMAIN tried /\ c.map[p] = s
    BY <2>1 DEF s
  <2> HIDE DEF tried, shown
  <2>10. <<x, y>> \in hits(p)
    BY <2>4, <2>8, <2>9 DEF hits
  <2> QED BY <2>10
<1> HIDE DEF v, r
<1>10. r.vram = v
  BY <1>1 DEF Ctls
<1>11. r \in Ctls /\ SameSheets(r, c) /\ r.map = c.map
  BY <1>1, <1>8 DEF Ctls, SameSheets
<1> QED BY <1>6, <1>7, <1>9, <1>10, <1>11 DEF r, Repainted

-----------------------------------------------------------------------------
(* What a refresh tries at an address is what lies there. *)

\* The screen has the width of one of the screen modes, and no sheet is wider
\* than it or just one column narrower.
Fitting == XSize >= 6 /\ \A s \in Ids : Width[s] = XSize \/ Width[s] <= XSize - 2

\* The index of the pixel of s at p.
IndexAt(c, s, p) == Index(s, Column(p) - c.place[s].x, Line(p) - c.place[s].y)

\* Multiples of four next to a number.
LEMMA QuarterFacts ==
  ASSUME NEW n \in Int
  PROVE  /\ Quarter(n) \in Int
         /\ n >= 0 => 4 * Quarter(n) <= n /\ n <= 4 * Quarter(n) + 3 /\ Quarter(n) >= 0
         /\ n < 0 => n <= 4 * Quarter(n)
  BY DEF Quarter

\* The first of the columns tried, when not all of them were asked for.
LEMMA ColumnsFrom ==
  ASSUME NEW x \in Int, NEW i \in Nat, NEW j \in Int, NEW k \in Columns(x, i, j), k < i
  PROVE  LET n == Quarter(i + 3)
             m == Quarter(j)
         IN  /\ k \in Int /\ k < j /\ x % 4 = 0
             /\ i <= 4 * n /\ 4 * n <= i + 3
             /\ IF i < j THEN (4 * n <= j /\ k >= 4 * m) \/ (j < 4 * n /\ k >= j + 4 * (m - n))
                ELSE k >= i + 4 * (m - n)
<1> DEFINE n == Quarter(i + 3)
           m == Quarter(j)
           left == IF i < j THEN Min({4 * n, j}) ELSE i
<1>1. n \in Int /\ m \in Int /\ i + 3 \in Int /\ i + 3 >= 0
  BY QuarterFacts
<1>2. 4 * n <= i + 3 /\ i + 3 <= 4 * n + 3
  BY <1>1, QuarterFacts
<1> HIDE DEF n, m
<1>3. Columns(x, i, j) = IF x % 4 = 0
                         THEN (i .. j - 1) \union (left + 4 * (m - n) .. j - 1) ELSE i .. j - 1
  BY DEF Columns, n, m
<1>4. Min({4 * n, j}) = IF 4 * n <= j THEN 4 * n ELSE j
  <2>1. 4 * n \in Int
    BY <1>1
  <2> QED BY <2>1, OfTwo
<1> HIDE DEF left
<1>5. x % 4 = 0 /\ k \in left + 4 * (m - n) .. j - 1
  <2>1. k \notin i .. j - 1
    OBVIOUS
  <2> QED BY <1>3, <2>1
<1>6. left = IF i < j THEN IF 4 * n <= j THEN 4 * n ELSE j ELSE i
  BY <1>4 DEF left
<1>7. left \in Int
  BY <1>1, <1>6
<1>8. k \in Int /\ k < j /\ k >= left + 4 * (m - n)
  BY <1>1, <1>5, <1>7
<1>9. IF i < j THEN (4 * n <= j /\ k >= 4 * m) \/ (j < 4 * n /\ k >= j + 4 * (m - n))
      ELSE k >= i + 4 * (m - n)
  BY <1>1, <1>6, <1>8
<1> QED BY <1>1, <1>2, <1>5, <1>8, <1>9 DEF n, m

\* A column tried in front of the screen, of a sheet at least two columns narrower
\* than the screen, is none of the sheet's columns in the line above either.  The
\* sheet is at x and w columns wide, the area reaches from a0 to a1, the screen is
\* v columns wide.
LEMMA NotAbove ==
  ASSUME NEW v \in Nat, v >= 6, NEW w \in Nat, 1 <= w, w <= v - 2, NEW x \in Int,
         NEW a0 \in Int, NEW a1 \in Int, a0 < a1,
         NEW e0, e0 = IF a0 >= 0 THEN a0 ELSE 0,
         NEW e1, e1 = IF a1 <= v THEN a1 ELSE v,
         NEW i, i = IF e0 - x >= 0 THEN e0 - x ELSE 0,
         NEW j, j = IF e1 - x <= w THEN e1 - x ELSE w,
         NEW k \in Columns(x, i, j), x + k < 0
  PROVE  ~(k + v <= w - 1)
<1> SUFFICES ASSUME k + v <= w - 1 PROVE FALSE
  OBVIOUS
<1>1. e0 \in Int /\ e1 \in Int /\ i \in Nat /\ j \in Int
  OBVIOUS
<1>2. Columns(x, i, j) \subseteq Int
  BY <1>1, ColumnFacts
<1>3. k \in Int /\ k <= -3 /\ k < i
  BY <1>1, <1>2
<1> DEFINE n == Quarter(i + 3)
           m == Quarter(j)
<1>4. /\ k < j /\ x % 4 = 0 /\ i <= 4 * n /\ 4 * n <= i + 3
      /\ IF i < j THEN (4 * n <= j /\ k >= 4 * m) \/ (j < 4 * n /\ k >= j + 4 * (m - n))
         ELSE k >= i + 4 * (m - n)
  BY <1>1, <1>3, ColumnsFrom
<1>5. /\ n \in Int /\ m \in Int
      /\ j >= 0 => 4 * m <= j /\ j <= 4 * m + 3 /\ m >= 0
      /\ j < 0 => j <= 4 * m
  <2>1. i + 3 \in Int
    BY <1>1
  <2> QED BY <1>1, <2>1, QuarterFacts
<1> HIDE DEF n, m
<1>6. ~(i < j)
  BY <1>1, <1>3, <1>4, <1>5
<1>7. k >= i + 4 * (m - n)
  BY <1>4, <1>6
<1>8. CASE j < 0
  <2>0. /\ i \in Int /\ j \in Int /\ k \in Int /\ n \in Int /\ m \in Int
        /\ j <= 4 * m /\ k < j /\ k >= i + 4 * (m - n) /\ i <= 4 * n /\ 4 * n <= i + 3
    BY <1>1, <1>3, <1>4, <1>5, <1>7, <1>8
  <2>1. j = e1 - x /\ e1 < x
    BY <1>1, <1>8
  <2>2. CASE a1 < 0
    <3>1. e0 = 0 /\ e1 = a1
      BY <2>2
    <3>2. i = IF -x >= 0 THEN -x ELSE 0
      BY <3>1
    <3>3. x = 4 * (x \div 4) /\ x \div 4 \in Int
      BY <1>4
    <3>4. i = 4 * n
      BY <1>1, <1>4, <1>5, <3>2, <3>3
    <3> QED BY <2>0, <3>4
  <2>3. CASE a1 >= 0
    <3>1. e1 >= 0 /\ x > 0
      BY <2>1, <2>3
    <3>2. i >= e0 - x /\ e0 \in Int
      BY <1>1
    <3>3. k >= j - 3
      BY <2>0
    <3>4. CASE e1 = v
      BY <1>1, <1>3, <2>1, <3>3, <3>4
    <3>5. CASE e1 # v
      <4>1. e1 = a1 /\ e0 = IF a0 >= 0 THEN a0 ELSE 0
        BY <3>5
      <4>2. e0 <= e1 /\ e0 - x < 0
        BY <2>1, <2>3, <4>1
      <4>3. i = 0
        BY <4>2
      <4> QED BY <2>0, <4>3
    <3> QED BY <3>4, <3>5
  <2> QED BY <2>2, <2>3
<1>9. CASE j >= 0
  <2>1. m = 0 /\ j <= 3 /\ i + 3 = 4 * n /\ k = -3 /\ w = v - 2
    BY <1>1, <1>3, <1>4, <1>5, <1>7, <1>9
  <2>2. x \div 4 \in Int /\ x = 4 * (x \div 4) /\ x <= 2
    BY <1>4, <2>1
  <2>3. j = e1 - x /\ e1 - x <= 3
    BY <1>1, <2>1
  <2>4. e1 <= 5 /\ e1 # v /\ e1 = a1
    BY <1>1, <2>2, <2>3
  <2>5. i = e0 - x /\ e0 # 0
    BY <1>1, <1>5, <2>1, <2>2
  <2>6. e0 = a0 /\ e0 < e1
    BY <2>4, <2>5
  <2> QED BY <1>1, <1>6, <2>3, <2>5, <2>6
<1> QED BY <1>1, <1>8, <1>9

\* The columns an area cuts out of a sheet.
LEMMA CutColumns ==
  ASSUME NEW c \in Ctls, NEW s \in Ids, NEW a \in Areas
  PROVE  LET e0 == IF a.x0 >= 0 THEN a.x0 ELSE 0
             e1 == IF a.x1 <= XSize THEN a.x1 ELSE XSize
             x == c.place[s].x
         IN  /\ CutOf(c, s, a).x0 = IF e0 - x >= 0 THEN e0 - x ELSE 0
             /\ CutOf(c, s, a).x1 = IF e1 - x <= Width[s] THEN e1 - x ELSE Width[s]
<1> DEFINE e0 == IF a.x0 >= 0 THEN a.x0 ELSE 0
           e1 == IF a.x1 <= XSize THEN a.x1 ELSE XSize
           x == c.place[s].x
           w == Width[s]
<1>1. a.x0 \in Int /\ a.x1 \in Int /\ XSize \in Int /\ x \in Int /\ w \in Int
  BY CtlFields, Sizes DEF Areas
<1>2. Max({a.x0, 0}) = e0 /\ Min({a.x1, XSize}) = e1
  <2>1. Max({a.x0, 0}) = IF a.x0 >= 0 THEN a.x0 ELSE 0
    BY <1>1, OfTwo
  <2>2. Min({a.x1, XSize}) = IF a.x1 <= XSize THEN a.x1 ELSE XSize
    BY <1>1, OfTwo
  <2> QED BY <2>1, <2>2
<1>3. e0 \in Int /\ e1 \in Int
  BY <1>1
<1>4. /\ CutOf(c, s, a).x0 = Max({Max({a.x0, 0}) - x, 0})
      /\ CutOf(c, s, a).x1 = Min({Min({a.x1, XSize}) - x, w})
  BY DEF CutOf, OnScreen, Area
<1> HIDE DEF e0, e1, x, w
<1>5. e0 - x \in Int /\ e1 - x \in Int
  BY <1>1, <1>3
<1>6. /\ Max({e0 - x, 0}) = IF e0 - x >= 0 THEN e0 - x ELSE 0
      /\ Min({e1 - x, w}) = IF e1 - x <= w THEN e1 - x ELSE w
  <2>1. Max({e0 - x, 0}) = IF e0 - x >= 0 THEN e0 - x ELSE 0
    BY <1>5, OfTwo
  <2>2. Min({e1 - x, w}) = IF e1 - x <= w THEN e1 - x ELSE w
    BY <1>1, <1>5, OfTwo
  <2> QED BY <2>1, <2>2
<1> QED BY <1>2, <1>4, <1>6 DEF e0, e1, x, w

\* Multiplication distributes over sums and differences.
LEMMA Distributes ==
  ASSUME NEW a \in Int, NEW b \in Int, NEW w \in Int
  PROVE  (a + b) * w = a * w + b * w /\ (a - b) * w = a * w - b * w
  OBVIOUS

\* What a refresh tries at an address that lies under a sheet is the pixel of the
\* sheet there.
LEMMA TriedIsThere ==
  ASSUME Fitting, NEW c \in Ctls, NEW s \in Ids, NEW a \in Areas, a.x0 < a.x1,
         NEW p \in Screen, Over(c, s, p),
         NEW e \in Tried(c, s, a), Address(c, s, e[1], e[2]) = p
  PROVE  Index(s, e[1], e[2]) = IndexAt(c, s, p)
<1> DEFINE px == c.place[s].x
           py == c.place[s].y
           u == Column(p)
           y == Line(p)
           k == e[1]
           l == e[2]
           v == XSize
           w == Width[s]
<1>1. /\ px \in Int /\ py \in Int /\ k \in Int /\ l \in Int
      /\ v \in Nat \ {0} /\ w \in Nat \ {0} /\ v >= 6 /\ (w = v \/ w <= v - 2)
  BY CtlFields, TriedFacts, Sizes DEF Fitting
<1>2. u \in 0 .. v - 1 /\ u \in Int /\ y \in Int /\ p = y * v + u
  BY ScreenAddress, Sizes
<1>3. p = (py + l) * v + px + k
  BY DEF Address
<1>4. u - px \in 0 .. w - 1
  BY DEF Over
<1>5. IndexAt(c, s, p) = (y - py) * w + (u - px) /\ Index(s, k, l) = l * w + k
  BY DEF IndexAt, Index
<1>6. CASE w = v
  <2>1. CASE TRUE
    <3> HIDE DEF px, py, u, y, k, l, v, w
    <3>1. (py + l) * v = py * v + l * v /\ (y - py) * v = y * v - py * v
      BY <1>1, <1>2, Distributes
    <3>2. y * v \in Int /\ py * v \in Int /\ l * v \in Int
      BY <1>1, <1>2
    <3>3. y * v + u = py * v + l * v + px + k
      BY <1>2, <1>3, <3>1
    <3>4. l * v + k = y * v - py * v + (u - px)
      BY <1>1, <1>2, <3>2, <3>3
    <3> QED BY <1>5, <1>6, <3>1, <3>4 DEF k, l
  <2> QED BY <2>1
<1>7. CASE w <= v - 2
  <2> DEFINE i == CutOf(c, s, a).x0
             j == CutOf(c, s, a).x1
             e0 == IF a.x0 >= 0 THEN a.x0 ELSE 0
             e1 == IF a.x1 <= v THEN a.x1 ELSE v
  <2>1. k \in Columns(px, i, j)
    BY DEF Tried
  <2>2. /\ i = IF e0 - px >= 0 THEN e0 - px ELSE 0
        /\ j = IF e1 - px <= w THEN e1 - px ELSE w
    BY CutColumns
  <2>3. a.x0 \in Int /\ a.x1 \in Int /\ a.x0 < a.x1
    BY DEF Areas
  <2> HIDE DEF px, py, u, y, k, l, v, w, i, j
  <2>4. e0 \in Int /\ e1 \in Int /\ e1 <= v /\ i \in Nat /\ j \in Int /\ j <= v - px
    BY <1>1, <2>2, <2>3
  <2>5. k < j
    <3>1. CASE k < i
      BY <2>1, <2>4, <1>1, <3>1, ColumnsFrom
    <3>2. CASE ~(k < i)
      <4>1. Quarter(i + 3) \in Int /\ Quarter(j) \in Int /\ i + 3 \in Int
        BY <2>4, QuarterFacts
      <4> QED BY <2>1, <2>4, <1>1, <4>1 DEF Columns
    <3> QED BY <3>1, <3>2
  <2>6. px + k < v
    BY <1>1, <2>4, <2>5
  <2>7. CASE px + k >= 0
    <3>1. px + k \in 0 .. v - 1
      BY <1>1, <2>6, <2>7
    <3>2. c.place[s].x + k \in 0 .. XSize - 1 /\ Address(c, s, k, l) = p
      BY <3>1 DEF px, k, l, v
    <3>3. k = Column(p) - c.place[s].x /\ l = Line(p) - c.place[s].y
      BY <1>1, <3>2, AddressFacts
    <3> QED BY <1>5, <3>3 DEF k, l, IndexAt
  <2>8. CASE px + k < 0
    <3> DEFINE d == py + l - y
    <3>1. (py + l) * v = d * v + y * v /\ d \in Int
      <4>1. d \in Int /\ d + y = py + l
        BY <1>1, <1>2
      <4> HIDE DEF d
      <4> QED BY <1>1, <1>2, <4>1, Distributes
    <3> HIDE DEF d
    <3>2. d * v \in Int /\ y * v \in Int
      BY <1>1, <1>2, <3>1
    <3>3. u = d * v + px + k
      BY <1>1, <1>2, <1>3, <3>1, <3>2
    <3>4. d * v > 0
      BY <1>1, <1>2, <2>8, <3>2, <3>3
    <3>5. d >= 1
      <4> SUFFICES ASSUME d <= 0 PROVE FALSE
        BY <3>1
      <4>1. d * v <= 0 * v
        BY <1>1, <3>1, LineOrder
      <4> QED BY <1>1, <3>2, <3>4, <4>1
    <3>6. v <= d * v
      <4>1. 1 * v <= d * v
        BY <1>1, <3>1, <3>5, LineOrder
      <4> QED BY <1>1, <4>1
    <3>7. k + v <= w - 1
      BY <1>1, <1>2, <1>4, <3>2, <3>3, <3>6
    <3>8. ~(k + v <= w - 1)
      <4>1. v \in Nat /\ w \in Nat /\ 1 <= w
        BY <1>1
      <4> HIDE DEF e0, e1
      <4>2. /\ e0 = IF a.x0 >= 0 THEN a.x0 ELSE 0
            /\ e1 = IF a.x1 <= v THEN a.x1 ELSE v
        BY DEF e0, e1
      <4> QED BY <1>1, <1>7, <2>1, <2>2, <2>3, <2>8, <4>1, <4>2, NotAbove
    <3> QED BY <3>7, <3>8
  <2> QED BY <1>1, <2>7, <2>8
<1> QED BY <1>1, <1>6, <1>7

\* The screen shows the sheet that map names, up to date.
Current(c, p) == c.vram[p] = Pixel(c, c.map[p], IndexAt(c, c.map[p], p))

\* The same sheet, as it was, shows the same at p.
SameAt(r, c, p) ==
    LET s == c.map[p]
    IN  r.map[p] = s /\ r.vram[p] = c.vram[p] /\ r.place[s] = c.place[s] /\ r.buf[s] = c.buf[s]

\* Where r does not show what c shows, it is up to date.
PaintedFrom(r, c) == \A p \in Screen : SameAt(r, c, p) \/ Current(r, p)

\* What is up to date remains so as long as it is the same.
LEMMA SameCurrent ==
  ASSUME NEW c, NEW r, NEW p, SameAt(r, c, p), Current(c, p)
  PROVE  Current(r, p)
<1>1. /\ r.map[p] = c.map[p] /\ r.vram[p] = c.vram[p]
      /\ r.place[c.map[p]] = c.place[c.map[p]] /\ r.buf[c.map[p]] = c.buf[c.map[p]]
  BY DEF SameAt
<1>2. IndexAt(r, c.map[p], p) = IndexAt(c, c.map[p], p)
  BY <1>1 DEF IndexAt
<1>3. \A i : Pixel(r, c.map[p], i) = Pixel(c, c.map[p], i)
  BY <1>1 DEF Pixel
<1> QED BY <1>1, <1>2, <1>3 DEF Current

\* One after the other.
LEMMA PaintedOnce ==
  ASSUME NEW c, NEW m, NEW r, NEW p,
         SameAt(m, c, p) \/ Current(m, p), SameAt(r, m, p) \/ Current(r, p)
  PROVE  SameAt(r, c, p) \/ Current(r, p)
<1>1. SameAt(m, c, p) /\ SameAt(r, m, p) => SameAt(r, c, p)
  BY DEF SameAt
<1> QED BY <1>1, SameCurrent

\* Two repaints in a row leave what either of them painted current.
LEMMA PaintedTwice ==
  ASSUME NEW c, NEW m, NEW r, PaintedFrom(m, c), PaintedFrom(r, m)
  PROVE  PaintedFrom(r, c)
  BY PaintedOnce DEF PaintedFrom

\* What was current before a repaint is current after it.
LEMMA PaintedAlready ==
  ASSUME NEW c, NEW r, r.map = c.map, r.vram = c.vram, r.place = c.place, r.buf = c.buf
  PROVE  PaintedFrom(r, c)
  BY DEF PaintedFrom, SameAt

\* What a refresh draws is up to date; it draws where a sheet between the heights
\* owns an address of the area.
LEMMA Renewed ==
  ASSUME Fitting, NEW c \in Ctls, NEW a \in Areas, a.x0 < a.x1, NEW h0, NEW h1,
         NEW r, Repainted(r, c, a, h0, h1), NEW p \in Screen,
         c.map[p] \in Ids, Over(c, c.map[p], p)
  PROVE  /\ SameAt(r, c, p) \/ Current(r, p)
         /\ \A h \in h0 .. h1 : c.map[p] = c.sheets[h] /\ InArea(a, p) => Current(r, p)
<1>1. r.map = c.map /\ r.place = c.place /\ r.buf = c.buf
  BY DEF Repainted, SameSheets
<1>2. ASSUME DrawnAs(r.vram[p], c, a, p) PROVE Current(r, p)
  <2> DEFINE s == c.map[p]
  <2>1. PICK e \in Tried(c, s, a) : /\ Address(c, s, e[1], e[2]) = p
                                   /\ r.vram[p] = Pixel(c, s, Index(s, e[1], e[2]))
    BY <1>2 DEF DrawnAs
  <2>2. Index(s, e[1], e[2]) = IndexAt(c, s, p)
    BY <2>1, TriedIsThere
  <2>3. r.vram[p] = Pixel(c, s, IndexAt(c, s, p))
    BY <2>1, <2>2
  <2>4. IndexAt(r, s, p) = IndexAt(c, s, p) /\ \A i : Pixel(r, s, i) = Pixel(c, s, i)
    BY <1>1 DEF IndexAt, Pixel
  <2> QED BY <1>1, <2>3, <2>4 DEF Current
<1>3. r.vram[p] = c.vram[p] => SameAt(r, c, p)
  BY <1>1 DEF SameAt
<1> QED BY <1>2, <1>3 DEF Repainted

-----------------------------------------------------------------------------
(* sheets[] and the heights: the loops of sheet_updown. *)

\* The pixels, the places and the screen are the same.
SamePixels(r, c) ==
    r.used = c.used /\ r.place = c.place /\ r.buf = c.buf /\ r.map = c.map /\ r.vram = c.vram

\* In r the entries from h0 to h1 are those by further in c, and the sheets there
\* know it.
ShiftedBy(r, c, h0, h1, by) ==
    /\ r \in Ctls /\ SamePixels(r, c) /\ r.top = c.top
    /\ \A h \in h0 .. h1 : r.sheets[h] = c.sheets[h + by]
    /\ \A h \in Ids : h \notin h0 .. h1 => r.sheets[h] = c.sheets[h]
    /\ \A h \in h0 .. h1 : r.height[c.sheets[h + by]] = h
    /\ \A t \in Ids : (\A h \in h0 .. h1 : c.sheets[h + by] # t) =>
                        r.height[t] = c.height[t]

\* The loops do that, when there are different sheets to move.
LEMMA ShiftedFacts ==
  ASSUME NEW c \in Ctls, NEW h0 \in Nat, NEW h1 \in Int, h1 < MaxSheets, NEW by \in Int,
         \A h \in h0 .. h1 : c.sheets[h + by] \in Ids,
         \A h, k \in h0 .. h1 : c.sheets[h + by] = c.sheets[k + by] => h = k
  PROVE  ShiftedBy(Shifted(c, h0, h1, by), c, h0, h1, by)
<1> DEFINE sheets == [h \in Ids |-> IF h \in h0 .. h1 THEN c.sheets[h + by] ELSE c.sheets[h]]
           height == [t \in Ids |-> IF \E h \in h0 .. h1 : sheets[h] = t
                                    THEN CHOOSE h \in h0 .. h1 : sheets[h] = t
                                    ELSE c.height[t]]
           r == Shifted(c, h0, h1, by)
<1>1. r = [c EXCEPT !.sheets = sheets, !.height = height]
  BY DEF Shifted
<1>2. h0 .. h1 \subseteq Ids /\ Ids \subseteq Int
  BY Sizes DEF Ids
<1>3. \A h \in h0 .. h1 : sheets[h] = c.sheets[h + by]
  BY <1>2
<1>4. \A h \in Ids : h \notin h0 .. h1 => sheets[h] = c.sheets[h]
  OBVIOUS
<1>5. sheets \in [Ids -> Ids \union {NoSheet}]
  <2> SUFFICES ASSUME NEW h \in Ids PROVE sheets[h] \in Ids \union {NoSheet}
    OBVIOUS
  <2> QED BY <1>2, <1>3, <1>4, CtlFields
<1> HIDE DEF sheets
<1>6. \A t \in Ids : (\A h \in h0 .. h1 : c.sheets[h + by] # t) => height[t] = c.height[t]
  BY <1>3
<1>7. \A h \in h0 .. h1 : height[c.sheets[h + by]] = h
  <2> SUFFICES ASSUME NEW h \in h0 .. h1 PROVE height[c.sheets[h + by]] = h
    OBVIOUS
  <2> DEFINE t == c.sheets[h + by]
  <2>1. t \in Ids /\ sheets[h] = t
    BY <1>3
  <2>2. height[t] = CHOOSE k \in h0 .. h1 : sheets[k] = t
    BY <2>1
  <2>3. \A k \in h0 .. h1 : sheets[k] = t => k = h
    BY <1>3
  <2> HIDE DEF height, t
  <2>4. height[t] = h
    BY <2>1, <2>2, <2>3
  <2> QED BY <2>4 DEF t
<1>8. height \in [Ids -> Int]
  <2> SUFFICES ASSUME NEW t \in Ids PROVE height[t] \in Int
    OBVIOUS
  <2>1. CASE \A h \in h0 .. h1 : c.sheets[h + by] # t
    BY <1>6, <2>1, CtlFields
  <2>2. CASE \E h \in h0 .. h1 : c.sheets[h + by] = t
    <3>1. PICK h \in h0 .. h1 : c.sheets[h + by] = t
      BY <2>2
    <3>2. height[t] = h
      BY <1>7, <3>1
    <3> QED BY <3>2
  <2> QED BY <2>1, <2>2
<1> HIDE DEF height, r
<1>9. r.sheets = sheets /\ r.height = height /\ r \in Ctls /\ SamePixels(r, c) /\ r.top = c.top
  BY <1>1, <1>5, <1>8 DEF Ctls, SamePixels
<1> QED BY <1>3, <1>4, <1>6, <1>7, <1>9 DEF r, ShiftedBy

\* Fields of a stack that agrees, and no sheet twice in it.
LEMMA AgreeFacts ==
  ASSUME NEW c \in Ctls, Agrees(c)
  PROVE  /\ c.top \in Int /\ -1 <= c.top /\ c.top < MaxSheets
         /\ \A h \in 0 .. c.top : h \in Ids /\ c.sheets[h] \in Ids /\ c.height[c.sheets[h]] = h
         /\ \A h, k \in 0 .. c.top : c.sheets[h] = c.sheets[k] => h = k
         /\ \A t \in Ids : c.height[t] # Hidden =>
              c.height[t] \in 0 .. c.top /\ c.sheets[c.height[t]] = t
  BY Sizes DEF Agrees, Ids

\* In d the sheet s is raised to the height new, and those it passes are lowered.
RaisedIn(d, c, s, new) ==
    LET old == c.height[s]
    IN  /\ d \in Ctls /\ Agrees(d) /\ SamePixels(d, c) /\ d.top = c.top
        /\ \A h \in 0 .. c.top :
             d.sheets[h] = IF h < old \/ h > new THEN c.sheets[h]
                           ELSE IF h = new THEN s ELSE c.sheets[h + 1]
        /\ \A t \in Ids :
             d.height[t] = IF t = s THEN new
                           ELSE IF c.height[t] \in old + 1 .. new THEN c.height[t] - 1
                           ELSE c.height[t]

\* A sheet that goes up.
LEMMA RaisedMove ==
  ASSUME NEW c \in Ctls, Agrees(c), NEW s \in Ids, c.height[s] # Hidden,
         NEW new \in Int, c.height[s] < new, new <= c.top
  PROVE  RaisedIn(Seated(Shifted([c EXCEPT !.height[s] = new], c.height[s], new - 1, 1), s, new),
                  c, s, new)
<1> DEFINE old == c.height[s]
           told == [c EXCEPT !.height[s] = new]
           r == Shifted(told, old, new - 1, 1)
           d == Seated(r, s, new)
<1>1. /\ c.top \in Int /\ c.top < MaxSheets /\ old \in 0 .. c.top /\ old \in Nat
      /\ c.sheets[old] = s
  BY AgreeFacts
<1>2. /\ told \in Ctls /\ SamePixels(told, c) /\ told.top = c.top /\ told.sheets = c.sheets
      /\ told.height[s] = new /\ \A t \in Ids : t # s => told.height[t] = c.height[t]
  BY DEF Ctls, SamePixels
<1> HIDE DEF told
<1>3. \A h \in old .. new - 1 : /\ h + 1 \in 0 .. c.top /\ h + 1 # old
                                /\ told.sheets[h + 1] \in Ids /\ told.sheets[h + 1] # s
                                /\ c.height[told.sheets[h + 1]] = h + 1
  <2> SUFFICES ASSUME NEW h \in old .. new - 1
               PROVE  /\ h + 1 \in 0 .. c.top /\ h + 1 # old
                      /\ told.sheets[h + 1] \in Ids /\ told.sheets[h + 1] # s
                      /\ c.height[told.sheets[h + 1]] = h + 1
    OBVIOUS
  <2>1. h + 1 \in 0 .. c.top /\ h + 1 # old
    BY <1>1
  <2> QED BY <1>1, <1>2, <2>1, AgreeFacts
<1>4. \A h, k \in old .. new - 1 : told.sheets[h + 1] = told.sheets[k + 1] => h = k
  <2> SUFFICES ASSUME NEW h \in old .. new - 1, NEW k \in old .. new - 1,
                      told.sheets[h + 1] = told.sheets[k + 1]
               PROVE  h = k
    OBVIOUS
  <2>1. h + 1 = k + 1
    BY <1>3
  <2> QED BY <1>1, <2>1
<1>5. /\ r \in Ctls /\ SamePixels(r, told) /\ r.top = told.top
      /\ \A h \in old .. new - 1 : r.sheets[h] = told.sheets[h + 1]
      /\ \A h \in Ids : h \notin old .. new - 1 => r.sheets[h] = told.sheets[h]
      /\ \A h \in old .. new - 1 : r.height[told.sheets[h + 1]] = h
      /\ \A t \in Ids : (\A h \in old .. new - 1 : told.sheets[h + 1] # t) =>
                          r.height[t] = told.height[t]
  <2>1. new - 1 \in Int /\ new - 1 < MaxSheets /\ 1 \in Int
    BY <1>1, Sizes
  <2>2. \A h \in old .. new - 1 : told.sheets[h + 1] \in Ids
    BY <1>3
  <2> DEFINE h1 == new - 1
             by == 1
  <2>3. /\ h1 \in Int /\ h1 < MaxSheets /\ by \in Int /\ old \in Nat /\ told \in Ctls
        /\ \A h \in old .. h1 : told.sheets[h + by] \in Ids
        /\ \A h, k \in old .. h1 : told.sheets[h + by] = told.sheets[k + by] => h = k
    BY <1>1, <1>2, <1>4, <2>1, <2>2
  <2>4. r = Shifted(told, old, h1, by)
    OBVIOUS
  <2> HIDE DEF old, h1, by, r
  <2>5. ShiftedBy(r, told, old, h1, by)
    BY <2>3, <2>4, ShiftedFacts
  <2> QED BY <2>5 DEF h1, by, ShiftedBy
<1> HIDE DEF r
<1>6. new \in Ids /\ s \in Int
  BY <1>1, Sizes DEF Ids
<1>7. /\ d \in Ctls /\ SamePixels(d, r) /\ d.top = r.top /\ d.height = r.height
      /\ d.sheets[new] = s /\ \A h \in Ids : h # new => d.sheets[h] = r.sheets[h]
  BY <1>5, <1>6 DEF Seated, Ctls, SamePixels
<1> HIDE DEF d
<1>8. SamePixels(d, c) /\ d.top = c.top
  BY <1>2, <1>5, <1>7 DEF SamePixels
<1>9. \A h \in 0 .. c.top :
        d.sheets[h] = IF h < old \/ h > new THEN c.sheets[h]
                      ELSE IF h = new THEN s ELSE c.sheets[h + 1]
  <2> SUFFICES ASSUME NEW h \in 0 .. c.top
               PROVE  d.sheets[h] = IF h < old \/ h > new THEN c.sheets[h]
                                    ELSE IF h = new THEN s ELSE c.sheets[h + 1]
    OBVIOUS
  <2>1. h \in Ids
    BY AgreeFacts
  <2>2. CASE h = new
    BY <1>1, <1>7, <2>2
  <2>3. CASE h < old \/ h > new
    <3>1. h \notin old .. new - 1 /\ h # new
      BY <1>1, <2>3
    <3> QED BY <1>2, <1>5, <1>7, <2>1, <2>3, <3>1
  <2>4. CASE ~(h < old \/ h > new) /\ h # new
    <3>1. h \in old .. new - 1
      BY <1>1, <2>4
    <3> QED BY <1>2, <1>5, <1>7, <2>1, <2>4, <3>1
  <2> QED BY <2>2, <2>3, <2>4
<1>10. \A t \in Ids :
         d.height[t] = IF t = s THEN new
                       ELSE IF c.height[t] \in old + 1 .. new THEN c.height[t] - 1
                       ELSE c.height[t]
  <2> SUFFICES ASSUME NEW t \in Ids
               PROVE  d.height[t] = IF t = s THEN new
                                    ELSE IF c.height[t] \in old + 1 .. new THEN c.height[t] - 1
                                    ELSE c.height[t]
    OBVIOUS
  <2>1. CASE t = s
    BY <1>2, <1>3, <1>5, <1>7, <2>1
  <2>2. CASE t # s /\ c.height[t] \in old + 1 .. new
    <3> DEFINE h == c.height[t] - 1
    <3>1. h \in old .. new - 1 /\ h + 1 = c.height[t] /\ c.height[t] # Hidden
      BY <1>1, <2>2 DEF Hidden
    <3>2. told.sheets[h + 1] = t
      BY <1>2, <3>1, AgreeFacts
    <3>3. d.height[t] = h
      BY <1>5, <1>7, <3>1, <3>2
    <3> QED BY <2>2, <3>3
  <2>3. CASE t # s /\ c.height[t] \notin old + 1 .. new
    <3>1. \A h \in old .. new - 1 : told.sheets[h + 1] # t
      <4> SUFFICES ASSUME NEW h \in old .. new - 1, told.sheets[h + 1] = t PROVE FALSE
        OBVIOUS
      <4>1. c.height[t] = h + 1
        BY <1>3
      <4>2. h + 1 \in old + 1 .. new
        BY <1>1
      <4> QED BY <2>3, <4>1, <4>2
    <3>2. d.height[t] = c.height[t]
      BY <1>2, <1>5, <1>7, <2>3, <3>1
    <3> QED BY <2>3, <3>2
  <2> QED BY <2>1, <2>2, <2>3
<1>11. Agrees(d)
  <2>1. \A h \in 0 .. d.top : d.sheets[h] \in Ids /\ d.height[d.sheets[h]] = h
    <3> SUFFICES ASSUME NEW h \in 0 .. c.top
                 PROVE  d.sheets[h] \in Ids /\ d.height[d.sheets[h]] = h
      BY <1>8
    <3>1. CASE h = new
      BY <1>9, <1>10, <1>1, <3>1
    <3>2. CASE h < old \/ h > new
      <4>1. d.sheets[h] = c.sheets[h]
        BY <1>9, <3>2
      <4>2. c.sheets[h] \in Ids /\ c.height[c.sheets[h]] = h /\ c.sheets[h] # s
        BY <1>1, <3>2, AgreeFacts
      <4>3. h \notin old + 1 .. new
        BY <1>1, <3>2
      <4> QED BY <1>10, <4>1, <4>2, <4>3
    <3>3. CASE ~(h < old \/ h > new) /\ h # new
      <4>1. d.sheets[h] = c.sheets[h + 1] /\ h + 1 \in 0 .. c.top /\ h + 1 \in old + 1 .. new
        BY <1>1, <1>9, <3>3
      <4>2. c.sheets[h + 1] \in Ids /\ c.height[c.sheets[h + 1]] = h + 1
        BY <4>1, AgreeFacts
      <4>3. c.sheets[h + 1] # s
        BY <1>1, <3>3, <4>2
      <4>4. d.height[c.sheets[h + 1]] = (h + 1) - 1
        BY <1>10, <4>1, <4>2, <4>3
      <4> QED BY <4>1, <4>2, <4>4
    <3> QED BY <3>1, <3>2, <3>3
  <2>2. \A t \in Ids : \/ d.height[t] = Hidden
                       \/ d.height[t] \in 0 .. d.top /\ d.sheets[d.height[t]] = t
    <3> SUFFICES ASSUME NEW t \in Ids, d.height[t] # Hidden
                 PROVE  d.height[t] \in 0 .. c.top /\ d.sheets[d.height[t]] = t
      BY <1>8
    <3>1. CASE t = s
      BY <1>1, <1>9, <1>10, <3>1
    <3>2. CASE t # s /\ c.height[t] \in old + 1 .. new
      <4> DEFINE h == c.height[t] - 1
      <4>1. d.height[t] = h /\ h \in old .. new - 1 /\ h \in 0 .. c.top /\ h + 1 = c.height[t]
        BY <1>1, <1>10, <3>2
      <4>2. c.sheets[h + 1] = t
        BY <1>1, <3>2, <4>1, AgreeFacts DEF Hidden
      <4>3. d.sheets[h] = c.sheets[h + 1]
        <5> HIDE DEF h
        <5> QED BY <1>1, <1>9, <4>1
      <4> QED BY <4>1, <4>2, <4>3
    <3>3. CASE t # s /\ c.height[t] \notin old + 1 .. new
      <4>1. d.height[t] = c.height[t]
        BY <1>10, <3>3
      <4>2. c.height[t] \in 0 .. c.top /\ c.sheets[c.height[t]] = t
        BY <4>1, AgreeFacts
      <4>3. c.height[t] < old \/ c.height[t] > new
        BY <1>1, <3>3, <4>2
      <4> QED BY <1>9, <4>1, <4>2, <4>3
    <3> QED BY <3>1, <3>2, <3>3
  <2>3. d.top \in -1 .. MaxSheets - 1
    BY <1>8 DEF Agrees
  <2> QED BY <2>1, <2>2, <2>3 DEF Agrees
<1> QED BY <1>7, <1>8, <1>9, <1>10, <1>11 DEF d, r, told, RaisedIn

\* In d the sheet s is hidden, and those above it are lowered.
HiddenIn(d, c, s) ==
    LET old == c.height[s]
    IN  /\ d \in Ctls /\ Agrees(d) /\ SamePixels(d, c) /\ d.top = c.top - 1
        /\ \A h \in 0 .. c.top - 1 :
             d.sheets[h] = IF h < old THEN c.sheets[h] ELSE c.sheets[h + 1]
        /\ \A t \in Ids :
             d.height[t] = IF t = s THEN Hidden
                           ELSE IF c.height[t] > old THEN c.height[t] - 1
                           ELSE c.height[t]

\* A sheet that is taken out.
LEMMA TakenOutMove ==
  ASSUME NEW c \in Ctls, Agrees(c), NEW s \in Ids, c.height[s] # Hidden
  PROVE  LET told == [c EXCEPT !.height[s] = Hidden]
         IN  HiddenIn([Shifted(told, c.height[s], told.top - 1, 1) EXCEPT !.top = @ - 1], c, s)
<1> DEFINE old == c.height[s]
           told == [c EXCEPT !.height[s] = Hidden]
           r == Shifted(told, old, told.top - 1, 1)
           d == [r EXCEPT !.top = @ - 1]
<1>1. /\ c.top \in Int /\ c.top < MaxSheets /\ old \in 0 .. c.top /\ old \in Nat
      /\ c.sheets[old] = s
  BY AgreeFacts
<1>2. /\ told \in Ctls /\ SamePixels(told, c) /\ told.top = c.top /\ told.sheets = c.sheets
      /\ told.height[s] = Hidden /\ \A t \in Ids : t # s => told.height[t] = c.height[t]
  <2>1. Hidden \in Int
    BY DEF Hidden
  <2> QED BY <2>1 DEF Ctls, SamePixels
<1> HIDE DEF told
<1>3. \A h \in old .. c.top - 1 : /\ h + 1 \in 0 .. c.top /\ h + 1 # old
                                  /\ told.sheets[h + 1] \in Ids /\ told.sheets[h + 1] # s
                                  /\ c.height[told.sheets[h + 1]] = h + 1
  <2> SUFFICES ASSUME NEW h \in old .. c.top - 1
               PROVE  /\ h + 1 \in 0 .. c.top /\ h + 1 # old
                      /\ told.sheets[h + 1] \in Ids /\ told.sheets[h + 1] # s
                      /\ c.height[told.sheets[h + 1]] = h + 1
    OBVIOUS
  <2>1. h + 1 \in 0 .. c.top /\ h + 1 # old
    BY <1>1
  <2> QED BY <1>1, <1>2, <2>1, AgreeFacts
<1>4. \A h, k \in old .. c.top - 1 : told.sheets[h + 1] = told.sheets[k + 1] => h = k
  <2> SUFFICES ASSUME NEW h \in old .. c.top - 1, NEW k \in old .. c.top - 1,
                      told.sheets[h + 1] = told.sheets[k + 1]
               PROVE  h = k
    OBVIOUS
  <2>1. h + 1 = k + 1
    BY <1>3
  <2> QED BY <1>1, <2>1
<1>5. /\ r \in Ctls /\ SamePixels(r, told) /\ r.top = told.top
      /\ \A h \in old .. c.top - 1 : r.sheets[h] = told.sheets[h + 1]
      /\ \A h \in Ids : h \notin old .. c.top - 1 => r.sheets[h] = told.sheets[h]
      /\ \A h \in old .. c.top - 1 : r.height[told.sheets[h + 1]] = h
      /\ \A t \in Ids : (\A h \in old .. c.top - 1 : told.sheets[h + 1] # t) =>
                          r.height[t] = told.height[t]
  <2>1. c.top - 1 \in Int /\ c.top - 1 < MaxSheets /\ 1 \in Int
    BY <1>1, Sizes
  <2>2. \A h \in old .. c.top - 1 : told.sheets[h + 1] \in Ids
    BY <1>3
  <2> DEFINE h1 == c.top - 1
             by == 1
  <2>3. /\ h1 \in Int /\ h1 < MaxSheets /\ by \in Int /\ old \in Nat /\ told \in Ctls
        /\ \A h \in old .. h1 : told.sheets[h + by] \in Ids
        /\ \A h, k \in old .. h1 : told.sheets[h + by] = told.sheets[k + by] => h = k
    BY <1>1, <1>2, <1>4, <2>1, <2>2
  <2>4. r = Shifted(told, old, h1, by)
    BY <1>2
  <2> HIDE DEF old, h1, by, r
  <2>5. ShiftedBy(r, told, old, h1, by)
    BY <2>3, <2>4, ShiftedFacts
  <2> QED BY <2>5 DEF h1, by, ShiftedBy
<1> HIDE DEF r
<1>6. /\ d \in Ctls /\ SamePixels(d, r) /\ d.top = r.top - 1 /\ d.height = r.height
      /\ d.sheets = r.sheets
  <2> DEFINE n == r.top - 1
  <2>1. n \in Int /\ d = [r EXCEPT !.top = n]
    BY <1>5, CtlFields
  <2> HIDE DEF n, d
  <2>2. d \in Ctls /\ SamePixels(d, r) /\ d.top = n /\ d.height = r.height /\ d.sheets = r.sheets
    BY <1>5, <2>1 DEF Ctls, SamePixels
  <2> QED BY <2>2 DEF n
<1> HIDE DEF d
<1>7. SamePixels(d, c) /\ d.top = c.top - 1
  BY <1>2, <1>5, <1>6 DEF SamePixels
<1>8. \A h \in 0 .. c.top - 1 :
        d.sheets[h] = IF h < old THEN c.sheets[h] ELSE c.sheets[h + 1]
  <2> SUFFICES ASSUME NEW h \in 0 .. c.top - 1
               PROVE  d.sheets[h] = IF h < old THEN c.sheets[h] ELSE c.sheets[h + 1]
    OBVIOUS
  <2>1. h \in Ids
    BY <1>1, Sizes DEF Ids
  <2>2. CASE h < old
    <3>1. h \notin old .. c.top - 1
      BY <1>1, <2>2
    <3> QED BY <1>2, <1>5, <1>6, <2>1, <2>2, <3>1
  <2>3. CASE ~(h < old)
    <3>1. h \in old .. c.top - 1
      BY <1>1, <2>3
    <3> QED BY <1>2, <1>5, <1>6, <2>1, <2>3, <3>1
  <2> QED BY <2>2, <2>3
<1>9. \A t \in Ids :
        d.height[t] = IF t = s THEN Hidden
                      ELSE IF c.height[t] > old THEN c.height[t] - 1
                      ELSE c.height[t]
  <2> SUFFICES ASSUME NEW t \in Ids
               PROVE  d.height[t] = IF t = s THEN Hidden
                                    ELSE IF c.height[t] > old THEN c.height[t] - 1
                                    ELSE c.height[t]
    OBVIOUS
  <2>1. CASE t = s
    BY <1>2, <1>3, <1>5, <1>6, <2>1
  <2>2. CASE t # s /\ c.height[t] > old
    <3> DEFINE h == c.height[t] - 1
    <3>1. c.height[t] # Hidden /\ c.height[t] \in Int
      BY <1>1, <2>2, CtlFields DEF Hidden
    <3>2. c.height[t] \in 0 .. c.top /\ c.sheets[c.height[t]] = t
      BY <3>1, AgreeFacts
    <3>3. h \in old .. c.top - 1 /\ h + 1 = c.height[t]
      BY <1>1, <2>2, <3>2
    <3>4. told.sheets[h + 1] = t
      BY <1>2, <3>2, <3>3
    <3>5. d.height[t] = h
      BY <1>5, <1>6, <3>3, <3>4
    <3> QED BY <2>2, <3>5
  <2>3. CASE t # s /\ ~(c.height[t] > old)
    <3>1. \A h \in old .. c.top - 1 : told.sheets[h + 1] # t
      <4> SUFFICES ASSUME NEW h \in old .. c.top - 1, told.sheets[h + 1] = t PROVE FALSE
        OBVIOUS
      <4>1. c.height[t] = h + 1
        BY <1>3
      <4>2. h + 1 > old
        BY <1>1
      <4> QED BY <2>3, <4>1, <4>2
    <3>2. d.height[t] = c.height[t]
      BY <1>2, <1>5, <1>6, <2>3, <3>1
    <3> QED BY <2>3, <3>2
  <2> QED BY <2>1, <2>2, <2>3
<1>10. Agrees(d)
  <2>1. \A h \in 0 .. d.top : d.sheets[h] \in Ids /\ d.height[d.sheets[h]] = h
    <3> SUFFICES ASSUME NEW h \in 0 .. c.top - 1
                 PROVE  d.sheets[h] \in Ids /\ d.height[d.sheets[h]] = h
      BY <1>7
    <3>1. CASE h < old
      <4>1. d.sheets[h] = c.sheets[h]
        BY <1>8, <3>1
      <4>2. c.sheets[h] \in Ids /\ c.height[c.sheets[h]] = h /\ c.sheets[h] # s
        BY <1>1, <3>1, AgreeFacts
      <4>3. ~(h > old)
        BY <1>1, <3>1
      <4> QED BY <1>9, <4>1, <4>2, <4>3
    <3>2. CASE ~(h < old)
      <4>1. d.sheets[h] = c.sheets[h + 1] /\ h + 1 \in 0 .. c.top /\ h + 1 > old
        BY <1>1, <1>8, <3>2
      <4>2. c.sheets[h + 1] \in Ids /\ c.height[c.sheets[h + 1]] = h + 1
        BY <4>1, AgreeFacts
      <4>3. c.sheets[h + 1] # s
        BY <1>1, <4>1, <4>2
      <4>4. d.height[c.sheets[h + 1]] = (h + 1) - 1
        BY <1>9, <4>1, <4>2, <4>3
      <4> QED BY <4>1, <4>2, <4>4
    <3> QED BY <3>1, <3>2
  <2>2. \A t \in Ids : \/ d.height[t] = Hidden
                       \/ d.height[t] \in 0 .. d.top /\ d.sheets[d.height[t]] = t
    <3> SUFFICES ASSUME NEW t \in Ids, d.height[t] # Hidden
                 PROVE  d.height[t] \in 0 .. c.top - 1 /\ d.sheets[d.height[t]] = t
      BY <1>7
    <3>1. t # s
      BY <1>9
    <3>2. CASE c.height[t] > old
      <4> DEFINE h == c.height[t] - 1
      <4>1. c.height[t] # Hidden /\ c.height[t] \in Int
        BY <1>1, <3>2, CtlFields DEF Hidden
      <4>2. c.height[t] \in 0 .. c.top /\ c.sheets[c.height[t]] = t
        BY <4>1, AgreeFacts
      <4>3. d.height[t] = h /\ h \in 0 .. c.top - 1 /\ ~(h < old) /\ h + 1 = c.height[t]
        BY <1>1, <1>9, <3>1, <3>2, <4>2
      <4>4. d.sheets[h] = c.sheets[h + 1]
        <5> HIDE DEF h
        <5> QED BY <1>8, <4>3
      <4> QED BY <4>2, <4>3, <4>4
    <3>3. CASE ~(c.height[t] > old)
      <4>1. d.height[t] = c.height[t]
        BY <1>9, <3>1, <3>3
      <4>2. c.height[t] \in 0 .. c.top /\ c.sheets[c.height[t]] = t
        BY <4>1, AgreeFacts
      <4>3. c.height[t] < old /\ c.height[t] \in 0 .. c.top - 1
        BY <1>1, <3>1, <3>3, <4>2
      <4> QED BY <1>8, <4>1, <4>2, <4>3
    <3> QED BY <3>2, <3>3
  <2>3. d.top \in -1 .. MaxSheets - 1
    BY <1>1, <1>7, Sizes
  <2> QED BY <2>1, <2>2, <2>3 DEF Agrees
<1> QED BY <1>6, <1>7, <1>8, <1>9, <1>10 DEF d, r, told, HiddenIn

\* In d the hidden sheet s is shown at the height new, and those from there on are
\* lifted.
ShownIn(d, c, s, new) ==
    /\ d \in Ctls /\ Agrees(d) /\ SamePixels(d, c) /\ d.top = c.top + 1
    /\ \A h \in 0 .. c.top + 1 :
         d.sheets[h] = IF h < new THEN c.sheets[h]
                       ELSE IF h = new THEN s ELSE c.sheets[h - 1]
    /\ \A t \in Ids :
         d.height[t] = IF t = s THEN new
                       ELSE IF c.height[t] >= new THEN c.height[t] + 1
                       ELSE c.height[t]

\* A sheet that is put in.
LEMMA PutInMove ==
  ASSUME NEW c \in Ctls, Agrees(c), NEW s \in Ids, c.height[s] = Hidden,
         NEW new \in 0 .. c.top + 1, c.top + 1 < MaxSheets
  PROVE  LET told == [c EXCEPT !.height[s] = new]
         IN  ShownIn([Seated(Shifted(told, new + 1, told.top + 1, -1), s, new)
                        EXCEPT !.top = @ + 1], c, s, new)
<1> DEFINE told == [c EXCEPT !.height[s] = new]
           r == Shifted(told, new + 1, told.top + 1, -1)
           e == Seated(r, s, new)
           d == [e EXCEPT !.top = @ + 1]
<1>1. /\ c.top \in Int /\ c.top + 1 < MaxSheets /\ new \in Nat /\ new \in Int
      /\ new \in Ids /\ s \in Int
  BY AgreeFacts, Sizes DEF Ids
<1>2. /\ told \in Ctls /\ SamePixels(told, c) /\ told.top = c.top /\ told.sheets = c.sheets
      /\ told.height[s] = new /\ \A t \in Ids : t # s => told.height[t] = c.height[t]
  BY <1>1 DEF Ctls, SamePixels
<1> HIDE DEF told
<1>3. \A h \in new + 1 .. c.top + 1 : /\ h - 1 \in 0 .. c.top
                                      /\ told.sheets[h - 1] \in Ids /\ told.sheets[h - 1] # s
                                      /\ c.height[told.sheets[h - 1]] = h - 1
  <2> SUFFICES ASSUME NEW h \in new + 1 .. c.top + 1
               PROVE  /\ h - 1 \in 0 .. c.top
                      /\ told.sheets[h - 1] \in Ids /\ told.sheets[h - 1] # s
                      /\ c.height[told.sheets[h - 1]] = h - 1
    OBVIOUS
  <2>1. h - 1 \in 0 .. c.top
    BY <1>1
  <2> QED BY <1>1, <1>2, <2>1, AgreeFacts DEF Hidden
<1>4. \A h, k \in new + 1 .. c.top + 1 : told.sheets[h - 1] = told.sheets[k - 1] => h = k
  <2> SUFFICES ASSUME NEW h \in new + 1 .. c.top + 1, NEW k \in new + 1 .. c.top + 1,
                      told.sheets[h - 1] = told.sheets[k - 1]
               PROVE  h = k
    OBVIOUS
  <2>1. h - 1 = k - 1
    BY <1>3
  <2> QED BY <1>1, <2>1
<1>5. /\ r \in Ctls /\ SamePixels(r, told) /\ r.top = told.top
      /\ \A h \in new + 1 .. c.top + 1 : r.sheets[h] = told.sheets[h - 1]
      /\ \A h \in Ids : h \notin new + 1 .. c.top + 1 => r.sheets[h] = told.sheets[h]
      /\ \A h \in new + 1 .. c.top + 1 : r.height[told.sheets[h - 1]] = h
      /\ \A t \in Ids : (\A h \in new + 1 .. c.top + 1 : told.sheets[h - 1] # t) =>
                          r.height[t] = told.height[t]
  <2> DEFINE h0 == new + 1
             h1 == c.top + 1
             by == -1
  <2>1. h0 \in Nat /\ h1 \in Int /\ h1 < MaxSheets /\ by \in Int
    BY <1>1
  <2>2. \A h \in h0 .. h1 : h + by = h - 1
    BY <2>1
  <2> HIDE DEF h0, h1, by
  <2>3. \A h \in h0 .. h1 : told.sheets[h + by] \in Ids
    BY <1>3, <2>2 DEF h0, h1
  <2>4. \A h, k \in h0 .. h1 : told.sheets[h + by] = told.sheets[k + by] => h = k
    BY <1>4, <2>2 DEF h0, h1
  <2>5. r = Shifted(told, h0, h1, by)
    BY <1>2 DEF h0, h1, by
  <2> HIDE DEF r
  <2>6. ShiftedBy(r, told, h0, h1, by)
    BY <1>2, <2>1, <2>3, <2>4, <2>5, ShiftedFacts
  <2>7. /\ \A h \in h0 .. h1 : r.sheets[h] = told.sheets[h - 1]
        /\ \A h \in h0 .. h1 : r.height[told.sheets[h - 1]] = h
    BY <2>2, <2>6 DEF ShiftedBy
  <2>8. \A t \in Ids : (\A h \in h0 .. h1 : told.sheets[h - 1] # t) =>
                         r.height[t] = told.height[t]
    BY <2>2, <2>6 DEF ShiftedBy
  <2> QED BY <2>6, <2>7, <2>8 DEF h0, h1, ShiftedBy
<1> HIDE DEF r
<1>6. /\ e \in Ctls /\ SamePixels(e, r) /\ e.top = r.top /\ e.height = r.height
      /\ e.sheets[new] = s /\ \A h \in Ids : h # new => e.sheets[h] = r.sheets[h]
  BY <1>1, <1>5 DEF Seated, Ctls, SamePixels
<1> HIDE DEF e
<1>7. /\ d \in Ctls /\ SamePixels(d, e) /\ d.top = e.top + 1 /\ d.height = e.height
      /\ d.sheets = e.sheets
  <2> DEFINE n == e.top + 1
  <2>1. n \in Int /\ d = [e EXCEPT !.top = n]
    BY <1>6, CtlFields
  <2> HIDE DEF n, d
  <2>2. d \in Ctls /\ SamePixels(d, e) /\ d.top = n /\ d.height = e.height /\ d.sheets = e.sheets
    BY <1>6, <2>1 DEF Ctls, SamePixels
  <2> QED BY <2>2 DEF n
<1> HIDE DEF d
<1>8. SamePixels(d, c) /\ d.top = c.top + 1
  BY <1>2, <1>5, <1>6, <1>7 DEF SamePixels
<1>9. \A h \in 0 .. c.top + 1 :
        d.sheets[h] = IF h < new THEN c.sheets[h]
                      ELSE IF h = new THEN s ELSE c.sheets[h - 1]
  <2> SUFFICES ASSUME NEW h \in 0 .. c.top + 1
               PROVE  d.sheets[h] = IF h < new THEN c.sheets[h]
                                    ELSE IF h = new THEN s ELSE c.sheets[h - 1]
    OBVIOUS
  <2>1. h \in Ids
    BY <1>1, Sizes DEF Ids
  <2>2. CASE h = new
    BY <1>1, <1>6, <1>7, <2>2
  <2>3. CASE h < new
    <3>1. h \notin new + 1 .. c.top + 1 /\ h # new
      BY <1>1, <2>3
    <3> QED BY <1>2, <1>5, <1>6, <1>7, <2>1, <2>3, <3>1
  <2>4. CASE h > new
    <3>1. h \in new + 1 .. c.top + 1 /\ h # new /\ ~(h < new)
      BY <1>1, <2>4
    <3> QED BY <1>2, <1>5, <1>6, <1>7, <2>1, <3>1
  <2> QED BY <1>1, <2>2, <2>3, <2>4
<1>10. \A t \in Ids :
         d.height[t] = IF t = s THEN new
                       ELSE IF c.height[t] >= new THEN c.height[t] + 1
                       ELSE c.height[t]
  <2> SUFFICES ASSUME NEW t \in Ids
               PROVE  d.height[t] = IF t = s THEN new
                                    ELSE IF c.height[t] >= new THEN c.height[t] + 1
                                    ELSE c.height[t]
    OBVIOUS
  <2>1. CASE t = s
    BY <1>2, <1>3, <1>5, <1>6, <1>7, <2>1
  <2>2. CASE t # s /\ c.height[t] >= new
    <3> DEFINE h == c.height[t] + 1
    <3>1. c.height[t] # Hidden /\ c.height[t] \in Int
      BY <1>1, <2>2, CtlFields DEF Hidden
    <3>2. c.height[t] \in 0 .. c.top /\ c.sheets[c.height[t]] = t
      BY <3>1, AgreeFacts
    <3>3. h \in new + 1 .. c.top + 1 /\ h - 1 = c.height[t]
      BY <1>1, <2>2, <3>2
    <3>4. told.sheets[h - 1] = t
      BY <1>2, <3>2, <3>3
    <3>5. d.height[t] = h
      BY <1>5, <1>6, <1>7, <3>3, <3>4
    <3> QED BY <2>2, <3>5
  <2>3. CASE t # s /\ ~(c.height[t] >= new)
    <3>1. \A h \in new + 1 .. c.top + 1 : told.sheets[h - 1] # t
      <4> SUFFICES ASSUME NEW h \in new + 1 .. c.top + 1, told.sheets[h - 1] = t PROVE FALSE
        OBVIOUS
      <4>1. c.height[t] = h - 1
        BY <1>3
      <4>2. h - 1 >= new
        BY <1>1
      <4> QED BY <2>3, <4>1, <4>2
    <3>2. d.height[t] = c.height[t]
      BY <1>2, <1>5, <1>6, <1>7, <2>3, <3>1
    <3> QED BY <2>3, <3>2
  <2> QED BY <2>1, <2>2, <2>3
<1>11. Agrees(d)
  <2>1. \A h \in 0 .. d.top : d.sheets[h] \in Ids /\ d.height[d.sheets[h]] = h
    <3> SUFFICES ASSUME NEW h \in 0 .. c.top + 1
                 PROVE  d.sheets[h] \in Ids /\ d.height[d.sheets[h]] = h
      BY <1>8
    <3>1. CASE h = new
      BY <1>1, <1>9, <1>10, <3>1
    <3>2. CASE h < new
      <4>1. d.sheets[h] = c.sheets[h] /\ h \in 0 .. c.top
        BY <1>1, <1>9, <3>2
      <4>2. c.sheets[h] \in Ids /\ c.height[c.sheets[h]] = h /\ c.sheets[h] # s
        BY <4>1, AgreeFacts DEF Hidden
      <4>3. ~(h >= new)
        BY <1>1, <3>2
      <4> QED BY <1>10, <4>1, <4>2, <4>3
    <3>3. CASE h > new
      <4>1. d.sheets[h] = c.sheets[h - 1] /\ h - 1 \in 0 .. c.top /\ h - 1 >= new
        BY <1>1, <1>9, <3>3
      <4>2. c.sheets[h - 1] \in Ids /\ c.height[c.sheets[h - 1]] = h - 1
        BY <4>1, AgreeFacts
      <4>3. c.sheets[h - 1] # s
        BY <4>1, <4>2 DEF Hidden
      <4>4. d.height[c.sheets[h - 1]] = (h - 1) + 1
        BY <1>10, <4>1, <4>2, <4>3
      <4> QED BY <4>1, <4>2, <4>4
    <3> QED BY <1>1, <3>1, <3>2, <3>3
  <2>2. \A t \in Ids : \/ d.height[t] = Hidden
                       \/ d.height[t] \in 0 .. d.top /\ d.sheets[d.height[t]] = t
    <3> SUFFICES ASSUME NEW t \in Ids, d.height[t] # Hidden
                 PROVE  d.height[t] \in 0 .. c.top + 1 /\ d.sheets[d.height[t]] = t
      BY <1>8
    <3>1. CASE t = s
      BY <1>1, <1>9, <1>10, <3>1
    <3>2. CASE t # s /\ c.height[t] >= new
      <4> DEFINE h == c.height[t] + 1
      <4>1. c.height[t] # Hidden /\ c.height[t] \in Int
        BY <1>1, <3>2, CtlFields DEF Hidden
      <4>2. c.height[t] \in 0 .. c.top /\ c.sheets[c.height[t]] = t
        BY <4>1, AgreeFacts
      <4>3. d.height[t] = h /\ h \in 0 .. c.top + 1 /\ h > new /\ h - 1 = c.height[t]
        BY <1>1, <1>10, <3>2, <4>2
      <4>4. d.sheets[h] = c.sheets[h - 1]
        <5> HIDE DEF h
        <5> QED BY <1>1, <1>9, <4>3
      <4> QED BY <4>2, <4>3, <4>4
    <3>3. CASE t # s /\ ~(c.height[t] >= new)
      <4>1. d.height[t] = c.height[t]
        BY <1>10, <3>3
      <4>2. c.height[t] \in 0 .. c.top /\ c.sheets[c.height[t]] = t
        BY <4>1, AgreeFacts
      <4>3. c.height[t] < new /\ c.height[t] \in 0 .. c.top + 1
        BY <1>1, <3>3, <4>2
      <4> QED BY <1>9, <4>1, <4>2, <4>3
    <3> QED BY <3>1, <3>2, <3>3
  <2>3. d.top \in -1 .. MaxSheets - 1
    BY <1>1, <1>8, AgreeFacts, Sizes
  <2> QED BY <2>1, <2>2, <2>3 DEF Agrees
<1> QED BY <1>7, <1>8, <1>9, <1>10, <1>11 DEF d, e, r, told, ShownIn

-----------------------------------------------------------------------------
(* What map says. *)

\* The sheet t is visible, and one would see it at p were the others taken away.
Seen(c, t, p) == c.height[t] # Hidden /\ Over(c, t, p)

\* map names the topmost sheet at p, of all and of all but s.
Right(c, p) ==
    /\ c.map[p] \in Ids /\ Seen(c, c.map[p], p)
    /\ \A t \in Ids : Seen(c, t, p) => c.height[t] <= c.height[c.map[p]]

RightBut(c, s, p) ==
    /\ c.map[p] \in Ids /\ Seen(c, c.map[p], p)
    /\ \A t \in Ids \ {s} : Seen(c, t, p) => c.height[t] <= c.height[c.map[p]]

\* The background lies over the whole screen.
BackSpread(c) == c.place[Back].x = 0 /\ c.place[Back].y = 0

\* A sheet lies over addresses of its area only.
LEMMA WholeFacts ==
  ASSUME NEW c \in Ctls, NEW s \in Ids
  PROVE  /\ Whole(c, s) \in Areas /\ Whole(c, s).x0 < Whole(c, s).x1
         /\ \A p \in Screen : Over(c, s, p) => InArea(Whole(c, s), p)
<1> DEFINE px == c.place[s].x
           py == c.place[s].y
<1>1. px \in Int /\ py \in Int /\ Width[s] \in Nat \ {0} /\ Height[s] \in Nat \ {0}
  BY CtlFields, Sizes
<1>2. Whole(c, s) = [x0 |-> px + 0, y0 |-> py + 0, x1 |-> px + Width[s], y1 |-> py + Height[s]]
  BY DEF Whole, PartOf, Area
<1> HIDE DEF px, py
<1>3. Whole(c, s) \in Areas /\ Whole(c, s).x0 < Whole(c, s).x1
  BY <1>1, <1>2 DEF Areas
<1>4. ASSUME NEW p \in Screen, Over(c, s, p) PROVE InArea(Whole(c, s), p)
  <2>1. Column(p) \in Int /\ Line(p) \in Int
    BY ScreenAddress, Sizes
  <2>2. Column(p) - px \in 0 .. Width[s] - 1 /\ Line(p) - py \in 0 .. Height[s] - 1
    BY <1>4 DEF Over, px, py
  <2>3. /\ Column(p) \in px + 0 .. px + Width[s] - 1
        /\ Line(p) \in py + 0 .. py + Height[s] - 1
    BY <1>1, <2>1, <2>2
  <2>4. /\ Whole(c, s).x0 = px + 0 /\ Whole(c, s).x1 = px + Width[s]
        /\ Whole(c, s).y0 = py + 0 /\ Whole(c, s).y1 = py + Height[s]
    BY <1>2
  <2> QED BY <1>1, <2>1, <2>3, <2>4 DEF InArea
<1> QED BY <1>3, <1>4

\* The background is seen everywhere.
LEMMA BackSeen ==
  ASSUME NEW c \in Ctls, BackSpread(c), NEW p \in Screen
  PROVE  Over(c, Back, p) /\ InArea(Whole(c, Back), p)
<1>1. Column(p) \in 0 .. XSize - 1 /\ Line(p) \in 0 .. YSize - 1
  BY ScreenAddress
<1>2. Column(p) - 0 = Column(p) /\ Line(p) - 0 = Line(p)
  BY <1>1, Sizes
<1>3. Over(c, Back, p)
  BY <1>1, <1>2, Sizes DEF Over, BackSpread
<1> QED BY <1>3, WholeFacts, Sizes

\* What is seen depends on the heights and the places.
LEMMA SeenSame ==
  ASSUME NEW c, NEW d, d.height = c.height, d.place = c.place, NEW t, NEW p
  PROVE  Over(d, t, p) = Over(c, t, p) /\ Seen(d, t, p) = Seen(c, t, p)
  BY DEF Over, Seen

\* Where a refresh of map found a sheet, it named the topmost.
LEMMA TopmostFound ==
  ASSUME NEW c \in Ctls, Agrees(c), NEW h0 \in Nat, NEW r, SameSheets(r, c), NEW p \in Screen,
         NEW h \in h0 .. c.top, r.map[p] = c.sheets[h], Over(c, c.sheets[h], p),
         \A k \in h0 .. c.top : Over(c, c.sheets[k], p) => k <= h
  PROVE  Right(r, p)
<1> DEFINE s == c.sheets[h]
<1>1. h \in 0 .. c.top /\ h \in Int /\ c.top \in Int
  BY AgreeFacts
<1>2. s \in Ids /\ c.height[s] = h
  BY <1>1, AgreeFacts
<1>3. c.height[s] # Hidden
  BY <1>1, <1>2 DEF Hidden
<1>4. \A t \in Ids : Seen(c, t, p) => c.height[t] <= h
  <2> SUFFICES ASSUME NEW t \in Ids, Seen(c, t, p) PROVE c.height[t] <= h
    OBVIOUS
  <2> DEFINE k == c.height[t]
  <2>1. k \in 0 .. c.top /\ c.sheets[k] = t /\ Over(c, t, p)
    BY AgreeFacts DEF Seen
  <2>2. CASE k < h0
    BY <1>1, <2>1, <2>2
  <2>3. CASE k >= h0
    <3>1. k \in h0 .. c.top
      BY <2>1, <2>3
    <3> QED BY <2>1, <3>1
  <2> QED BY <1>1, <2>1, <2>2, <2>3
<1>5. r.map[p] = s /\ r.height = c.height /\ r.place = c.place
  BY DEF SameSheets
<1>6. \A t \in Ids : Seen(r, t, p) = Seen(c, t, p)
  BY <1>5, SeenSame
<1>7. Seen(c, s, p)
  BY <1>3 DEF Seen
<1> HIDE DEF s
<1> QED BY <1>2, <1>4, <1>5, <1>6, <1>7 DEF Right

\* A refresh from the background on is right wherever it reaches.
LEMMA BaseMap ==
  ASSUME NEW c \in Ctls, Agrees(c), NEW a \in Areas, c.height[Back] # Hidden, BackSpread(c),
         NEW r, Remapped(r, c, a, 0), NEW p \in Screen
  PROVE  IF InArea(a, p) THEN Right(r, p) ELSE r.map[p] = c.map[p]
<1>1. CASE InArea(a, p)
  <2> DEFINE b == c.height[Back]
  <2>1. b \in 0 .. c.top /\ c.sheets[b] = Back /\ Over(c, Back, p)
    BY BackSeen, AgreeFacts, Sizes
  <2>2. PICK h \in 0 .. c.top :
          /\ r.map[p] = c.sheets[h] /\ Over(c, c.sheets[h], p)
          /\ \A k \in 0 .. c.top : Over(c, c.sheets[k], p) => k <= h
    BY <1>1, <2>1 DEF Remapped
  <2>3. SameSheets(r, c) /\ 0 \in Nat
    BY DEF Remapped
  <2>4. Right(r, p)
    BY <2>2, <2>3, TopmostFound
  <2> QED BY <1>1, <2>4
<1>2. CASE ~InArea(a, p)
  BY <1>2 DEF Remapped
<1> QED BY <1>1, <1>2

\* When map is right but for the sheet s, a refresh of its area from its height on
\* makes it right.
LEMMA FinishMap ==
  ASSUME NEW c \in Ctls, Agrees(c), NEW s \in Ids, c.height[s] # Hidden,
         NEW r, Remapped(r, c, Whole(c, s), c.height[s]),
         NEW p \in Screen, RightBut(c, s, p)
  PROVE  Right(r, p)
<1> DEFINE h0 == c.height[s]
<1>1. h0 \in 0 .. c.top /\ h0 \in Nat /\ c.sheets[h0] = s /\ c.top \in Int
  BY AgreeFacts
<1>2. SameSheets(r, c) /\ r.height = c.height /\ r.place = c.place
  BY DEF Remapped, SameSheets
<1>3. CASE \E h \in h0 .. c.top :
             /\ r.map[p] = c.sheets[h] /\ Over(c, c.sheets[h], p)
             /\ \A k \in h0 .. c.top : Over(c, c.sheets[k], p) => k <= h
  BY <1>1, <1>2, <1>3, TopmostFound
<1>4. CASE /\ r.map[p] = c.map[p]
           /\ \A h \in h0 .. c.top : ~(InArea(Whole(c, s), p) /\ Over(c, c.sheets[h], p))
  <2>1. h0 \in h0 .. c.top
    BY <1>1
  <2>2. ~Over(c, s, p)
    BY <1>1, <1>4, <2>1, WholeFacts
  <2>3. ~Seen(c, s, p)
    BY <2>2 DEF Seen
  <2>4. \A t \in Ids : Seen(r, t, p) = Seen(c, t, p)
    BY <1>2, SeenSame
  <2> HIDE DEF h0
  <2> QED BY <1>2, <1>4, <2>3, <2>4 DEF Right, RightBut
<1> QED BY <1>3, <1>4 DEF Remapped

-----------------------------------------------------------------------------
(* What every call of sheet.c keeps. *)

\* The background is at the bottom, hidden sheets may be unused, map is right and
\* the whole screen is painted.
Sound(c) ==
    /\ c \in Ctls /\ Agrees(c) /\ c.top >= 0
    /\ c.sheets[0] = Back /\ BackSpread(c)
    /\ \A t \in Ids : c.height[t] # Hidden => c.used[t]
    /\ \A p \in Screen : Right(c, p) /\ c.vram[p] \in Pixels

\* In r the sheets lie as in d.
LiesAs(r, d) == r.sheets = d.sheets /\ r.height = d.height /\ r.top = d.top

\* The memory of the sheets is the same.
SameBuffers(r, c) == r.used = c.used /\ r.buf = c.buf

\* The background is visible, at height 0; every other visible sheet lies higher.
LEMMA BackLowest ==
  ASSUME NEW c \in Ctls, Agrees(c), c.top >= 0, c.sheets[0] = Back
  PROVE  /\ c.height[Back] = 0 /\ c.height[Back] # Hidden
         /\ \A t \in Ids : t # Back /\ c.height[t] # Hidden => c.height[t] >= 1
<1>1. c.top \in Int /\ 0 \in 0 .. c.top
  BY AgreeFacts
<1>2. c.height[Back] = 0
  BY <1>1, AgreeFacts
<1>3. ASSUME NEW t \in Ids, t # Back, c.height[t] # Hidden PROVE c.height[t] >= 1
  <2>1. c.height[t] \in 0 .. c.top /\ c.sheets[c.height[t]] = t
    BY <1>3, AgreeFacts
  <2>2. c.height[t] # 0
    BY <1>3, <2>1
  <2> QED BY <1>1, <2>1, <2>2
<1> QED BY <1>2, <1>3 DEF Hidden

\* Painting keeps all of it.
LEMMA PaintSound ==
  ASSUME NEW c, Sound(c), NEW a \in Areas, NEW h0 \in Nat, NEW h1 \in Int, h1 <= c.top
  PROVE  /\ Sound(RefreshSub(c, a, h0, h1))
         /\ SameSheets(RefreshSub(c, a, h0, h1), c)
         /\ Repainted(RefreshSub(c, a, h0, h1), c, a, h0, h1)
<1> DEFINE r == RefreshSub(c, a, h0, h1)
<1>1. c \in Ctls /\ Agrees(c)
  BY DEF Sound
<1>2. \A h \in h0 .. h1 : c.sheets[h] \in Ids
  <2> SUFFICES ASSUME NEW h \in h0 .. h1 PROVE c.sheets[h] \in Ids
    OBVIOUS
  <2>1. h \in 0 .. c.top
    BY <1>1, AgreeFacts
  <2> QED BY <1>1, <2>1, AgreeFacts
<1>3. Repainted(r, c, a, h0, h1)
  BY <1>1, <1>2, SubFacts
<1> HIDE DEF r
<1>4. /\ r \in Ctls /\ SameSheets(r, c) /\ r.map = c.map /\ r.height = c.height
      /\ r.place = c.place /\ r.used = c.used /\ r.sheets = c.sheets /\ r.top = c.top
  BY <1>3 DEF Repainted, SameSheets
<1>5. Agrees(r) /\ BackSpread(r)
  BY <1>1, <1>4 DEF Agrees, BackSpread, Sound
<1>6. \A p \in Screen : Right(r, p)
  <2>1. \A p \in Screen, t \in Ids : Seen(r, t, p) = Seen(c, t, p)
    BY <1>4, SeenSame
  <2> QED BY <1>4, <2>1 DEF Right, Sound
<1>7. \A p \in Screen : r.vram[p] \in Pixels
  BY <1>1, <1>3, DrawnPixel DEF Repainted, Sound
<1>8. Sound(r)
  BY <1>4, <1>5, <1>6, <1>7 DEF Sound
<1> QED BY <1>3, <1>4, <1>8 DEF r

\* In an area that is not empty a refresh keeps the rest, and is up to date where
\* map has changed if one of the sheets between the heights owns the address now.
LEMMA PaintsAnew ==
  ASSUME Fitting, NEW c, NEW m, Sound(m), m.vram = c.vram, m.buf = c.buf,
         NEW a \in Areas, a.x0 < a.x1, NEW h0, NEW h1, NEW r, Repainted(r, m, a, h0, h1),
         NEW p \in Screen,
         \/ m.map[p] = c.map[p] /\ m.place[c.map[p]] = c.place[c.map[p]]
         \/ InArea(a, p) /\ \E h \in h0 .. h1 : m.map[p] = m.sheets[h]
  PROVE  SameAt(r, c, p) \/ Current(r, p)
<1>1. m \in Ctls /\ m.map[p] \in Ids /\ Over(m, m.map[p], p)
  BY DEF Sound, Right, Seen
<1>2. /\ SameAt(r, m, p) \/ Current(r, p)
      /\ \A h \in h0 .. h1 : m.map[p] = m.sheets[h] /\ InArea(a, p) => Current(r, p)
  BY <1>1, Renewed
<1>3. CASE m.map[p] = c.map[p] /\ m.place[c.map[p]] = c.place[c.map[p]]
  <2>1. SameAt(m, c, p)
    BY <1>3 DEF SameAt
  <2> QED BY <1>2, <2>1, PaintedOnce
<1>4. CASE InArea(a, p) /\ \E h \in h0 .. h1 : m.map[p] = m.sheets[h]
  BY <1>2, <1>4
<1> QED BY <1>3, <1>4

\* Where neither the former nor the present owner is the sheet that has changed,
\* the owner is the same.
LEMMA SameOwner ==
  ASSUME NEW c \in Ctls, NEW m \in Ctls, Agrees(c), NEW s \in Ids, NEW p \in Screen,
         Right(c, p), Right(m, p), c.map[p] # s, m.map[p] # s,
         \A t \in Ids : t # s => m.place[t] = c.place[t],
         \A t \in Ids : t # s => (m.height[t] = Hidden <=> c.height[t] = Hidden),
         \A t, u \in Ids : t # s /\ u # s /\ c.height[t] # Hidden /\ c.height[u] # Hidden
                           /\ c.height[t] < c.height[u] => m.height[t] < m.height[u]
  PROVE  m.map[p] = c.map[p] /\ m.place[c.map[p]] = c.place[c.map[p]]
<1> DEFINE u == c.map[p]
           t == m.map[p]
<1>1. /\ u \in Ids /\ u # s /\ Seen(c, u, p) /\ t \in Ids /\ t # s /\ Seen(m, t, p)
      /\ \A v \in Ids : Seen(c, v, p) => c.height[v] <= c.height[u]
      /\ \A v \in Ids : Seen(m, v, p) => m.height[v] <= m.height[t]
  BY DEF Right
<1> HIDE DEF u, t
<1>2. \A v \in Ids : v # s => Seen(m, v, p) = Seen(c, v, p)
  BY DEF Seen, Over
<1>3. Seen(c, t, p) /\ c.height[t] <= c.height[u] /\ m.height[u] <= m.height[t]
  BY <1>1, <1>2
<1>4. /\ c.height[t] \in Int /\ c.height[u] \in Int /\ m.height[t] \in Int
      /\ m.height[u] \in Int /\ c.height[t] # Hidden /\ c.height[u] # Hidden
  BY <1>1, <1>3, CtlFields DEF Seen
<1>5. ~(c.height[t] < c.height[u])
  <2> SUFFICES ASSUME c.height[t] < c.height[u] PROVE FALSE
    OBVIOUS
  <2>1. m.height[t] < m.height[u]
    BY <1>1, <1>4
  <2> QED BY <1>3, <1>4, <2>1
<1>6. c.height[t] = c.height[u]
  BY <1>3, <1>4, <1>5
<1>7. t = u
  BY <1>1, <1>4, <1>6, AgreeFacts
<1> QED BY <1>1, <1>7 DEF t, u

\* The area of a sheet depends on its place.
LEMMA WholeSame ==
  ASSUME NEW c, NEW d, d.place = c.place, NEW s
  PROVE  Whole(d, s) = Whole(c, s)
  BY DEF Whole, PartOf

\* What sheet_updown comes down to, for a height it need not cut.
LEMMA UpdownCases ==
  ASSUME NEW c \in Ctls, Agrees(c), NEW s \in Ids, NEW w \in -1 .. c.top + 1
  PROVE  LET told == [c EXCEPT !.height[s] = w]
             old == c.height[s]
         IN  /\ w < old /\ w >= 0 => Updown(c, s, w) = Lowered(told, s, old, w)
             /\ w < old /\ w < 0 => Updown(c, s, w) = TakenOut(told, s, old)
             /\ old < w /\ old >= 0 => Updown(c, s, w) = Raised(told, s, old, w)
             /\ old < w /\ old < 0 => Updown(c, s, w) = PutIn(told, s, w)
             /\ old = w => Updown(c, s, w) = c
<1> DEFINE m == Min({w, c.top + 1})
           n == Max({m, Hidden})
           old == c.height[s]
<1>1. c.top \in Int /\ w \in Int /\ old \in Int /\ -1 \in Int
  BY AgreeFacts, CtlFields
<1>2. m = w
  <2> DEFINE k == c.top + 1
  <2>1. k \in Int /\ w <= k
    BY <1>1
  <2> HIDE DEF k
  <2>2. Min({w, k}) = w
    BY <1>1, <2>1, OfTwo
  <2> QED BY <2>2 DEF k
<1> HIDE DEF m
<1>3. n = w
  BY <1>1, <1>2, OfTwo DEF Hidden
<1>4. Updown(c, s, w) = Arranged([c EXCEPT !.height[s] = n], s, old, n)
  BY DEF Updown, n, m
<1> HIDE DEF n
<1>5. Updown(c, s, w) = Arranged([c EXCEPT !.height[s] = w], s, old, w)
  BY <1>3, <1>4
<1> DEFINE told == [c EXCEPT !.height[s] = w]
<1>6. old = w => told = c
  <2>1. old = w => [c.height EXCEPT ![s] = w] = c.height
    BY CtlFields
  <2>2. [c EXCEPT !.height = c.height] = c
    BY DEF Ctls
  <2> QED BY <2>1, <2>2
<1>7. Updown(c, s, w) = Arranged(told, s, old, w)
  BY <1>5
<1> HIDE DEF told, old
<1>8. Updown(c, s, w) = IF w < old
            THEN IF w >= 0 THEN Lowered(told, s, old, w) ELSE TakenOut(told, s, old)
            ELSE IF old < w
            THEN IF old >= 0 THEN Raised(told, s, old, w) ELSE PutIn(told, s, w)
            ELSE told
  BY <1>7 DEF Arranged
<1>9. /\ w < old /\ w >= 0 => Updown(c, s, w) = Lowered(told, s, old, w)
      /\ w < old /\ w < 0 => Updown(c, s, w) = TakenOut(told, s, old)
      /\ old < w /\ old >= 0 => Updown(c, s, w) = Raised(told, s, old, w)
      /\ old < w /\ old < 0 => Updown(c, s, w) = PutIn(told, s, w)
      /\ old = w => Updown(c, s, w) = c
  BY <1>1, <1>6, <1>8
<1> QED BY <1>9 DEF old, told

\* A sheet above the background may be raised.
LEMMA RaiseSound ==
  ASSUME NEW c, Sound(c), NEW s \in Ids, c.height[s] >= 1,
         NEW w \in Int, c.height[s] < w, w <= c.top
  PROVE  LET r == Updown(c, s, w)
         IN  /\ Sound(r) /\ SameBuffers(r, c)
             /\ \E d : RaisedIn(d, c, s, w) /\ LiesAs(r, d)
             /\ Fitting => PaintedFrom(r, c)
<1> DEFINE old == c.height[s]
           told == [c EXCEPT !.height[s] = w]
           d == Seated(Shifted(told, old, w - 1, 1), s, w)
           a == Whole(told, s)
           m == RefreshMap(d, a, w)
           r == RefreshSub(m, a, w, w)
<1>1. c \in Ctls /\ Agrees(c) /\ c.top \in Int /\ old \in Int /\ w \in Nat
  BY CtlFields DEF Sound
<1>2. c.height[s] # Hidden
  BY DEF Hidden
<1>3. RaisedIn(d, c, s, w)
  BY <1>1, <1>2, RaisedMove
<1>4. Updown(c, s, w) = r
  <2>1. w \in -1 .. c.top + 1 /\ old < w /\ old >= 0
    BY <1>1
  <2>2. Updown(c, s, w) = Raised(told, s, old, w)
    BY <1>1, <2>1, UpdownCases
  <2> QED BY <2>2 DEF Raised
<1>5. told.place = c.place
  BY <1>1 DEF Ctls
<1> HIDE DEF told, d
<1>6. /\ d \in Ctls /\ Agrees(d) /\ d.top = c.top /\ d.used = c.used /\ d.place = c.place
      /\ d.buf = c.buf /\ d.map = c.map /\ d.vram = c.vram
      /\ \A h \in 0 .. c.top :
           d.sheets[h] = IF h < old \/ h > w THEN c.sheets[h]
                         ELSE IF h = w THEN s ELSE c.sheets[h + 1]
      /\ \A t \in Ids :
           d.height[t] = IF t = s THEN w
                         ELSE IF c.height[t] \in old + 1 .. w THEN c.height[t] - 1
                         ELSE c.height[t]
  BY <1>3 DEF RaisedIn, SamePixels
<1>7. a = Whole(d, s) /\ a \in Areas /\ a.x0 < a.x1
  <2>1. Whole(told, s) = Whole(d, s)
    BY <1>5, <1>6, WholeSame
  <2> QED BY <1>6, <2>1, WholeFacts
<1> HIDE DEF a
<1>8. d.height[s] = w /\ d.height[s] # Hidden
  BY <1>1, <1>6 DEF Hidden
<1>9. Remapped(m, d, Whole(d, s), d.height[s])
  <2>1. \A h \in w .. d.top : d.sheets[h] \in Ids
    BY <1>1, <1>6, AgreeFacts
  <2>2. Remapped(m, d, a, w)
    BY <1>1, <1>6, <1>7, <2>1, MapFacts
  <2> QED BY <1>7, <1>8, <2>2
<1> HIDE DEF m
<1>10. ASSUME NEW p \in Screen PROVE RightBut(d, s, p)
  <2> DEFINE u == c.map[p]
  <2>1. u \in Ids /\ Seen(c, u, p) /\ \A t \in Ids : Seen(c, t, p) => c.height[t] <= c.height[u]
    BY DEF Sound, Right
  <2>2. \A t \in Ids : Over(d, t, p) = Over(c, t, p)
    BY <1>6 DEF Over
  <2>3. \A t \in Ids : d.height[t] # Hidden => c.height[t] # Hidden
    <3> SUFFICES ASSUME NEW t \in Ids, c.height[t] = Hidden PROVE d.height[t] = Hidden
      OBVIOUS
    <3>1. t # s /\ c.height[t] \notin old + 1 .. w
      BY <1>1, <1>2 DEF Hidden
    <3> QED BY <1>6, <3>1
  <2>4. \A t \in Ids : c.height[t] # Hidden => d.height[t] # Hidden
    <3> SUFFICES ASSUME NEW t \in Ids, c.height[t] # Hidden PROVE d.height[t] >= 0
      BY DEF Hidden
    <3>1. c.height[t] \in 0 .. c.top
      BY <1>1, AgreeFacts
    <3> QED BY <1>1, <1>6, <3>1
  <2>5. Seen(d, u, p)
    BY <2>1, <2>2, <2>4 DEF Seen
  <2>6. ASSUME NEW t \in Ids, t # s, Seen(d, t, p) PROVE d.height[t] <= d.height[u]
    <3>1. Seen(c, t, p)
      BY <2>2, <2>3, <2>6 DEF Seen
    <3>2. c.height[t] <= c.height[u] /\ c.height[t] # Hidden /\ c.height[u] # Hidden
      BY <2>1, <3>1 DEF Seen
    <3>3. /\ c.height[t] \in 0 .. c.top /\ c.sheets[c.height[t]] = t
          /\ c.height[u] \in 0 .. c.top /\ c.sheets[old] = s
      BY <1>1, <1>2, <2>1, <3>2, AgreeFacts
    <3>4. c.height[t] # old
      BY <2>6, <3>3
    <3>5. d.height[t] = IF c.height[t] \in old + 1 .. w THEN c.height[t] - 1 ELSE c.height[t]
      BY <1>6, <2>6
    <3>6. d.height[u] = IF u = s THEN w
                        ELSE IF c.height[u] \in old + 1 .. w THEN c.height[u] - 1
                        ELSE c.height[u]
      BY <1>6, <2>1
    <3> DEFINE ht == c.height[t]
               hu == c.height[u]
    <3>7. ht \in Int /\ hu \in Int /\ (u = s => hu = old)
      BY <3>3
    <3> HIDE DEF ht, hu, old, u
    <3>8. CASE u = s
      BY <1>1, <3>2, <3>4, <3>5, <3>6, <3>7, <3>8 DEF ht, hu
    <3>9. CASE u # s
      BY <1>1, <3>2, <3>4, <3>5, <3>6, <3>7, <3>9 DEF ht, hu
    <3> QED BY <3>8, <3>9
  <2> QED BY <1>6, <2>1, <2>5, <2>6 DEF RightBut
<1>11. \A p \in Screen : Right(m, p)
  BY <1>6, <1>8, <1>9, <1>10, FinishMap
<1>12. m \in Ctls /\ SameSheets(m, d) /\ m.vram = d.vram
  BY <1>9 DEF Remapped
<1>13. Sound(m)
  <2>1. Agrees(m) /\ BackSpread(m) /\ m.top >= 0
    BY <1>6, <1>12 DEF SameSheets, Agrees, BackSpread, Sound
  <2>2. m.sheets[0] = Back
    <3>1. 0 \in 0 .. c.top /\ 0 < old
      BY <1>1
    <3>2. d.sheets[0] = c.sheets[0]
      BY <1>6, <3>1
    <3> QED BY <1>12, <3>2 DEF SameSheets, Sound
  <2>3. \A t \in Ids : m.height[t] # Hidden => m.used[t]
    <3> SUFFICES ASSUME NEW t \in Ids, d.height[t] # Hidden PROVE c.used[t]
      BY <1>6, <1>12 DEF SameSheets
    <3>1. c.height[t] # Hidden
      <4> SUFFICES ASSUME c.height[t] = Hidden PROVE FALSE
        OBVIOUS
      <4>1. t # s /\ c.height[t] \notin old + 1 .. w
        BY <1>1, <1>2 DEF Hidden
      <4> QED BY <1>6, <4>1
    <3> QED BY <3>1 DEF Sound
  <2>4. \A p \in Screen : m.vram[p] \in Pixels
    BY <1>6, <1>12 DEF Sound
  <2> QED BY <1>11, <1>12, <2>1, <2>2, <2>3, <2>4 DEF Sound
<1>14. Sound(r) /\ SameSheets(r, m) /\ Repainted(r, m, a, w, w)
  <2>1. m.top = c.top
    BY <1>6, <1>12 DEF SameSheets
  <2> QED BY <1>1, <1>7, <1>13, <2>1, PaintSound
<1> HIDE DEF r
<1>15. SameBuffers(r, c) /\ LiesAs(r, d)
  BY <1>6, <1>12, <1>14 DEF SameBuffers, LiesAs, SameSheets
<1>16. ASSUME Fitting, NEW p \in Screen PROVE SameAt(r, c, p) \/ Current(r, p)
  <2>1. /\ m.vram = c.vram /\ m.buf = c.buf /\ m.place = c.place /\ m.height = d.height
        /\ m.sheets = d.sheets
    BY <1>6, <1>12 DEF SameSheets
  <2>2. m.sheets[w] = s
    BY <1>1, <1>6, <2>1
  <2>3. /\ \A t \in Ids : t # s => (m.height[t] = Hidden <=> c.height[t] = Hidden)
        /\ \A t, u \in Ids : t # s /\ u # s /\ c.height[t] # Hidden /\ c.height[u] # Hidden
                             /\ c.height[t] < c.height[u] => m.height[t] < m.height[u]
        /\ \A t \in Ids : t # s /\ c.height[t] # Hidden /\ m.height[t] > w =>
                            c.height[t] = m.height[t]
    <3> SUFFICES ASSUME NEW t \in Ids, t # s
                 PROVE  /\ m.height[t] = Hidden <=> c.height[t] = Hidden
                        /\ \A u \in Ids : u # s /\ c.height[t] # Hidden /\ c.height[u] # Hidden
                             /\ c.height[t] < c.height[u] => m.height[t] < m.height[u]
                        /\ c.height[t] # Hidden /\ m.height[t] > w => c.height[t] = m.height[t]
      OBVIOUS
    <3>1. \A u \in Ids : u # s => /\ m.height[u] = IF c.height[u] \in old + 1 .. w
                                                   THEN c.height[u] - 1 ELSE c.height[u]
                                  /\ c.height[u] # Hidden =>
                                       c.height[u] \in 0 .. c.top /\ c.height[u] # old
      <4>1. c.sheets[old] = s
        BY <1>1, <1>2, AgreeFacts
      <4> HIDE DEF old
      <4> QED BY <1>1, <1>6, <2>1, <4>1, AgreeFacts
    <3> HIDE DEF old
    <3>2. m.height[t] = Hidden <=> c.height[t] = Hidden
      BY <1>1, <3>1 DEF Hidden, old
    <3>3. ASSUME NEW u \in Ids, u # s, c.height[t] # Hidden, c.height[u] # Hidden,
                 c.height[t] < c.height[u]
          PROVE  m.height[t] < m.height[u]
      BY <1>1, <3>1, <3>3
    <3>4. c.height[t] # Hidden /\ m.height[t] > w => c.height[t] = m.height[t]
      BY <1>1, <3>1
    <3> QED BY <3>2, <3>3, <3>4
  <2>4. Right(c, p) /\ Right(m, p)
    BY <1>11 DEF Sound
  <2>5. CASE m.map[p] = s
    <3>1. Over(m, s, p)
      BY <2>4, <2>5 DEF Right, Seen
    <3>2. InArea(a, p)
      <4>1. Whole(m, s) = a
        BY <1>6, <1>7, <2>1, WholeSame
      <4> QED BY <1>12, <3>1, <4>1, WholeFacts
    <3>3. w \in w .. w /\ m.map[p] = m.sheets[w]
      BY <1>1, <2>2, <2>5
    <3> QED BY <1>7, <1>13, <1>14, <1>16, <2>1, <3>2, <3>3, PaintsAnew
  <2>6. CASE m.map[p] # s
    <3>1. c.map[p] # s
      <4> SUFFICES ASSUME c.map[p] = s PROVE FALSE
        OBVIOUS
      <4> DEFINE t == m.map[p]
      <4>1. t \in Ids /\ t # s /\ Seen(m, t, p) /\ \A v \in Ids : Seen(m, v, p) =>
                                                     m.height[v] <= m.height[t]
        BY <2>4, <2>6 DEF Right
      <4>2. Seen(c, s, p) /\ \A v \in Ids : Seen(c, v, p) => c.height[v] <= old
        BY <2>4 DEF Right
      <4> HIDE DEF t, old
      <4>3. m.height[s] = w /\ m.height[s] # Hidden
        BY <1>8, <2>1
      <4>4. Seen(m, s, p) /\ Seen(c, t, p)
        BY <2>1, <2>3, <4>1, <4>2, <4>3 DEF Seen, Over
      <4>5. m.height[t] >= w /\ m.height[t] # w /\ m.height[t] \in Int
        <5>1. m.height[t] # w
          BY <1>13, <4>1, <4>3, AgreeFacts DEF Sound, Seen
        <5> QED BY <1>12, <4>1, <4>3, <4>4, <5>1, CtlFields
      <4>6. c.height[t] = m.height[t] /\ c.height[t] <= old
        BY <1>1, <2>3, <4>1, <4>2, <4>4, <4>5 DEF Seen
      <4> QED BY <1>1, <4>5, <4>6 DEF old
    <3>2. m.map[p] = c.map[p] /\ m.place[c.map[p]] = c.place[c.map[p]]
      BY <1>1, <1>12, <2>1, <2>3, <2>4, <2>6, <3>1, SameOwner
    <3> QED BY <1>7, <1>13, <1>14, <1>16, <2>1, <3>2, PaintsAnew
  <2> QED BY <2>5, <2>6
<1>17. Fitting => PaintedFrom(r, c)
  BY <1>16 DEF PaintedFrom
<1> QED BY <1>3, <1>4, <1>14, <1>15, <1>17

\* A sheet above the background may be hidden.
LEMMA HideSound ==
  ASSUME NEW c, Sound(c), NEW s \in Ids, c.height[s] >= 1
  PROVE  LET r == Updown(c, s, Hidden)
         IN  /\ Sound(r) /\ SameBuffers(r, c)
             /\ \E d : HiddenIn(d, c, s) /\ LiesAs(r, d)
             /\ Fitting => PaintedFrom(r, c)
<1> DEFINE old == c.height[s]
           told == [c EXCEPT !.height[s] = Hidden]
           d == [Shifted(told, old, told.top - 1, 1) EXCEPT !.top = @ - 1]
           a == Whole(told, s)
           m == RefreshMap(d, a, 0)
           r == RefreshSub(m, a, 0, old - 1)
<1>1. c \in Ctls /\ Agrees(c) /\ c.top \in Int /\ old \in Int
  BY CtlFields DEF Sound
<1>2. c.height[s] # Hidden
  BY DEF Hidden
<1>3. HiddenIn(d, c, s)
  BY <1>1, <1>2, TakenOutMove
<1>4. Updown(c, s, Hidden) = r
  <2>1. Hidden \in -1 .. c.top + 1 /\ Hidden < old /\ Hidden < 0 /\ -1 = Hidden
    BY <1>1 DEF Hidden, Sound
  <2>2. Updown(c, s, Hidden) = TakenOut(told, s, old)
    BY <1>1, <2>1, UpdownCases
  <2> QED BY <2>2 DEF TakenOut
<1>5. told.place = c.place
  BY <1>1 DEF Ctls
<1> HIDE DEF told, d
<1>6. /\ d \in Ctls /\ Agrees(d) /\ d.top = c.top - 1 /\ d.used = c.used /\ d.place = c.place
      /\ d.buf = c.buf /\ d.map = c.map /\ d.vram = c.vram
      /\ \A h \in 0 .. c.top - 1 :
           d.sheets[h] = IF h < old THEN c.sheets[h] ELSE c.sheets[h + 1]
      /\ \A t \in Ids :
           d.height[t] = IF t = s THEN Hidden
                         ELSE IF c.height[t] > old THEN c.height[t] - 1
                         ELSE c.height[t]
  BY <1>3 DEF HiddenIn, SamePixels
<1>7. a = Whole(d, s) /\ a = Whole(c, s) /\ a \in Areas /\ a.x0 < a.x1
  <2>1. Whole(told, s) = Whole(d, s) /\ Whole(told, s) = Whole(c, s)
    BY <1>5, <1>6, WholeSame
  <2> QED BY <1>6, <2>1, WholeFacts
<1> HIDE DEF a
<1>8. old \in 1 .. c.top /\ old # 0 /\ c.sheets[old] = s /\ c.sheets[0] = Back
  BY <1>1, <1>2, AgreeFacts DEF Sound
<1>9. /\ d.top >= 0 /\ d.sheets[0] = Back /\ d.top \in Int
      /\ d.height[Back] # Hidden /\ BackSpread(d)
  <2>1. 0 \in 0 .. c.top - 1 /\ 0 < old
    BY <1>1, <1>8
  <2>2. d.sheets[0] = Back /\ d.top >= 0 /\ d.top \in Int
    BY <1>1, <1>6, <1>8, <2>1
  <2>3. BackSpread(d)
    BY <1>6 DEF Sound, BackSpread
  <2> QED BY <1>6, <2>2, <2>3, BackLowest
<1>10. Remapped(m, d, a, 0)
  <2>1. \A h \in 0 .. d.top : d.sheets[h] \in Ids
    BY <1>6, AgreeFacts
  <2> QED BY <1>6, <1>7, <2>1, MapFacts
<1> HIDE DEF m
<1>11. m \in Ctls /\ SameSheets(m, d) /\ m.vram = d.vram
  BY <1>10 DEF Remapped
<1>12. ASSUME NEW p \in Screen PROVE Right(m, p)
  <2>1. CASE InArea(a, p)
    BY <1>6, <1>7, <1>9, <1>10, <2>1, BaseMap
  <2>2. CASE ~InArea(a, p)
    <3> DEFINE u == c.map[p]
    <3>1. m.map[p] = u
      BY <1>6, <1>7, <1>9, <1>10, <2>2, BaseMap
    <3>2. u \in Ids /\ Seen(c, u, p) /\ \A t \in Ids : Seen(c, t, p) => c.height[t] <= c.height[u]
      BY DEF Sound, Right
    <3>3. u # s
      BY <1>1, <1>7, <2>2, <3>2, WholeFacts DEF Seen
    <3>4. \A t \in Ids : Over(m, t, p) = Over(c, t, p)
      BY <1>6, <1>11 DEF Over, SameSheets
    <3>5. m.height = d.height
      BY <1>11 DEF SameSheets
    <3> HIDE DEF u
    <3>6. d.height[u] = IF c.height[u] > old THEN c.height[u] - 1 ELSE c.height[u]
      BY <1>6, <3>2, <3>3
    <3>7. c.height[u] \in 0 .. c.top
      BY <1>1, <3>2, AgreeFacts DEF Seen
    <3>8. d.height[u] # Hidden
      BY <1>1, <1>8, <3>6, <3>7 DEF Hidden
    <3>9. Seen(m, u, p)
      BY <3>2, <3>4, <3>5, <3>8 DEF Seen
    <3>10. ASSUME NEW t \in Ids, Seen(m, t, p) PROVE d.height[t] <= d.height[u]
      <4>1. t # s /\ d.height[t] # Hidden /\ Over(c, t, p)
        BY <1>6, <3>4, <3>5, <3>10 DEF Seen
      <4>2. d.height[t] = IF c.height[t] > old THEN c.height[t] - 1 ELSE c.height[t]
        BY <1>6, <4>1
      <4>3. c.height[t] # Hidden
        <5> SUFFICES ASSUME c.height[t] = Hidden PROVE FALSE
          OBVIOUS
        <5>1. ~(c.height[t] > old)
          BY <1>1, <1>8 DEF Hidden
        <5> QED BY <4>1, <4>2, <5>1
      <4>4. c.height[t] <= c.height[u] /\ c.height[t] \in 0 .. c.top /\ c.height[t] # old
        BY <1>1, <1>8, <3>2, <4>1, <4>3, AgreeFacts DEF Seen
      <4> HIDE DEF old
      <4> QED BY <1>1, <3>6, <3>7, <4>2, <4>4
    <3> QED BY <3>1, <3>2, <3>5, <3>9, <3>10 DEF Right
  <2> QED BY <2>1, <2>2
<1>13. Sound(m)
  <2>1. Agrees(m) /\ BackSpread(m) /\ m.top >= 0 /\ m.sheets[0] = Back
    BY <1>6, <1>9, <1>11 DEF SameSheets, Agrees, BackSpread
  <2>2. \A t \in Ids : m.height[t] # Hidden => m.used[t]
    <3> SUFFICES ASSUME NEW t \in Ids, d.height[t] # Hidden PROVE c.used[t]
      BY <1>6, <1>11 DEF SameSheets
    <3>1. c.height[t] # Hidden
      <4> SUFFICES ASSUME c.height[t] = Hidden PROVE FALSE
        OBVIOUS
      <4>1. t # s /\ ~(c.height[t] > old)
        BY <1>1, <1>2, <1>8 DEF Hidden
      <4> QED BY <1>6, <4>1
    <3> QED BY <3>1 DEF Sound
  <2>3. \A p \in Screen : m.vram[p] \in Pixels
    BY <1>6, <1>11 DEF Sound
  <2> QED BY <1>11, <1>12, <2>1, <2>2, <2>3 DEF Sound
<1>14. Sound(r) /\ SameSheets(r, m) /\ Repainted(r, m, a, 0, old - 1)
  <2>1. m.top = c.top - 1 /\ 0 \in Nat /\ old - 1 \in Int
    BY <1>1, <1>6, <1>11 DEF SameSheets
  <2>2. old - 1 <= m.top
    BY <1>1, <1>8, <2>1
  <2> HIDE DEF old
  <2> QED BY <1>7, <1>13, <2>1, <2>2, PaintSound
<1> HIDE DEF r
<1>15. SameBuffers(r, c) /\ LiesAs(r, d)
  BY <1>6, <1>11, <1>14 DEF SameBuffers, LiesAs, SameSheets
<1>16. ASSUME Fitting, NEW p \in Screen PROVE SameAt(r, c, p) \/ Current(r, p)
  <2>1. /\ m.vram = c.vram /\ m.buf = c.buf /\ m.place = c.place /\ m.height = d.height
        /\ m.sheets = d.sheets
    BY <1>6, <1>11 DEF SameSheets
  <2>2. \A t \in Ids : t # s => /\ m.height[t] = IF c.height[t] > old THEN c.height[t] - 1
                                                 ELSE c.height[t]
                                /\ c.height[t] # Hidden =>
                                     c.height[t] \in 0 .. c.top /\ c.height[t] # old
    <3> HIDE DEF old
    <3> QED BY <1>1, <1>6, <1>8, <2>1, AgreeFacts
  <2>3. /\ \A t \in Ids : t # s => (m.height[t] = Hidden <=> c.height[t] = Hidden)
        /\ \A t, u \in Ids : t # s /\ u # s /\ c.height[t] # Hidden /\ c.height[u] # Hidden
                             /\ c.height[t] < c.height[u] => m.height[t] < m.height[u]
    <3> SUFFICES ASSUME NEW t \in Ids, t # s
                 PROVE  /\ m.height[t] = Hidden <=> c.height[t] = Hidden
                        /\ \A u \in Ids : u # s /\ c.height[t] # Hidden /\ c.height[u] # Hidden
                             /\ c.height[t] < c.height[u] => m.height[t] < m.height[u]
      OBVIOUS
    <3> HIDE DEF old
    <3>1. m.height[t] = Hidden <=> c.height[t] = Hidden
      BY <1>1, <1>8, <2>2 DEF Hidden
    <3>2. ASSUME NEW u \in Ids, u # s, c.height[t] # Hidden, c.height[u] # Hidden,
                 c.height[t] < c.height[u]
          PROVE  m.height[t] < m.height[u]
      BY <1>1, <2>2, <3>2
    <3> QED BY <3>1, <3>2
  <2>4. Right(c, p) /\ Right(m, p)
    BY <1>12 DEF Sound
  <2> DEFINE t == m.map[p]
  <2>5. t \in Ids /\ t # s /\ Seen(m, t, p)
    <3>1. m.height[s] = Hidden
      BY <1>6, <2>1
    <3> QED BY <2>4, <3>1 DEF Right, Seen
  <2>6. CASE c.map[p] = s
    <3>1. Seen(c, s, p) /\ \A v \in Ids : Seen(c, v, p) => c.height[v] <= old
      BY <2>4, <2>6 DEF Right
    <3> HIDE DEF t, old
    <3>2. Seen(c, t, p)
      BY <2>1, <2>3, <2>5 DEF Seen, Over
    <3>3. c.height[t] \in 0 .. old - 1
      BY <1>1, <1>8, <2>2, <2>5, <3>1, <3>2 DEF Seen
    <3>4. m.height[t] \in 0 .. old - 1
      BY <1>1, <1>8, <2>2, <2>5, <3>3
    <3>5. m.sheets[m.height[t]] = t
      BY <1>13, <2>5, AgreeFacts DEF Sound, Seen
    <3>6. InArea(a, p)
      BY <1>1, <1>7, <3>1, WholeFacts DEF Seen
    <3>7. \E h \in 0 .. old - 1 : m.map[p] = m.sheets[h]
      BY <3>4, <3>5 DEF t
    <3> QED BY <1>7, <1>13, <1>14, <1>16, <2>1, <3>6, <3>7, PaintsAnew
  <2>7. CASE c.map[p] # s
    <3>1. m.map[p] = c.map[p] /\ m.place[c.map[p]] = c.place[c.map[p]]
      BY <1>1, <1>11, <2>1, <2>3, <2>4, <2>5, <2>7, SameOwner
    <3> QED BY <1>7, <1>13, <1>14, <1>16, <2>1, <3>1, PaintsAnew
  <2> QED BY <2>6, <2>7
<1>17. Fitting => PaintedFrom(r, c)
  BY <1>16 DEF PaintedFrom
<1> QED BY <1>3, <1>4, <1>14, <1>15, <1>17

\* A hidden sheet in use may be shown above the background.
LEMMA ShowSound ==
  ASSUME NEW c, Sound(c), NEW s \in Ids, c.height[s] = Hidden, c.used[s],
         NEW w \in 1 .. c.top + 1, c.top + 1 < MaxSheets
  PROVE  LET r == Updown(c, s, w)
         IN  /\ Sound(r) /\ SameBuffers(r, c)
             /\ \E d : ShownIn(d, c, s, w) /\ LiesAs(r, d)
             /\ Fitting => PaintedFrom(r, c)
<1> DEFINE told == [c EXCEPT !.height[s] = w]
           d == [Seated(Shifted(told, w + 1, told.top + 1, -1), s, w) EXCEPT !.top = @ + 1]
           a == Whole(told, s)
           m == RefreshMap(d, a, w)
           r == RefreshSub(m, a, w, w)
<1>1. c \in Ctls /\ Agrees(c) /\ c.top \in Int /\ w \in Nat /\ w \in 0 .. c.top + 1 /\ w >= 1
  BY CtlFields DEF Sound
<1>2. ShownIn(d, c, s, w)
  BY <1>1, PutInMove
<1>3. Updown(c, s, w) = r
  <2>1. w \in -1 .. c.top + 1 /\ Hidden < w /\ Hidden < 0
    BY <1>1 DEF Hidden
  <2>2. Updown(c, s, w) = PutIn(told, s, w)
    BY <1>1, <2>1, UpdownCases
  <2> QED BY <2>2 DEF PutIn
<1>4. told.place = c.place
  BY <1>1 DEF Ctls
<1> HIDE DEF told, d
<1>5. /\ d \in Ctls /\ Agrees(d) /\ d.top = c.top + 1 /\ d.used = c.used /\ d.place = c.place
      /\ d.buf = c.buf /\ d.map = c.map /\ d.vram = c.vram
      /\ \A h \in 0 .. c.top + 1 :
           d.sheets[h] = IF h < w THEN c.sheets[h] ELSE IF h = w THEN s ELSE c.sheets[h - 1]
      /\ \A t \in Ids :
           d.height[t] = IF t = s THEN w
                         ELSE IF c.height[t] >= w THEN c.height[t] + 1
                         ELSE c.height[t]
  BY <1>2 DEF ShownIn, SamePixels
<1>6. a = Whole(d, s) /\ a \in Areas /\ a.x0 < a.x1
  <2>1. Whole(told, s) = Whole(d, s)
    BY <1>4, <1>5, WholeSame
  <2> QED BY <1>5, <2>1, WholeFacts
<1> HIDE DEF a
<1>7. d.height[s] = w /\ d.height[s] # Hidden
  BY <1>1, <1>5 DEF Hidden
<1>8. Remapped(m, d, Whole(d, s), d.height[s])
  <2>1. \A h \in w .. d.top : d.sheets[h] \in Ids
    BY <1>1, <1>5, AgreeFacts
  <2>2. Remapped(m, d, a, w)
    BY <1>1, <1>5, <1>6, <2>1, MapFacts
  <2> QED BY <1>6, <1>7, <2>2
<1> HIDE DEF m
<1>9. \A t \in Ids : t # s => (c.height[t] = Hidden <=> d.height[t] = Hidden)
  <2> SUFFICES ASSUME NEW t \in Ids, t # s
               PROVE  c.height[t] = Hidden <=> d.height[t] = Hidden
    OBVIOUS
  <2>1. CASE c.height[t] = Hidden
    BY <1>1, <1>5, <2>1 DEF Hidden
  <2>2. CASE c.height[t] # Hidden
    <3>1. c.height[t] \in 0 .. c.top
      BY <1>1, <2>2, AgreeFacts
    <3>2. d.height[t] >= 0
      BY <1>1, <1>5, <3>1
    <3> QED BY <2>2, <3>2 DEF Hidden
  <2> QED BY <2>1, <2>2
<1>10. ASSUME NEW p \in Screen PROVE RightBut(d, s, p)
  <2> DEFINE u == c.map[p]
  <2>1. u \in Ids /\ Seen(c, u, p) /\ \A t \in Ids : Seen(c, t, p) => c.height[t] <= c.height[u]
    BY DEF Sound, Right
  <2>2. \A t \in Ids : Over(d, t, p) = Over(c, t, p)
    BY <1>5 DEF Over
  <2>3. u # s /\ c.height[u] # Hidden
    BY <2>1 DEF Seen
  <2>4. Seen(d, u, p)
    BY <1>9, <2>1, <2>2, <2>3 DEF Seen
  <2>5. ASSUME NEW t \in Ids, t # s, Seen(d, t, p) PROVE d.height[t] <= d.height[u]
    <3>1. Seen(c, t, p)
      BY <1>9, <2>2, <2>5 DEF Seen
    <3>2. c.height[t] <= c.height[u] /\ c.height[t] \in Int /\ c.height[u] \in Int
      BY <1>1, <2>1, <3>1, CtlFields
    <3>3. d.height[t] = IF c.height[t] >= w THEN c.height[t] + 1 ELSE c.height[t]
      BY <1>5, <2>5
    <3>4. d.height[u] = IF c.height[u] >= w THEN c.height[u] + 1 ELSE c.height[u]
      BY <1>5, <2>1, <2>3
    <3> HIDE DEF u
    <3> QED BY <1>1, <3>2, <3>3, <3>4
  <2> QED BY <1>5, <2>1, <2>4, <2>5 DEF RightBut
<1>11. \A p \in Screen : Right(m, p)
  BY <1>5, <1>7, <1>8, <1>10, FinishMap
<1>12. m \in Ctls /\ SameSheets(m, d) /\ m.vram = d.vram
  BY <1>8 DEF Remapped
<1>13. Sound(m)
  <2>1. Agrees(m) /\ BackSpread(m) /\ m.top >= 0
    <3>1. d.top >= 0
      BY <1>1, <1>5
    <3> QED BY <1>5, <1>12, <3>1 DEF SameSheets, Agrees, BackSpread, Sound
  <2>2. m.sheets[0] = Back
    <3>1. 0 \in 0 .. c.top + 1 /\ 0 < w
      BY <1>1
    <3>2. d.sheets[0] = c.sheets[0]
      BY <1>5, <3>1
    <3> QED BY <1>12, <3>2 DEF SameSheets, Sound
  <2>3. \A t \in Ids : m.height[t] # Hidden => m.used[t]
    BY <1>5, <1>9, <1>12 DEF SameSheets, Sound
  <2>4. \A p \in Screen : m.vram[p] \in Pixels
    BY <1>5, <1>12 DEF Sound
  <2> QED BY <1>11, <1>12, <2>1, <2>2, <2>3, <2>4 DEF Sound
<1>14. Sound(r) /\ SameSheets(r, m) /\ Repainted(r, m, a, w, w)
  <2>1. m.top = c.top + 1 /\ w <= m.top
    BY <1>1, <1>5, <1>12 DEF SameSheets
  <2> QED BY <1>1, <1>6, <1>13, <2>1, PaintSound
<1> HIDE DEF r
<1>15. SameBuffers(r, c) /\ LiesAs(r, d)
  BY <1>5, <1>12, <1>14 DEF SameBuffers, LiesAs, SameSheets
<1>16. ASSUME Fitting, NEW p \in Screen PROVE SameAt(r, c, p) \/ Current(r, p)
  <2>1. /\ m.vram = c.vram /\ m.buf = c.buf /\ m.place = c.place /\ m.height = d.height
        /\ m.sheets = d.sheets
    BY <1>5, <1>12 DEF SameSheets
  <2>2. m.sheets[w] = s
    BY <1>1, <1>5, <2>1
  <2>3. \A t, u \in Ids : t # s /\ u # s /\ c.height[t] # Hidden /\ c.height[u] # Hidden
                          /\ c.height[t] < c.height[u] => m.height[t] < m.height[u]
    <3> SUFFICES ASSUME NEW t \in Ids, NEW u \in Ids, t # s, u # s,
                        c.height[t] < c.height[u]
                 PROVE  m.height[t] < m.height[u]
      OBVIOUS
    <3>1. /\ m.height[t] = IF c.height[t] >= w THEN c.height[t] + 1 ELSE c.height[t]
          /\ m.height[u] = IF c.height[u] >= w THEN c.height[u] + 1 ELSE c.height[u]
      BY <1>5, <2>1
    <3> QED BY <1>1, <3>1, CtlFields
  <2>4. Right(c, p) /\ Right(m, p)
    BY <1>11 DEF Sound
  <2>5. CASE m.map[p] = s
    <3>1. Over(m, s, p)
      BY <2>4, <2>5 DEF Right, Seen
    <3>2. InArea(a, p)
      <4>1. Whole(m, s) = a
        BY <1>5, <1>6, <2>1, WholeSame
      <4> QED BY <1>12, <3>1, <4>1, WholeFacts
    <3>3. w \in w .. w /\ m.map[p] = m.sheets[w]
      BY <1>1, <2>2, <2>5
    <3> QED BY <1>6, <1>13, <1>14, <1>16, <2>1, <3>2, <3>3, PaintsAnew
  <2>6. CASE m.map[p] # s
    <3>1. c.map[p] # s
      BY <2>4 DEF Right, Seen
    <3>2. m.map[p] = c.map[p] /\ m.place[c.map[p]] = c.place[c.map[p]]
      BY <1>1, <1>9, <1>12, <2>1, <2>3, <2>4, <2>6, <3>1, SameOwner
    <3> QED BY <1>6, <1>13, <1>14, <1>16, <2>1, <3>2, PaintsAnew
  <2> QED BY <2>5, <2>6
<1>17. Fitting => PaintedFrom(r, c)
  BY <1>16 DEF PaintedFrom
<1> QED BY <1>2, <1>3, <1>14, <1>15, <1>17

\* A sheet other than the background may be moved anywhere.
LEMMA SlideSound ==
  ASSUME NEW c, Sound(c), NEW s \in Ids, s # Back, NEW x \in Int, NEW y \in Int
  PROVE  LET r == Slide(c, s, x, y)
         IN  /\ Sound(r) /\ SameBuffers(r, c) /\ LiesAs(r, c)
             /\ Fitting => PaintedFrom(r, c)
<1> DEFINE moved == [c EXCEPT !.place[s] = At(x, y)]
           was == Whole(c, s)
           is == Whole(moved, s)
           h == c.height[s]
           m == RefreshMap(moved, was, 0)
           n == RefreshMap(m, is, h)
           q == RefreshSub(n, was, 0, h - 1)
           r == RefreshSub(q, is, h, h)
<1>1. c \in Ctls /\ Agrees(c) /\ c.top \in Int /\ c.top >= 0 /\ c.sheets[0] = Back
  BY CtlFields DEF Sound
<1>2. /\ moved \in Ctls /\ SameBuffers(moved, c) /\ LiesAs(moved, c)
      /\ moved.map = c.map /\ moved.vram = c.vram
      /\ \A t \in Ids : t # s => moved.place[t] = c.place[t]
  BY <1>1 DEF Ctls, SameBuffers, LiesAs, At
<1>3. Slide(c, s, x, y) = IF h < 0 THEN moved ELSE r
  BY DEF Slide
<1> HIDE DEF moved
<1>4. Agrees(moved) /\ BackSpread(moved) /\ moved.top = c.top /\ moved.height = c.height
      /\ moved.sheets = c.sheets /\ moved.used = c.used
  <2>1. Back \in Ids
    BY Sizes
  <2> QED BY <1>2, <2>1 DEF Sound, Agrees, BackSpread, SameBuffers, LiesAs
<1>5. \A t \in Ids, p \in Screen : t # s => /\ Over(moved, t, p) = Over(c, t, p)
                                            /\ Seen(moved, t, p) = Seen(c, t, p)
  BY <1>2, <1>4 DEF Over, Seen
<1>6. ASSUME NEW p \in Screen, ~Seen(c, s, p) PROVE RightBut(moved, s, p)
  <2>1. /\ c.map[p] \in Ids /\ c.map[p] # s /\ Seen(c, c.map[p], p)
        /\ \A t \in Ids : Seen(c, t, p) => c.height[t] <= c.height[c.map[p]]
    BY <1>6 DEF Sound, Right
  <2> QED BY <1>2, <1>4, <1>5, <2>1 DEF RightBut
<1>7. CASE h < 0
  <2>1. c.height[s] = Hidden
    BY <1>1, <1>7, AgreeFacts, CtlFields
  <2>2. \A p \in Screen : ~Seen(c, s, p) /\ ~Seen(moved, s, p)
    BY <1>4, <2>1 DEF Seen
  <2>3. \A p \in Screen : Right(moved, p)
    BY <1>6, <2>2 DEF Right, RightBut
  <2>4. Sound(moved)
    BY <1>2, <1>4, <2>3 DEF Sound
  <2>5. ASSUME NEW p \in Screen PROVE SameAt(moved, c, p)
    <3>1. c.map[p] # s
      BY <2>2 DEF Sound, Right
    <3> QED BY <1>2, <3>1 DEF SameAt, SameBuffers, Sound, Right
  <2>6. PaintedFrom(moved, c)
    BY <2>5 DEF PaintedFrom
  <2> QED BY <1>2, <1>3, <1>7, <2>4, <2>6
<1>8. CASE ~(h < 0)
  <2>1. /\ h \in 0 .. c.top /\ h \in Nat /\ h # Hidden /\ was \in Areas /\ is \in Areas
        /\ was.x0 < was.x1 /\ is.x0 < is.x1
    <3>1. h \in Int /\ h # Hidden
      BY <1>1, <1>8, CtlFields DEF Hidden
    <3> QED BY <1>1, <1>2, <3>1, WholeFacts, AgreeFacts
  <2>2. \A k \in 0 .. c.top : c.sheets[k] \in Ids
    BY <1>1, AgreeFacts
  <2>3. Remapped(m, moved, was, 0)
    <3> HIDE DEF was
    <3> QED BY <1>2, <1>4, <2>1, <2>2, MapFacts
  <2> HIDE DEF m
  <2>4. m \in Ctls /\ SameSheets(m, moved) /\ m.vram = moved.vram
    BY <2>3 DEF Remapped
  <2>5. Agrees(m) /\ m.height = c.height /\ m.top = c.top /\ m.sheets = c.sheets
        /\ m.place = moved.place /\ m.used = c.used /\ BackSpread(m) /\ m.buf = moved.buf
    BY <1>4, <2>4 DEF SameSheets, Agrees, BackSpread
  <2>6. c.height[Back] # Hidden
    BY <1>1, BackLowest
  <2>7. ASSUME NEW p \in Screen PROVE RightBut(m, s, p)
    <3> HIDE DEF was
    <3>1. IF InArea(was, p) THEN Right(m, p) ELSE m.map[p] = moved.map[p]
      BY <1>2, <1>4, <2>1, <2>3, <2>6, BaseMap
    <3>2. CASE InArea(was, p)
      BY <3>1, <3>2 DEF Right, RightBut
    <3>3. CASE ~InArea(was, p)
      <4>1. ~Seen(c, s, p)
        BY <1>1, <3>3, WholeFacts DEF Seen, was
      <4>2. RightBut(moved, s, p) /\ m.map[p] = moved.map[p]
        BY <1>6, <3>1, <3>3, <4>1
      <4>3. \A t \in Ids : Seen(m, t, p) = Seen(moved, t, p)
        BY <1>4, <2>5, SeenSame
      <4> QED BY <1>4, <2>5, <4>2, <4>3 DEF RightBut
    <3> QED BY <3>2, <3>3
  <2>8. is = Whole(m, s)
    BY <2>5, WholeSame
  <2> HIDE DEF is, was, h
  <2>9. Remapped(n, m, is, h)
    <3>1. \A k \in h .. m.top : m.sheets[k] \in Ids
      BY <2>1, <2>2, <2>5
    <3> QED BY <2>1, <2>4, <3>1, MapFacts
  <2> HIDE DEF n
  <2>10. \A p \in Screen : Right(n, p)
    <3>1. Remapped(n, m, Whole(m, s), m.height[s]) /\ m.height[s] # Hidden
      BY <2>1, <2>5, <2>8, <2>9 DEF h
    <3> QED BY <2>4, <2>5, <2>7, <3>1, FinishMap
  <2>11. n \in Ctls /\ SameSheets(n, m) /\ n.vram = m.vram
    BY <2>9 DEF Remapped
  <2>12. Sound(n)
    <3>1. Agrees(n) /\ BackSpread(n) /\ n.top >= 0 /\ n.sheets[0] = Back
      BY <1>1, <2>5, <2>11 DEF SameSheets, Agrees, BackSpread
    <3>2. \A t \in Ids : n.height[t] # Hidden => n.used[t]
      BY <2>5, <2>11 DEF SameSheets, Sound
    <3>3. \A p \in Screen : n.vram[p] \in Pixels
      BY <1>2, <2>4, <2>11 DEF Sound
    <3> QED BY <2>10, <2>11, <3>1, <3>2, <3>3 DEF Sound
  <2>13. Sound(q) /\ SameSheets(q, n) /\ Repainted(q, n, was, 0, h - 1)
    <3>1. n.top = c.top /\ h - 1 \in Int /\ 0 \in Nat /\ h - 1 <= n.top
      BY <1>1, <2>1, <2>5, <2>11 DEF SameSheets
    <3> QED BY <2>1, <2>12, <3>1, PaintSound
  <2> HIDE DEF q
  <2>14. Sound(r) /\ SameSheets(r, q) /\ Repainted(r, q, is, h, h)
    <3>1. q.top = c.top /\ h <= q.top
      BY <1>1, <2>1, <2>5, <2>11, <2>13 DEF SameSheets
    <3> QED BY <2>1, <2>13, <3>1, PaintSound
  <2> HIDE DEF r
  <2>15. SameBuffers(r, c) /\ LiesAs(r, c)
    BY <1>2, <1>4, <2>5, <2>11, <2>13, <2>14 DEF SameBuffers, LiesAs, SameSheets
  <2>16. Slide(c, s, x, y) = r
    BY <1>3, <1>8 DEF h
  <2>17. ASSUME Fitting, NEW p \in Screen PROVE SameAt(r, c, p) \/ Current(r, p)
    <3>1. /\ n.vram = c.vram /\ n.buf = c.buf /\ n.place = moved.place
          /\ n.height = c.height /\ n.sheets = c.sheets
      BY <1>2, <2>4, <2>5, <2>11 DEF SameSheets, SameBuffers
    <3>2. /\ q.map = n.map /\ q.buf = n.buf /\ q.place = n.place /\ q.sheets = n.sheets
      BY <2>13 DEF Repainted, SameSheets
    <3>3. q.vram = q.vram /\ q.map[p] = q.map[p] /\ q.place[q.map[p]] = q.place[q.map[p]]
      OBVIOUS
    <3>4. SameAt(r, q, p) \/ Current(r, p)
      BY <2>1, <2>13, <2>14, <2>17, <3>3, PaintsAnew
    <3>5. Right(c, p) /\ Right(n, p) /\ c.sheets[h] = s /\ c.height[s] = h
      <4>1. c.sheets[h] = s
        BY <1>1, <2>1, AgreeFacts DEF h
      <4> QED BY <2>10, <4>1 DEF Sound, h
    <3>6. CASE n.map[p] = s
      <4>1. Over(n, s, p)
        BY <3>5, <3>6 DEF Right, Seen
      <4>2. InArea(is, p)
        <5>1. Whole(n, s) = is
          BY <2>5, <2>8, <3>1, WholeSame
        <5> QED BY <2>11, <4>1, <5>1, WholeFacts
      <4>3. h \in h .. h /\ q.map[p] = q.sheets[h]
        BY <2>1, <3>1, <3>2, <3>5, <3>6
      <4>4. q \in Ctls /\ q.map[p] \in Ids /\ Over(q, q.map[p], p)
        BY <2>13 DEF Sound, Right, Seen
      <4>5. Current(r, p)
        BY <2>1, <2>14, <2>17, <4>2, <4>3, <4>4, Renewed
      <4> QED BY <4>5
    <3>7. CASE n.map[p] # s
      <4> DEFINE t == n.map[p]
      <4>1. t \in Ids /\ t # s /\ Seen(n, t, p)
        BY <3>5, <3>7 DEF Right
      <4>2. \A u \in Ids : u # s => n.place[u] = c.place[u]
        BY <1>2, <3>1
      <4>3. CASE c.map[p] = s
        <5>1. Seen(c, s, p) /\ \A v \in Ids : Seen(c, v, p) => c.height[v] <= h
          BY <3>5, <4>3 DEF Right
        <5> HIDE DEF t
        <5>2. Seen(c, t, p)
          BY <3>1, <4>1, <4>2 DEF Seen, Over
        <5>3. c.height[t] \in 0 .. c.top /\ c.sheets[c.height[t]] = t
          BY <1>1, <4>1, <5>2, AgreeFacts DEF Seen
        <5>4. c.height[t] \in 0 .. h - 1
          <6>1. c.height[t] # h /\ c.height[t] <= h
            BY <3>5, <4>1, <5>1, <5>2, <5>3
          <6> QED BY <2>1, <5>3, <6>1
        <5>5. \E k \in 0 .. h - 1 : n.map[p] = n.sheets[k]
          BY <3>1, <5>3, <5>4 DEF t
        <5>6. InArea(was, p)
          BY <1>1, <5>1, WholeFacts DEF Seen, was
        <5>7. SameAt(q, c, p) \/ Current(q, p)
          BY <2>1, <2>12, <2>13, <2>17, <3>1, <5>5, <5>6, PaintsAnew
        <5> QED BY <3>4, <5>7, PaintedOnce
      <4>4. CASE c.map[p] # s
        <5>1. n.map[p] = c.map[p] /\ n.place[c.map[p]] = c.place[c.map[p]]
          BY <1>1, <2>11, <3>1, <3>5, <3>7, <4>2, <4>4, SameOwner
        <5>2. SameAt(q, c, p) \/ Current(q, p)
          BY <2>1, <2>12, <2>13, <2>17, <3>1, <5>1, PaintsAnew
        <5> QED BY <3>4, <5>2, PaintedOnce
      <4> QED BY <4>3, <4>4
    <3> QED BY <3>6, <3>7
  <2>18. Fitting => PaintedFrom(r, c)
    BY <2>17 DEF PaintedFrom
  <2> QED BY <2>14, <2>15, <2>16, <2>18
<1> QED BY <1>7, <1>8

-----------------------------------------------------------------------------
(* The stack with the pointer on top: what its callers do to it. *)

\* Between the background and the pointer lie the windows.
Stacked(c) == Sound(c) /\ c.top >= 1 /\ c.sheets[c.top] = Mouse

\* The windows, from the back to the front.
InOrder(c) == [i \in 1 .. c.top - 1 |-> c.sheets[i]]

\* The same sheets are hidden, but perhaps for s.
SameHidden(r, c, s) == \A t \in Ids : t # s => (r.height[t] = Hidden <=> c.height[t] = Hidden)

\* The entries between the ends are the visible windows.
LEMMA StackedFacts ==
  ASSUME NEW c, Stacked(c)
  PROVE  /\ c \in Ctls /\ Agrees(c) /\ c.top \in Int /\ c.top >= 1 /\ c.top \in Ids
         /\ c.sheets[0] = Back /\ c.sheets[c.top] = Mouse
         /\ c.height[Back] = 0 /\ c.height[Mouse] = c.top
         /\ \A h \in 1 .. c.top - 1 : c.sheets[h] \in Windows /\ c.height[c.sheets[h]] = h
         /\ \A s \in Windows : c.height[s] # Hidden =>
              c.height[s] \in 1 .. c.top - 1 /\ c.sheets[c.height[s]] = s
<1>1. /\ c \in Ctls /\ Agrees(c) /\ c.top \in Int /\ c.top >= 1
      /\ c.sheets[0] = Back /\ c.sheets[c.top] = Mouse
  BY CtlFields DEF Stacked, Sound
<1>2. 0 \in 0 .. c.top /\ c.top \in 0 .. c.top
  BY <1>1
<1>3. c.height[Back] = 0 /\ c.height[Mouse] = c.top /\ c.top \in Ids
  BY <1>1, <1>2, AgreeFacts
<1>4. ASSUME NEW h \in 1 .. c.top - 1
      PROVE  c.sheets[h] \in Windows /\ c.height[c.sheets[h]] = h
  <2>1. h \in 0 .. c.top /\ h # 0 /\ h # c.top
    BY <1>1
  <2>2. c.sheets[h] \in Ids /\ c.height[c.sheets[h]] = h
    BY <1>1, <2>1, AgreeFacts
  <2> QED BY <1>3, <2>1, <2>2 DEF Windows
<1>5. ASSUME NEW s \in Windows, c.height[s] # Hidden
      PROVE  c.height[s] \in 1 .. c.top - 1 /\ c.sheets[c.height[s]] = s
  <2>1. s \in Ids /\ s # Back /\ s # Mouse
    BY DEF Windows
  <2>2. c.height[s] \in 0 .. c.top /\ c.sheets[c.height[s]] = s
    BY <1>1, <1>5, <2>1, AgreeFacts
  <2>3. c.height[s] # 0 /\ c.height[s] # c.top
    BY <1>1, <2>1, <2>2
  <2> QED BY <1>1, <2>2, <2>3
<1> QED BY <1>1, <1>3, <1>4, <1>5

\* The windows form a sequence.
LEMMA OrderFacts ==
  ASSUME NEW c, Stacked(c)
  PROVE  /\ InOrder(c) \in Seq(Windows) /\ Len(InOrder(c)) = c.top - 1
         /\ \A i \in 1 .. c.top - 1 : InOrder(c)[i] = c.sheets[i]
<1>1. c.top - 1 \in Nat /\ \A i \in 1 .. c.top - 1 : c.sheets[i] \in Windows
  BY StackedFacts
<1> DEFINE n == c.top - 1
<1>2. InOrder(c) = [i \in 1 .. n |-> c.sheets[i]]
  BY DEF InOrder
<1>3. n \in Nat /\ \A i \in 1 .. n : c.sheets[i] \in Windows
  BY <1>1
<1> HIDE DEF n
<1>4. InOrder(c) \in [1 .. n -> Windows]
  BY <1>2, <1>3
<1>5. InOrder(c) \in Seq(Windows) /\ Len(InOrder(c)) = n
  BY <1>3, <1>4
<1>6. \A i \in 1 .. n : InOrder(c)[i] = c.sheets[i]
  BY <1>2
<1> QED BY <1>5, <1>6 DEF n

\* While a sheet is hidden there is room for it.
LEMMA RoomForOne ==
  ASSUME NEW c \in Ctls, Agrees(c), NEW s \in Ids, c.height[s] = Hidden
  PROVE  c.top + 1 < MaxSheets
<1> DEFINE D == 0 .. c.top
           S == Ids \ {s}
           f == [h \in D |-> c.sheets[h]]
<1>1. /\ c.top \in Int /\ -1 <= c.top /\ c.top < MaxSheets
      /\ MaxSheets \in Nat \ {0}
  BY AgreeFacts, Sizes
<1>2. f \in [D -> S]
  <2> SUFFICES ASSUME NEW h \in D PROVE c.sheets[h] \in S
    OBVIOUS
  <2>1. c.sheets[h] \in Ids /\ c.height[c.sheets[h]] = h /\ h # Hidden
    BY AgreeFacts DEF Hidden
  <2> QED BY <2>1
<1>3. \A h, k \in D : f[h] = f[k] => h = k
  BY AgreeFacts
<1>4. IsFiniteSet(Ids) /\ Cardinality(Ids) = MaxSheets
  <2>1. 0 \in Int /\ MaxSheets - 1 \in Int
    BY <1>1
  <2>2. IsFiniteSet(Ids) /\ Cardinality(Ids) = IF 0 > MaxSheets - 1 THEN 0 ELSE MaxSheets - 1 - 0 + 1
    BY <2>1, FS_Interval DEF Ids
  <2> QED BY <1>1, <2>2
<1>5. IsFiniteSet(S) /\ Cardinality(S) = MaxSheets - 1
  BY <1>4, FS_RemoveElement
<1>6. IsFiniteSet(D) /\ Cardinality(D) = c.top + 1
  <2>1. 0 \in Int /\ c.top \in Int
    BY <1>1
  <2>2. IsFiniteSet(D) /\ Cardinality(D) = IF 0 > c.top THEN 0 ELSE c.top - 0 + 1
    BY <2>1, FS_Interval
  <2> QED BY <1>1, <2>2
<1> SUFFICES ASSUME Cardinality(S) < Cardinality(D) PROVE FALSE
  BY <1>1, <1>5, <1>6
<1> HIDE DEF D, S, f
<1>7. \E h, k \in D : h # k /\ f[h] = f[k]
  BY <1>2, <1>5, <1>6, FS_PigeonHole
<1> QED BY <1>3, <1>7

\* A window that is opened comes to lie under the pointer.
LEMMA OpenedOnTop ==
  ASSUME NEW c, Stacked(c), NEW s \in Windows, c.height[s] = Hidden, c.used[s]
  PROVE  LET r == Updown(c, s, c.top)
         IN  /\ Stacked(r) /\ SameBuffers(r, c) /\ SameHidden(r, c, s)
             /\ InOrder(r) = Append(InOrder(c), s)
             /\ Fitting => PaintedFrom(r, c)
<1> DEFINE w == c.top
           r == Updown(c, s, w)
<1>1. /\ c \in Ctls /\ Agrees(c) /\ w \in Int /\ w >= 1 /\ Sound(c) /\ s \in Ids
      /\ c.sheets[c.top] = Mouse
  BY StackedFacts DEF Stacked, Windows
<1>2. c.top + 1 < MaxSheets /\ w \in 1 .. c.top + 1
  BY <1>1, RoomForOne
<1> HIDE DEF w
<1>3. /\ Sound(r) /\ SameBuffers(r, c)
      /\ \E d : ShownIn(d, c, s, w) /\ LiesAs(r, d)
      /\ Fitting => PaintedFrom(r, c)
  BY <1>1, <1>2, ShowSound
<1> HIDE DEF r
<1>4. /\ r.top = c.top + 1
      /\ \A h \in 0 .. c.top + 1 :
           r.sheets[h] = IF h < w THEN c.sheets[h] ELSE IF h = w THEN s ELSE c.sheets[h - 1]
      /\ \A t \in Ids :
           r.height[t] = IF t = s THEN w ELSE IF c.height[t] >= w THEN c.height[t] + 1
                         ELSE c.height[t]
  BY <1>3 DEF ShownIn, LiesAs
<1>5. Stacked(r)
  <2>1. c.top + 1 \in 0 .. c.top + 1 /\ ~(c.top + 1 < w) /\ c.top + 1 # w
        /\ (c.top + 1) - 1 = c.top
    BY <1>1 DEF w
  <2>2. r.sheets[c.top + 1] = Mouse
    BY <1>1, <1>4, <2>1
  <2>3. r.top >= 1
    BY <1>1, <1>4 DEF w
  <2> QED BY <1>3, <1>4, <2>2, <2>3 DEF Stacked
<1>6. SameHidden(r, c, s)
  <2> SUFFICES ASSUME NEW t \in Ids, t # s
               PROVE  r.height[t] = Hidden <=> c.height[t] = Hidden
    BY DEF SameHidden
  <2>1. c.height[t] \in Int
    BY <1>1, CtlFields
  <2>2. r.height[t] = IF c.height[t] >= w THEN c.height[t] + 1 ELSE c.height[t]
    BY <1>4
  <2> QED BY <1>1, <2>1, <2>2 DEF Hidden
<1>7. InOrder(r) = Append(InOrder(c), s)
  <2>1. /\ InOrder(c) \in Seq(Windows) /\ Len(InOrder(c)) = c.top - 1
        /\ \A i \in 1 .. c.top - 1 : InOrder(c)[i] = c.sheets[i]
    BY OrderFacts
  <2>2. /\ InOrder(r) \in Seq(Windows) /\ Len(InOrder(r)) = r.top - 1
        /\ \A i \in 1 .. r.top - 1 : InOrder(r)[i] = r.sheets[i]
    BY <1>5, OrderFacts
  <2> DEFINE a == Append(InOrder(c), s)
  <2>3. /\ a \in Seq(Windows) /\ Len(a) = Len(InOrder(c)) + 1
        /\ \A i \in 1 .. Len(InOrder(c)) : a[i] = InOrder(c)[i]
        /\ a[Len(InOrder(c)) + 1] = s
    BY <2>1, AppendProperties
  <2> HIDE DEF a
  <2>4. Len(InOrder(r)) = Len(a)
    <3>1. r.top = c.top + 1 /\ c.top \in Int
      BY <1>4, StackedFacts
    <3>2. Len(InOrder(r)) = c.top /\ Len(a) = c.top
      BY <2>1, <2>2, <2>3, <3>1
    <3> QED BY <3>2
  <2>5. \A i \in 1 .. Len(a) : InOrder(r)[i] = a[i]
    <3> SUFFICES ASSUME NEW i \in 1 .. c.top PROVE r.sheets[i] = a[i]
      BY <1>1, <1>4, <2>1, <2>2, <2>3 DEF w
    <3>0. i \in Int /\ i \in 0 .. c.top + 1
      BY <1>1 DEF w
    <3>1. CASE i = c.top
      BY <1>1, <1>4, <2>1, <2>3, <3>0, <3>1 DEF w
    <3>2. CASE i # c.top
      <4>1. i \in 1 .. c.top - 1 /\ i < w
        BY <1>1, <3>2 DEF w
      <4> QED BY <1>4, <2>1, <2>3, <3>0, <4>1
    <3> QED BY <3>1, <3>2
  <2> QED BY <2>2, <2>3, <2>4, <2>5, SeqEqual DEF a
<1> QED BY <1>3, <1>5, <1>6, <1>7 DEF r, w

\* A window comes to the front: it changes places with those in front of it.
LEMMA BroughtToFront ==
  ASSUME NEW c, Stacked(c), NEW s \in Windows, c.height[s] # Hidden
  PROVE  LET r == Updown(c, s, c.top - 1)
         IN  /\ Stacked(r) /\ SameBuffers(r, c) /\ SameHidden(r, c, s)
             /\ r.top = c.top /\ r.height[s] = c.top - 1
             /\ InOrder(r) = Append(RemoveAt(InOrder(c), c.height[s]), s)
             /\ Fitting => PaintedFrom(r, c)
<1> DEFINE w == c.top - 1
           old == c.height[s]
           r == Updown(c, s, w)
           n == Len(InOrder(c))
           a == RemoveAt(InOrder(c), old)
           b == Append(a, s)
<1>1. /\ c \in Ctls /\ Agrees(c) /\ c.top \in Int /\ c.top >= 1 /\ Sound(c) /\ s \in Ids
      /\ old \in 1 .. c.top - 1 /\ c.sheets[old] = s /\ c.sheets[c.top] = Mouse
  BY StackedFacts DEF Stacked, Windows
<1>2. /\ InOrder(c) \in Seq(Windows) /\ n = w
      /\ \A i \in 1 .. w : InOrder(c)[i] = c.sheets[i]
  BY OrderFacts
<1>3. /\ a \in Seq(Windows) /\ Len(a) = w - 1
      /\ \A i \in 1 .. w - 1 : a[i] = IF i < old THEN InOrder(c)[i] ELSE InOrder(c)[i + 1]
  <2>1. old \in 1 .. Len(InOrder(c))
    BY <1>1, <1>2
  <2>2. /\ a \in Seq(Windows) /\ Len(a) = Len(InOrder(c)) - 1
        /\ \A i \in 1 .. Len(InOrder(c)) - 1 :
             a[i] = IF i < old THEN InOrder(c)[i] ELSE InOrder(c)[i + 1]
    BY <1>2, <2>1, RemoveAtFacts
  <2> QED BY <1>2, <2>2
<1>4. w \in Int /\ old \in Int /\ 1 <= old /\ old <= w /\ c.top = w + 1
  BY <1>1
<1> HIDE DEF a, w, old
<1>5. /\ b \in Seq(Windows) /\ Len(b) = w
      /\ \A i \in 1 .. w - 1 : b[i] = IF i < old THEN c.sheets[i] ELSE c.sheets[i + 1]
      /\ b[w] = s
  <2>1. /\ b \in Seq(Windows) /\ Len(b) = Len(a) + 1
        /\ \A i \in 1 .. Len(a) : b[i] = a[i]
        /\ b[Len(a) + 1] = s
    BY <1>3, AppendProperties
  <2>2. Len(a) + 1 = w
    BY <1>3, <1>4
  <2>3. ASSUME NEW i \in 1 .. w - 1
        PROVE  b[i] = IF i < old THEN c.sheets[i] ELSE c.sheets[i + 1]
    <3>1. b[i] = IF i < old THEN InOrder(c)[i] ELSE InOrder(c)[i + 1]
      BY <1>3, <2>1
    <3>2. i \in 1 .. w /\ i + 1 \in 1 .. w
      BY <1>4
    <3> QED BY <1>2, <3>1, <3>2
  <2> QED BY <2>1, <2>2, <2>3
<1> HIDE DEF b
<1>6. CASE old = w
  <2>1. r = c
    <3>1. w \in -1 .. c.top + 1
      BY <1>4
    <3> QED BY <1>1, <1>6, <3>1, UpdownCases DEF old
  <2>2. InOrder(c) = b
    <3>1. \A i \in 1 .. w : InOrder(c)[i] = b[i]
      <4> SUFFICES ASSUME NEW i \in 1 .. w PROVE c.sheets[i] = b[i]
        BY <1>2
      <4>1. CASE i = w
        BY <1>1, <1>5, <1>6, <4>1
      <4>2. CASE i # w
        <5>1. i \in 1 .. w - 1 /\ i < old
          BY <1>4, <1>6, <4>2
        <5> QED BY <1>5, <5>1
      <4> QED BY <4>1, <4>2
    <3> QED BY <1>2, <1>5, <3>1, SeqEqual
  <2>3. SameBuffers(c, c) /\ SameHidden(c, c, s) /\ PaintedFrom(c, c)
    BY PaintedAlready DEF SameBuffers, SameHidden
  <2> QED BY <1>6, <2>1, <2>2, <2>3 DEF r, w, old, b, a
<1>7. CASE old < w
  <2>1. /\ Sound(r) /\ SameBuffers(r, c)
        /\ \E d : RaisedIn(d, c, s, w) /\ LiesAs(r, d)
        /\ Fitting => PaintedFrom(r, c)
    <3>1. w <= c.top
      BY <1>4
    <3> QED BY <1>1, <1>4, <1>7, <3>1, RaiseSound DEF old
  <2> HIDE DEF r
  <2>2. /\ r.top = c.top
        /\ \A h \in 0 .. c.top :
             r.sheets[h] = IF h < old \/ h > w THEN c.sheets[h]
                           ELSE IF h = w THEN s ELSE c.sheets[h + 1]
        /\ \A t \in Ids :
             r.height[t] = IF t = s THEN w
                           ELSE IF c.height[t] \in old + 1 .. w THEN c.height[t] - 1
                           ELSE c.height[t]
    BY <2>1 DEF RaisedIn, LiesAs, old
  <2>3. Stacked(r)
    <3>1. c.top \in 0 .. c.top /\ c.top > w
      BY <1>1, <1>4
    <3>2. r.sheets[c.top] = Mouse
      BY <1>1, <2>2, <3>1
    <3> QED BY <1>1, <2>1, <2>2, <3>2 DEF Stacked
  <2>4. SameHidden(r, c, s)
    <3> SUFFICES ASSUME NEW t \in Ids, t # s
                 PROVE  r.height[t] = Hidden <=> c.height[t] = Hidden
      BY DEF SameHidden
    <3>1. c.height[t] \in Int
      BY <1>1, CtlFields
    <3>2. r.height[t] = IF c.height[t] \in old + 1 .. w THEN c.height[t] - 1 ELSE c.height[t]
      BY <2>2
    <3> QED BY <1>4, <3>1, <3>2 DEF Hidden
  <2>5. InOrder(r) = b
    <3>1. /\ InOrder(r) \in Seq(Windows) /\ Len(InOrder(r)) = w
          /\ \A i \in 1 .. w : InOrder(r)[i] = r.sheets[i]
      BY <2>2, <2>3, OrderFacts DEF w
    <3>2. \A i \in 1 .. w : InOrder(r)[i] = b[i]
      <4> SUFFICES ASSUME NEW i \in 1 .. w PROVE r.sheets[i] = b[i]
        BY <3>1
      <4>0. i \in 0 .. c.top /\ ~(i > w) /\ i \in Int
        BY <1>4
      <4>1. r.sheets[i] = IF i < old THEN c.sheets[i] ELSE IF i = w THEN s ELSE c.sheets[i + 1]
        BY <2>2, <4>0
      <4>2. CASE i = w
        BY <1>4, <1>5, <1>7, <4>1, <4>2
      <4>3. CASE i # w
        <5>1. i \in 1 .. w - 1
          BY <1>4, <4>0, <4>3
        <5> QED BY <1>5, <4>1, <4>3, <5>1
      <4> QED BY <4>2, <4>3
    <3> QED BY <1>5, <3>1, <3>2, SeqEqual
  <2>6. r.height[s] = w
    BY <1>1, <2>2
  <2> QED BY <2>1, <2>2, <2>3, <2>4, <2>5, <2>6 DEF r, w, old, b, a
<1> QED BY <1>4, <1>6, <1>7

\* A window that is closed or hidden leaves its place to those in front of it.
LEMMA TakenAway ==
  ASSUME NEW c, Stacked(c), NEW s \in Windows, c.height[s] # Hidden
  PROVE  LET r == Updown(c, s, Hidden)
         IN  /\ Stacked(r) /\ SameBuffers(r, c) /\ SameHidden(r, c, s)
             /\ r.height[s] = Hidden
             /\ InOrder(r) = RemoveAt(InOrder(c), c.height[s])
             /\ Fitting => PaintedFrom(r, c)
<1> DEFINE old == c.height[s]
           r == Updown(c, s, Hidden)
           w == c.top - 1
           a == RemoveAt(InOrder(c), old)
<1>1. /\ c \in Ctls /\ Agrees(c) /\ c.top \in Int /\ c.top >= 1 /\ Sound(c) /\ s \in Ids
      /\ old \in 1 .. c.top - 1 /\ c.sheets[old] = s /\ c.sheets[c.top] = Mouse
  BY StackedFacts DEF Stacked, Windows
<1>2. /\ InOrder(c) \in Seq(Windows) /\ Len(InOrder(c)) = w
      /\ \A i \in 1 .. w : InOrder(c)[i] = c.sheets[i]
  BY OrderFacts
<1>3. /\ a \in Seq(Windows) /\ Len(a) = w - 1
      /\ \A i \in 1 .. w - 1 : a[i] = IF i < old THEN InOrder(c)[i] ELSE InOrder(c)[i + 1]
  <2>1. old \in 1 .. Len(InOrder(c))
    BY <1>1, <1>2
  <2>2. /\ a \in Seq(Windows) /\ Len(a) = Len(InOrder(c)) - 1
        /\ \A i \in 1 .. Len(InOrder(c)) - 1 :
             a[i] = IF i < old THEN InOrder(c)[i] ELSE InOrder(c)[i + 1]
    BY <1>2, <2>1, RemoveAtFacts
  <2> QED BY <1>2, <2>2
<1>4. w \in Int /\ old \in Int /\ 1 <= old /\ old <= w /\ c.top = w + 1
  BY <1>1
<1> HIDE DEF a, w
<1>5. /\ Sound(r) /\ SameBuffers(r, c)
      /\ \E d : HiddenIn(d, c, s) /\ LiesAs(r, d)
      /\ Fitting => PaintedFrom(r, c)
  BY <1>1, <1>4, HideSound
<1> HIDE DEF r
<1>6. /\ r.top = w
      /\ \A h \in 0 .. w : r.sheets[h] = IF h < old THEN c.sheets[h] ELSE c.sheets[h + 1]
      /\ \A t \in Ids :
           r.height[t] = IF t = s THEN Hidden
                         ELSE IF c.height[t] > old THEN c.height[t] - 1
                         ELSE c.height[t]
  BY <1>5 DEF HiddenIn, LiesAs, w
<1> HIDE DEF old
<1>7. Stacked(r)
  <2>1. w \in 0 .. w /\ ~(w < old) /\ w + 1 = c.top
    BY <1>4
  <2>2. r.sheets[w] = Mouse
    BY <1>1, <1>6, <2>1
  <2> QED BY <1>4, <1>5, <1>6, <2>2 DEF Stacked
<1>8. SameHidden(r, c, s)
  <2> SUFFICES ASSUME NEW t \in Ids, t # s
               PROVE  r.height[t] = Hidden <=> c.height[t] = Hidden
    BY DEF SameHidden
  <2>1. c.height[t] \in Int
    BY <1>1, CtlFields
  <2>2. r.height[t] = IF c.height[t] > old THEN c.height[t] - 1 ELSE c.height[t]
    BY <1>6
  <2> QED BY <1>4, <2>1, <2>2 DEF Hidden
<1>9. InOrder(r) = a
  <2>1. /\ InOrder(r) \in Seq(Windows) /\ Len(InOrder(r)) = w - 1
        /\ \A i \in 1 .. w - 1 : InOrder(r)[i] = r.sheets[i]
    BY <1>6, <1>7, OrderFacts
  <2>2. \A i \in 1 .. w - 1 : InOrder(r)[i] = a[i]
    <3> SUFFICES ASSUME NEW i \in 1 .. w - 1 PROVE r.sheets[i] = a[i]
      BY <2>1
    <3>1. i \in 0 .. w /\ i \in 1 .. w /\ i + 1 \in 1 .. w
      BY <1>4
    <3> QED BY <1>2, <1>3, <1>6, <3>1
  <2> QED BY <1>3, <2>1, <2>2, SeqEqual
<1>10. r.height[s] = Hidden
  BY <1>1, <1>6
<1> QED BY <1>5, <1>7, <1>8, <1>9, <1>10 DEF r, a, old

\* A sheet other than the background moves, and the order stays.
LEMMA Moved ==
  ASSUME NEW c, Stacked(c), NEW s \in Ids, s # Back, NEW x \in Int, NEW y \in Int
  PROVE  LET r == Slide(c, s, x, y)
         IN  /\ Stacked(r) /\ SameBuffers(r, c) /\ r.height = c.height
             /\ InOrder(r) = InOrder(c)
             /\ Fitting => PaintedFrom(r, c)
<1> DEFINE r == Slide(c, s, x, y)
<1>1. Sound(r) /\ SameBuffers(r, c) /\ LiesAs(r, c) /\ (Fitting => PaintedFrom(r, c))
  BY SlideSound DEF Stacked
<1> HIDE DEF r
<1>2. r.sheets = c.sheets /\ r.height = c.height /\ r.top = c.top
  BY <1>1 DEF LiesAs
<1> QED BY <1>1, <1>2 DEF Stacked, InOrder, r

\* A part of a window is painted again, and the order stays.
LEMMA Repaint ==
  ASSUME NEW c, Stacked(c), NEW s \in Windows, NEW b \in Areas, b.x0 < b.x1
  PROVE  LET r == Refresh(c, s, b)
         IN  /\ Stacked(r) /\ SameBuffers(r, c) /\ r.height = c.height
             /\ InOrder(r) = InOrder(c) /\ r.map = c.map /\ r.place = c.place
             /\ Fitting => /\ PaintedFrom(r, c)
                           /\ \A p \in Screen : c.map[p] = s /\ InArea(PartOf(c, s, b), p) =>
                                                  Current(r, p)
<1> DEFINE r == Refresh(c, s, b)
           a == PartOf(c, s, b)
           h == c.height[s]
<1>1. /\ c \in Ctls /\ Agrees(c) /\ c.top \in Int /\ s \in Ids /\ Sound(c)
  BY StackedFacts DEF Stacked, Windows
<1>2. CASE h >= 0
  <2>1. a \in Areas /\ a.x0 < a.x1
    <3>1. c.place[s].x \in Int /\ c.place[s].y \in Int
      BY <1>1, CtlFields
    <3>2. b.x0 \in Int /\ b.y0 \in Int /\ b.x1 \in Int /\ b.y1 \in Int
      BY DEF Areas
    <3> QED BY <3>1, <3>2 DEF PartOf, Area, Areas
  <2>2. h \in Nat /\ h \in Int /\ h <= c.top
    <3>1. h # Hidden
      BY <1>2 DEF Hidden
    <3>2. h \in 0 .. c.top
      BY <1>1, <3>1, AgreeFacts
    <3> QED BY <1>1, <3>2
  <2>3. r = RefreshSub(c, a, h, h)
    BY <1>2 DEF Refresh
  <2> HIDE DEF a, h
  <2>4. Sound(r) /\ SameSheets(r, c) /\ Repainted(r, c, a, h, h)
    BY <1>1, <2>1, <2>2, <2>3, PaintSound
  <2> HIDE DEF r
  <2>5. r.map = c.map /\ r.place = c.place
    BY <2>4 DEF Repainted, SameSheets
  <2>6. ASSUME Fitting, NEW p \in Screen
        PROVE  /\ SameAt(r, c, p) \/ Current(r, p)
               /\ c.map[p] = s /\ InArea(a, p) => Current(r, p)
    <3>1. c.map[p] \in Ids /\ Over(c, c.map[p], p)
      BY <1>1 DEF Sound, Right, Seen
    <3>2. h \in h .. h /\ c.sheets[h] = s
      <4>1. h # Hidden
        BY <1>2 DEF Hidden
      <4> QED BY <1>1, <2>2, <4>1, AgreeFacts DEF h
    <3> QED BY <1>1, <2>1, <2>4, <2>6, <3>1, <3>2, Renewed
  <2>7. /\ Stacked(r) /\ SameBuffers(r, c) /\ r.height = c.height /\ InOrder(r) = InOrder(c)
    BY <2>4 DEF Stacked, InOrder, SameSheets, SameBuffers
  <2> QED BY <2>5, <2>6, <2>7 DEF PaintedFrom, r, a
<1>3. CASE ~(h >= 0)
  <2>1. r = c
    BY <1>3 DEF Refresh
  <2>2. \A p \in Screen : c.map[p] # s
    <3>1. c.height[s] = Hidden
      BY <1>1, <1>3, AgreeFacts, CtlFields
    <3> QED BY <1>1, <3>1 DEF Sound, Right, Seen
  <2> QED BY <2>1, <2>2, PaintedAlready DEF SameBuffers
<1> QED BY <1>2, <1>3

\* When only buffers change, and sheets are taken into use or given back that are
\* hidden, the stack stays.
LEMMA MemoryOnly ==
  ASSUME NEW c, Stacked(c), NEW r \in Ctls,
         r.height = c.height, r.place = c.place, r.sheets = c.sheets, r.top = c.top,
         r.map = c.map, r.vram = c.vram,
         \A t \in Ids : c.height[t] # Hidden => r.used[t]
  PROVE  Stacked(r) /\ InOrder(r) = InOrder(c)
<1>1. \A t \in Ids, p \in Screen : Seen(r, t, p) = Seen(c, t, p)
  BY SeenSame
<1>2. \A p \in Screen : Right(c, p)
  BY DEF Stacked, Sound
<1>3. \A p \in Screen : Right(r, p)
  BY <1>1, <1>2 DEF Right
<1>4. Agrees(r) /\ BackSpread(r)
  BY DEF Stacked, Sound, Agrees, BackSpread
<1>5. Sound(r)
  BY <1>3, <1>4 DEF Stacked, Sound
<1> QED BY <1>5 DEF Stacked, InOrder

\* Drawing changes the buffer of one sheet.
LEMMA DrawnIn ==
  ASSUME NEW c, Stacked(c), NEW s \in Ids, NEW b, Box(s, b) \subseteq Int
  PROVE  LET r == Draw(c, s, b)
         IN  /\ Stacked(r) /\ r.used = c.used /\ r.height = c.height
             /\ r.map = c.map /\ r.vram = c.vram /\ r.place = c.place
             /\ r.buf = [c.buf EXCEPT ![s] = (c.buf[s] \ Box(s, b)) \union (Box(s, b) \ c.buf[s])]
             /\ InOrder(r) = InOrder(c)
<1> DEFINE r == Draw(c, s, b)
           n == (c.buf[s] \ Box(s, b)) \union (Box(s, b) \ c.buf[s])
<1>1. c \in Ctls /\ c.buf[s] \subseteq Int
  BY CtlFields DEF Stacked, Sound
<1>2. n \subseteq Int
  BY <1>1
<1>3. r = [c EXCEPT !.buf[s] = n]
  BY DEF Draw
<1> HIDE DEF n, r
<1>4. /\ r \in Ctls /\ r.used = c.used /\ r.height = c.height /\ r.place = c.place
      /\ r.sheets = c.sheets /\ r.top = c.top /\ r.map = c.map /\ r.vram = c.vram
      /\ r.buf = [c.buf EXCEPT ![s] = n]
  BY <1>1, <1>2, <1>3 DEF Ctls
<1>5. \A t \in Ids : c.height[t] # Hidden => r.used[t]
  BY <1>4 DEF Stacked, Sound
<1>6. Stacked(r) /\ InOrder(r) = InOrder(c)
  BY <1>4, <1>5, MemoryOnly
<1> QED BY <1>4, <1>6 DEF r, n

\* sheet_alloc and sheet_setbuf change these fields of the sheet.
LEMMA CreatedFacts ==
  ASSUME NEW c \in Ctls, NEW s \in Ids
  PROVE  LET r == Created(c, s)
         IN  /\ r \in Ctls /\ r.height = [c.height EXCEPT ![s] = Hidden] /\ r.place = c.place
             /\ r.sheets = c.sheets /\ r.top = c.top /\ r.map = c.map /\ r.vram = c.vram
             /\ r.used = [c.used EXCEPT ![s] = TRUE]
             /\ r.buf = [c.buf EXCEPT ![s] = {}]
<1> DEFINE u == [c.used EXCEPT ![s] = TRUE]
           h == [c.height EXCEPT ![s] = Hidden]
           f == [c.buf EXCEPT ![s] = {}]
           r == Created(c, s)
           d == SheetAlloc(c, s)
<1>1. /\ u \in [Ids -> BOOLEAN] /\ h \in [Ids -> Int] /\ f \in [Ids -> SUBSET Int]
  BY CtlFields DEF Hidden
<1>2. d = [c EXCEPT !.used = u, !.height = h]
  BY DEF SheetAlloc
<1>3. r = [d EXCEPT !.buf[s] = {}]
  BY DEF Created, Setbuf
<1> HIDE DEF u, h, r, d
<1>4. /\ d \in Ctls /\ d.used = u /\ d.height = h /\ d.place = c.place /\ d.buf = c.buf
      /\ d.sheets = c.sheets /\ d.top = c.top /\ d.map = c.map /\ d.vram = c.vram
  BY <1>1, <1>2 DEF Ctls
<1>5. r = [d EXCEPT !.buf = f]
  BY <1>3, <1>4
<1> HIDE DEF f
<1>6. /\ r \in Ctls /\ r.used = u /\ r.height = h /\ r.place = c.place /\ r.buf = f
      /\ r.sheets = c.sheets /\ r.top = c.top /\ r.map = c.map /\ r.vram = c.vram
  BY <1>1, <1>4, <1>5 DEF Ctls
<1> QED BY <1>6 DEF u, h, f, r

\* A sheet that is not in use is hidden; it is taken into use with a new buffer.
LEMMA TakenIntoUse ==
  ASSUME NEW c, Stacked(c), NEW s \in Ids, ~c.used[s]
  PROVE  /\ Stacked(Created(c, s)) /\ InOrder(Created(c, s)) = InOrder(c)
         /\ Created(c, s).height = c.height /\ c.height[s] = Hidden
         /\ Created(c, s).map = c.map /\ Created(c, s).vram = c.vram
         /\ Created(c, s).place = c.place
         /\ Created(c, s).used = [c.used EXCEPT ![s] = TRUE]
         /\ Created(c, s).buf = [c.buf EXCEPT ![s] = {}]
<1> DEFINE r == Created(c, s)
<1>1. c \in Ctls /\ c.height[s] = Hidden /\ Hidden \in Int
  BY DEF Stacked, Sound, Hidden
<1>2. /\ r \in Ctls /\ r.height = [c.height EXCEPT ![s] = Hidden] /\ r.place = c.place
      /\ r.sheets = c.sheets /\ r.top = c.top /\ r.map = c.map /\ r.vram = c.vram
      /\ r.used = [c.used EXCEPT ![s] = TRUE]
      /\ r.buf = [c.buf EXCEPT ![s] = {}]
  BY <1>1, CreatedFacts, Zenon
<1> HIDE DEF r
<1>3. r.height = c.height
  <2>1. c.height \in [Ids -> Int]
    BY <1>1, CtlFields
  <2>2. [c.height EXCEPT ![s] = Hidden] = c.height
    BY <1>1, <2>1
  <2> QED BY <1>2, <2>2
<1>4. \A t \in Ids : c.height[t] # Hidden => r.used[t]
  BY <1>1, <1>2, CtlFields DEF Stacked, Sound
<1>5. Stacked(r) /\ InOrder(r) = InOrder(c)
  BY <1>2, <1>3, <1>4, MemoryOnly
<1> QED BY <1>1, <1>2, <1>3, <1>5 DEF r

\* A window is hidden and given back.
LEMMA Freed ==
  ASSUME NEW c, Stacked(c), NEW s \in Windows
  PROVE  LET r == SheetFree(c, s)
         IN  /\ Stacked(r) /\ SameHidden(r, c, s) /\ r.buf = c.buf
             /\ \A t \in Ids : t # s => r.used[t] = c.used[t]
             /\ InOrder(r) = IF c.height[s] # Hidden THEN RemoveAt(InOrder(c), c.height[s])
                             ELSE InOrder(c)
             /\ Fitting => PaintedFrom(r, c)
<1> DEFINE m == IF c.height[s] >= 0 THEN Updown(c, s, Hidden) ELSE c
           r == SheetFree(c, s)
<1>1. s \in Ids /\ c.height[s] \in Int
  BY StackedFacts, CtlFields DEF Windows
<1>2. /\ Stacked(m) /\ SameBuffers(m, c) /\ SameHidden(m, c, s) /\ m.height[s] = Hidden
      /\ InOrder(m) = IF c.height[s] # Hidden THEN RemoveAt(InOrder(c), c.height[s])
                      ELSE InOrder(c)
      /\ Fitting => PaintedFrom(m, c)
  <2>1. CASE c.height[s] >= 0
    <3>1. c.height[s] # Hidden /\ m = Updown(c, s, Hidden)
      BY <2>1 DEF Hidden
    <3> QED BY <3>1, TakenAway
  <2>2. CASE ~(c.height[s] >= 0)
    <3>1. c.height[s] = Hidden
      <4> SUFFICES ASSUME c.height[s] # Hidden PROVE FALSE
        OBVIOUS
      <4>1. c.height[s] \in 1 .. c.top - 1
        BY StackedFacts
      <4> QED BY <2>2, <4>1
    <3> QED BY <2>2, <3>1, PaintedAlready DEF SameBuffers, SameHidden
  <2> QED BY <2>1, <2>2
<1>3. r = [m EXCEPT !.used[s] = FALSE]
  BY DEF SheetFree
<1> HIDE DEF m, r
<1>4. m \in Ctls
  BY <1>2 DEF Stacked, Sound
<1>5. /\ r \in Ctls /\ r.height = m.height /\ r.place = m.place
      /\ r.sheets = m.sheets /\ r.top = m.top /\ r.map = m.map /\ r.vram = m.vram
      /\ r.used = [m.used EXCEPT ![s] = FALSE] /\ r.buf = m.buf
  BY <1>3, <1>4 DEF Ctls
<1>6. \A t \in Ids : m.height[t] # Hidden => r.used[t]
  BY <1>2, <1>4, <1>5, CtlFields DEF Stacked, Sound
<1>7. Stacked(r) /\ InOrder(r) = InOrder(m)
  BY <1>2, <1>5, <1>6, MemoryOnly
<1>8. \A t \in Ids : t # s => r.used[t] = c.used[t]
  BY <1>2, <1>4, <1>5, CtlFields DEF SameBuffers
<1>9. Fitting => PaintedFrom(r, c)
  BY <1>2, <1>5, PaintedAlready, PaintedTwice
<1> QED BY <1>2, <1>5, <1>7, <1>8, <1>9 DEF r, SameBuffers, SameHidden

-----------------------------------------------------------------------------
(* The invariant. *)

\* The indices of a buffer.
Inside(s) == 0 .. Width[s] * Height[s] - 1

\* Buffers are drawn in up to their ends.
Bounded(c, d) ==
    /\ d \in [Ids -> SUBSET Int]
    /\ \A s \in Ids : c.buf[s] \subseteq Inside(s) /\ d[s] \subseteq Inside(s)

\* The windows being opened are in use and hidden.
Opened(c, o) == o \subseteq Windows /\ \A s \in o : c.used[s] /\ c.height[s] = Hidden

\* What the screen shows at p is the pixel of the sheet that lies there, and was
\* drawn since: it is still to be refreshed.
Owed(c, d, p) ==
    LET s == c.map[p]
        i == IndexAt(c, s, p)
    IN  i \in d[s] /\ c.vram[p][1] = s /\ c.vram[p][2] = i

\* The screen is up to date but for what is still to be refreshed.
Shown(c, d) == \A p \in Screen : Current(c, p) \/ Owed(c, d, p)

IInv ==
    /\ Stacked(ctl)
    /\ Bounded(ctl, dirty)
    /\ Opened(ctl, opening)
    /\ grabbed \in Windows \union {NoSheet}
    /\ Fitting => Shown(ctl, dirty)

\* What is up to date, or owed and not forgotten, remains so where nothing changes.
LEMMA OwedStays ==
  ASSUME NEW c, NEW r, NEW d, NEW e, NEW p, Current(c, p) \/ Owed(c, d, p), SameAt(r, c, p),
         IndexAt(c, c.map[p], p) \in d[c.map[p]] => IndexAt(c, c.map[p], p) \in e[c.map[p]]
  PROVE  Current(r, p) \/ Owed(r, e, p)
<1>1. CASE Current(c, p)
  BY <1>1, SameCurrent
<1>2. CASE Owed(c, d, p)
  <2>1. r.map[p] = c.map[p] /\ r.vram[p] = c.vram[p]
    BY DEF SameAt
  <2>2. IndexAt(r, c.map[p], p) = IndexAt(c, c.map[p], p)
    BY DEF SameAt, IndexAt
  <2> QED BY <1>2, <2>1, <2>2 DEF Owed
<1> QED BY <1>1, <1>2

\* Calls that draw in no buffer forget nothing.
LEMMA ShownKept ==
  ASSUME NEW c, NEW r, NEW d, PaintedFrom(r, c), Shown(c, d)
  PROVE  Shown(r, d)
<1> SUFFICES ASSUME NEW p \in Screen PROVE Current(r, p) \/ Owed(r, d, p)
  BY DEF Shown
<1>1. SameAt(r, c, p) \/ Current(r, p)
  BY DEF PaintedFrom
<1>2. Current(c, p) \/ Owed(c, d, p)
  BY DEF Shown
<1> QED BY <1>1, <1>2, OwedStays

\* A box of a window has indices inside its buffer.
LEMMA BoxInside ==
  ASSUME NEW s \in Windows, NEW b \in Boxes[s]
  PROVE  b \in Areas /\ b.x0 < b.x1 /\ Box(s, b) \subseteq Inside(s) /\ Inside(s) \subseteq Int
<1>1. s \in Ids /\ Width[s] \in Nat \ {0} /\ Height[s] \in Nat \ {0}
  BY Sizes DEF Windows
<1>2. /\ b \in Areas /\ b.x0 < b.x1 /\ 0 <= b.x0
      /\ b.x1 <= Width[s] /\ 0 <= b.y0 /\ b.y1 <= Height[s]
  BY DesktopAssumption DEF Areas
<1>3. b.x0 \in Int /\ b.x1 \in Int /\ b.y0 \in Int /\ b.y1 \in Int
  BY <1>2 DEF Areas
<1>4. ASSUME NEW x \in b.x0 .. b.x1 - 1, NEW y \in b.y0 .. b.y1 - 1
      PROVE  Index(s, x, y) \in Inside(s)
  <2>1. x \in 0 .. Width[s] - 1 /\ y \in 0 .. Height[s] - 1
    BY <1>1, <1>2, <1>3
  <2> QED BY <1>1, <2>1, IndexInside DEF Index, Inside
<1>5. Inside(s) \subseteq Int
  BY DEF Inside
<1> QED BY <1>2, <1>4, <1>5 DEF Box

\* A pixel of a box that shows at p lies there in the area of the box.
LEMMA BoxTells ==
  ASSUME NEW c \in Ctls, NEW s \in Windows, NEW b \in Boxes[s], NEW p \in Screen,
         Over(c, s, p), IndexAt(c, s, p) \in Box(s, b)
  PROVE  InArea(PartOf(c, s, b), p)
<1> DEFINE px == c.place[s].x
           py == c.place[s].y
           u == Column(p)
           v == Line(p)
           w == Width[s]
<1>1. /\ s \in Ids /\ px \in Int /\ py \in Int /\ w \in Nat \ {0} /\ u \in Int /\ v \in Int
  BY CtlFields, ScreenAddress, Sizes DEF Windows
<1>2. /\ b \in Areas /\ 0 <= b.x0 /\ b.x1 <= w
  BY DesktopAssumption DEF Areas
<1>3. b.x0 \in Int /\ b.x1 \in Int /\ b.y0 \in Int /\ b.y1 \in Int
  BY <1>2 DEF Areas
<1>4. PICK x \in b.x0 .. b.x1 - 1, y \in b.y0 .. b.y1 - 1 :
         Index(s, u - px, v - py) = Index(s, x, y)
  BY DEF Box, IndexAt
<1>5. u - px \in 0 .. w - 1 /\ v - py \in Int
  BY <1>1 DEF Over
<1>6. Index(s, u - px, v - py) = (v - py) * w + (u - px) /\ Index(s, x, y) = y * w + x
  BY DEF Index
<1>7. x \in 0 .. w - 1 /\ x \in Int /\ y \in Int
  BY <1>1, <1>2, <1>3
<1> DEFINE k == u - px
           l == v - py
<1>8. /\ k \in Int /\ l \in Int /\ x \in Int /\ y \in Int /\ k \in 0 .. w - 1
      /\ l * w + k = y * w + x
  BY <1>1, <1>4, <1>5, <1>6, <1>7
<1>9. k = x /\ l = y
  <2> HIDE DEF k, l, w
  <2> QED BY <1>1, <1>7, <1>8, AddressTells
<1>10. /\ u \in px + b.x0 .. px + b.x1 - 1
       /\ v \in py + b.y0 .. py + b.y1 - 1
  <2>1. u = px + x /\ v = py + y
    <3> HIDE DEF px, py, u, v
    <3> QED BY <1>1, <1>7, <1>9
  <2>2. x \in b.x0 .. b.x1 - 1 /\ y \in b.y0 .. b.y1 - 1
    OBVIOUS
  <2> HIDE DEF px, py, u, v, k, l
  <2> QED BY <1>1, <1>3, <1>7, <2>1, <2>2
<1> DEFINE a == PartOf(c, s, b)
<1>11. a.x0 = px + b.x0 /\ a.x1 = px + b.x1 /\ a.y0 = py + b.y0 /\ a.y1 = py + b.y1
  BY DEF PartOf, Area
<1> HIDE DEF a
<1>12. InArea(a, p)
  BY <1>1, <1>3, <1>10, <1>11 DEF InArea
<1> QED BY <1>12 DEF a

\* What map and the heights say in the invariant is what the properties say.
LEMMA TopmostIs ==
  ASSUME NEW p \in Screen, Stacked(ctl)
  PROVE  ctl.map[p] = TopmostAt(p)
<1>1. ctl \in Ctls /\ Agrees(ctl) /\ Right(ctl, p)
  BY DEF Stacked, Sound
<1>2. \A s \in Ids : IndicesAt(s, p) \ Clear[s] # {} <=> Over(ctl, s, p)
  <2> SUFFICES ASSUME NEW s \in Ids
               PROVE  IndicesAt(s, p) \ Clear[s] # {} <=> Over(ctl, s, p)
    OBVIOUS
  <2> DEFINE x == Column(p) - ctl.place[s].x
             y == Line(p) - ctl.place[s].y
  <2>1. \A i : i \in IndicesAt(s, p) <=>
          x \in 0 .. Width[s] - 1 /\ y \in 0 .. Height[s] - 1 /\ i = Index(s, x, y)
    BY DEF IndicesAt
  <2> QED BY <2>1 DEF Over
<1>3. \A s \in Ids : s \in SeenAt(p) <=> Seen(ctl, s, p)
  BY <1>2 DEF SeenAt, Seen
<1>4. SeenAt(p) \subseteq Ids
  BY DEF SeenAt
<1> DEFINE u == ctl.map[p]
<1>5. u \in SeenAt(p) /\ \A t \in SeenAt(p) : ctl.height[t] <= ctl.height[u]
  BY <1>1, <1>3, <1>4 DEF Right
<1>6. \A v \in SeenAt(p) :
        (\A t \in SeenAt(p) : ctl.height[t] <= ctl.height[v]) => v = u
  <2> SUFFICES ASSUME NEW v \in SeenAt(p),
                      \A t \in SeenAt(p) : ctl.height[t] <= ctl.height[v]
               PROVE  v = u
    OBVIOUS
  <2>1. u \in Ids /\ v \in Ids /\ ctl.height[u] # Hidden /\ ctl.height[v] # Hidden
    BY <1>3, <1>4, <1>5 DEF Seen
  <2>2. ctl.height[u] \in Int /\ ctl.height[v] \in Int
    BY <1>1, <2>1, CtlFields
  <2>3. ctl.height[u] = ctl.height[v]
    BY <1>5, <2>2
  <2> QED BY <1>1, <2>1, <2>3, AgreeFacts
<1> HIDE DEF u
<1>7. TopmostAt(p) = u
  BY <1>5, <1>6 DEF TopmostAt
<1> QED BY <1>7 DEF u

\* The invariant holds the properties.
LEMMA IInvImplies ==
  ASSUME IInv
  PROVE  TypeOK /\ StackAgrees /\ WindowsBetween /\ MapIsTopmost
<1>1. Stacked(ctl) /\ Sound(ctl) /\ ctl \in Ctls /\ Agrees(ctl)
  BY DEF IInv, Stacked, Sound
<1>2. /\ ctl.top \in Int /\ ctl.top >= 1 /\ ctl.top \in Ids
      /\ ctl.sheets[0] = Back /\ ctl.sheets[ctl.top] = Mouse
  BY <1>1, StackedFacts
<1>3. ctl.height \in [Ids -> Ids \union {Hidden}]
  <2>1. \A s \in Ids : ctl.height[s] \in Ids \union {Hidden}
    <3> SUFFICES ASSUME NEW s \in Ids, ctl.height[s] # Hidden PROVE ctl.height[s] \in Ids
      OBVIOUS
    <3>1. ctl.height[s] \in 0 .. ctl.top
      BY <1>1, AgreeFacts
    <3> QED BY <1>1, <3>1, AgreeFacts
  <2> QED BY <1>1, <2>1, CtlFields
<1>4. ctl.map \in [Screen -> Ids]
  <2>1. \A p \in Screen : ctl.map[p] \in Ids
    BY <1>1 DEF Sound, Right
  <2> QED BY <1>1, <2>1, CtlFields
<1>5. TypeOK
  <2>1. /\ ctl.used \in [Ids -> BOOLEAN] /\ ctl.sheets \in [Ids -> Ids \union {NoSheet}]
    BY <1>1, CtlFields
  <2>2. \A p \in Screen : ctl.vram[p] \in Ids \X Int \X BOOLEAN
    BY <1>1 DEF Sound, Pixels
  <2>3. \A s \in Ids : /\ ctl.buf[s] \subseteq 0 .. Width[s] * Height[s] - 1
                       /\ dirty[s] \subseteq 0 .. Width[s] * Height[s] - 1
    BY DEF IInv, Bounded, Inside
  <2>4. opening \subseteq Windows /\ grabbed \in Windows \union {NoSheet}
    BY DEF IInv, Opened
  <2> QED BY <1>2, <1>3, <1>4, <2>1, <2>2, <2>3, <2>4 DEF TypeOK
<1>6. StackAgrees
  <2>1. \A h \in 0 .. ctl.top : ctl.height[ctl.sheets[h]] = h
    BY <1>1, AgreeFacts
  <2>2. \A s \in Ids : ctl.height[s] # Hidden =>
          ctl.used[s] /\ ctl.height[s] <= ctl.top /\ ctl.sheets[ctl.height[s]] = s
    <3> SUFFICES ASSUME NEW s \in Ids, ctl.height[s] # Hidden
                 PROVE  ctl.used[s] /\ ctl.height[s] <= ctl.top /\ ctl.sheets[ctl.height[s]] = s
      OBVIOUS
    <3>1. ctl.height[s] \in 0 .. ctl.top /\ ctl.sheets[ctl.height[s]] = s
      BY <1>1, AgreeFacts
    <3>2. ctl.used[s]
      BY <1>1 DEF Sound
    <3> QED BY <1>2, <3>1, <3>2
  <2> QED BY <2>1, <2>2 DEF StackAgrees
<1>7. WindowsBetween
  BY <1>2 DEF WindowsBetween
<1>8. MapIsTopmost
  BY <1>1, TopmostIs DEF MapIsTopmost
<1> QED BY <1>5, <1>6, <1>7, <1>8

\* If the sheets fit, so does what it says of the screen.
LEMMA ScreenImplied ==
  ASSUME IInv, Fitting
  PROVE  ScreenIsRight
<1> SUFFICES ASSUME NEW p \in Screen
             PROVE  LET s == TopmostAt(p)
                        i == CHOOSE i \in IndicesAt(s, p) : TRUE
                    IN  \/ ctl.vram[p] = Pixel(ctl, s, i)
                        \/ i \in dirty[s] /\ <<ctl.vram[p][1], ctl.vram[p][2]>> = <<s, i>>
  BY DEF ScreenIsRight
<1> DEFINE s == ctl.map[p]
           i == IndexAt(ctl, s, p)
<1>1. Stacked(ctl) /\ s = TopmostAt(p)
  BY TopmostIs DEF IInv
<1>2. Over(ctl, s, p)
  BY <1>1 DEF Stacked, Sound, Right, Seen
<1>3. i = CHOOSE j \in IndicesAt(s, p) : TRUE
  <2>1. \A j : j \in IndicesAt(s, p) <=> j = i
    BY <1>2 DEF IndicesAt, IndexAt, Over
  <2> HIDE DEF i
  <2> QED BY <2>1
<1>4. Current(ctl, p) \/ Owed(ctl, dirty, p)
  BY DEF IInv, Shown
<1>5. \/ ctl.vram[p] = Pixel(ctl, s, i)
      \/ i \in dirty[s] /\ ctl.vram[p][1] = s /\ ctl.vram[p][2] = i
  BY <1>4 DEF Current, Owed
<1> HIDE DEF s, i
<1> QED BY <1>1, <1>3, <1>5

-----------------------------------------------------------------------------
(* Boot. *)

\* Nothing is shown yet.
Fresh(c) ==
    /\ c \in Ctls /\ c.top = -1
    /\ \A t \in Ids : c.height[t] = Hidden /\ c.buf[t] = {}

\* Sheets may be taken into use then.
LEMMA FreshCreated ==
  ASSUME NEW c, Fresh(c), NEW s \in Ids
  PROVE  /\ Fresh(Created(c, s)) /\ Created(c, s).place = c.place
         /\ Created(c, s).used = [c.used EXCEPT ![s] = TRUE]
<1> DEFINE r == Created(c, s)
<1>1. c \in Ctls /\ Hidden \in Int
  BY DEF Fresh, Hidden
<1>2. /\ r \in Ctls /\ r.height = [c.height EXCEPT ![s] = Hidden] /\ r.place = c.place
      /\ r.top = c.top /\ r.used = [c.used EXCEPT ![s] = TRUE]
      /\ r.buf = [c.buf EXCEPT ![s] = {}]
  BY <1>1, CreatedFacts, Zenon
<1> HIDE DEF r
<1>3. \A t \in Ids : r.height[t] = Hidden /\ r.buf[t] = {}
  BY <1>1, <1>2, CtlFields DEF Fresh
<1>4. Fresh(r)
  BY <1>2, <1>3 DEF Fresh
<1> QED BY <1>2, <1>4 DEF r

\* And put at their places.
LEMMA FreshPlaced ==
  ASSUME NEW c, Fresh(c), NEW s \in Ids, NEW x \in Int, NEW y \in Int
  PROVE  /\ Fresh(Slide(c, s, x, y)) /\ Slide(c, s, x, y).used = c.used
         /\ Slide(c, s, x, y).place = [c.place EXCEPT ![s] = At(x, y)]
<1> DEFINE r == Slide(c, s, x, y)
<1>1. c \in Ctls /\ c.height[s] < 0
  BY DEF Fresh, Hidden
<1>2. r = [c EXCEPT !.place[s] = At(x, y)]
  BY <1>1 DEF Slide
<1> HIDE DEF r
<1>3. /\ r \in Ctls /\ r.height = c.height /\ r.buf = c.buf /\ r.top = c.top /\ r.used = c.used
      /\ r.place = [c.place EXCEPT ![s] = At(x, y)]
  BY <1>1, <1>2 DEF Ctls, At
<1>4. Fresh(r)
  BY <1>3 DEF Fresh
<1> QED BY <1>3, <1>4 DEF r

\* The background is shown first, and covers the whole screen.
LEMMA BackShown ==
  ASSUME NEW c, Fresh(c), c.used[Back], BackSpread(c)
  PROVE  LET r == Updown(c, Back, 0)
         IN  /\ Sound(r) /\ SameBuffers(r, c) /\ r.top = 0
             /\ \A t \in Ids : t # Back => r.height[t] = Hidden
             /\ Fitting => \A p \in Screen : Current(r, p)
<1> DEFINE told == [c EXCEPT !.height[Back] = 0]
           d == [Seated(Shifted(told, 0 + 1, told.top + 1, -1), Back, 0) EXCEPT !.top = @ + 1]
           a == Whole(told, Back)
           m == RefreshMap(d, a, 0)
           r == RefreshSub(m, a, 0, 0)
<1>1. /\ c \in Ctls /\ c.top = -1 /\ c.height[Back] = Hidden
      /\ Back \in Ids /\ c.top + 1 = 0 /\ c.top + 1 < MaxSheets /\ 0 \in 0 .. c.top + 1
  BY Sizes DEF Fresh
<1>2. Agrees(c)
  BY <1>1, Sizes DEF Fresh, Agrees
<1>3. ShownIn(d, c, Back, 0)
  BY <1>1, <1>2, PutInMove
<1>4. Updown(c, Back, 0) = r
  <2>1. 0 \in -1 .. c.top + 1 /\ Hidden < 0
    BY <1>1 DEF Hidden
  <2>2. Updown(c, Back, 0) = PutIn(told, Back, 0)
    BY <1>1, <1>2, <2>1, UpdownCases
  <2> QED BY <2>2 DEF PutIn
<1>5. told.place = c.place
  BY <1>1 DEF Ctls
<1> HIDE DEF told, d
<1>6. /\ d \in Ctls /\ Agrees(d) /\ d.top = 0 /\ d.used = c.used /\ d.place = c.place
      /\ d.buf = c.buf /\ d.map = c.map /\ d.vram = c.vram
      /\ d.sheets[0] = Back /\ d.height[Back] = 0
      /\ \A t \in Ids : t # Back => d.height[t] = Hidden
  <2>1. \A t \in Ids : ~(c.height[t] >= 0) /\ c.height[t] = Hidden
    BY DEF Fresh, Hidden
  <2> QED BY <1>1, <1>3, <2>1 DEF ShownIn, SamePixels
<1>7. a = Whole(d, Back) /\ a \in Areas /\ a.x0 < a.x1 /\ BackSpread(d) /\ d.height[Back] # Hidden
  <2>1. Whole(told, Back) = Whole(d, Back)
    BY <1>5, <1>6, WholeSame
  <2> QED BY <1>1, <1>6, <2>1, WholeFacts DEF BackSpread, Hidden
<1> HIDE DEF a
<1>8. Remapped(m, d, a, 0)
  <2>1. \A h \in 0 .. d.top : d.sheets[h] \in Ids
    BY <1>6, AgreeFacts
  <2> QED BY <1>6, <1>7, <2>1, MapFacts
<1> HIDE DEF m
<1>9. m \in Ctls /\ SameSheets(m, d) /\ m.vram = d.vram
  BY <1>8 DEF Remapped
<1>10. \A p \in Screen : InArea(a, p) /\ Over(d, Back, p) /\ Right(m, p)
  <2> SUFFICES ASSUME NEW p \in Screen PROVE InArea(a, p) /\ Over(d, Back, p) /\ Right(m, p)
    OBVIOUS
  <2>1. InArea(a, p) /\ Over(d, Back, p)
    BY <1>6, <1>7, BackSeen
  <2> QED BY <1>6, <1>7, <1>8, <2>1, BaseMap
<1>11. /\ m.height = d.height /\ m.top = 0 /\ m.sheets = d.sheets /\ m.place = d.place
       /\ m.used = c.used /\ m.buf = c.buf
  BY <1>6, <1>9 DEF SameSheets
<1>12. \A p \in Screen : m.map[p] = Back /\ Over(m, Back, p)
  <2> SUFFICES ASSUME NEW p \in Screen PROVE m.map[p] = Back /\ Over(m, Back, p)
    OBVIOUS
  <2>1. Right(m, p) /\ Over(d, Back, p)
    BY <1>10
  <2> QED BY <1>6, <1>11, <2>1 DEF Right, Seen, Over
<1>13. Repainted(r, m, a, 0, 0)
  <2>1. \A h \in 0 .. 0 : m.sheets[h] \in Ids
    BY <1>1, <1>6, <1>11
  <2> QED BY <1>7, <1>9, <2>1, SubFacts
<1> HIDE DEF r
<1>14. /\ r \in Ctls /\ r.map = m.map /\ r.height = d.height /\ r.top = 0 /\ r.sheets = d.sheets
       /\ r.place = d.place /\ r.used = c.used /\ r.buf = c.buf
  BY <1>11, <1>13 DEF Repainted, SameSheets
<1>15. \A p \in Screen : r.vram[p] \in Pixels
  <2> SUFFICES ASSUME NEW p \in Screen PROVE r.vram[p] \in Pixels
    OBVIOUS
  <2>1. 0 \in 0 .. 0 /\ m.map[p] = m.sheets[0] /\ InArea(a, p) /\ Over(m, m.sheets[0], p)
    BY <1>6, <1>10, <1>11, <1>12
  <2> QED BY <1>7, <1>9, <1>13, <2>1, DrawnPixel DEF Repainted
<1>16. \A p \in Screen : Right(r, p)
  <2>1. \A t \in Ids, p \in Screen : Seen(r, t, p) = Seen(m, t, p)
    BY <1>11, <1>14, SeenSame
  <2> QED BY <1>10, <1>11, <1>14, <2>1 DEF Right
<1>17. Sound(r)
  <2>1. Agrees(r) /\ BackSpread(r) /\ r.top >= 0 /\ r.sheets[0] = Back
    BY <1>6, <1>7, <1>14 DEF Agrees, BackSpread
  <2>2. \A t \in Ids : r.height[t] # Hidden => r.used[t]
    BY <1>6, <1>14
  <2> QED BY <1>14, <1>15, <1>16, <2>1, <2>2 DEF Sound
<1>18. ASSUME Fitting, NEW p \in Screen PROVE Current(r, p)
  <2>1. 0 \in 0 .. 0 /\ m.map[p] = m.sheets[0] /\ InArea(a, p)
    BY <1>6, <1>10, <1>11, <1>12
  <2>2. m.map[p] \in Ids /\ Over(m, m.map[p], p)
    BY <1>1, <1>12
  <2> QED BY <1>7, <1>9, <1>13, <1>18, <2>1, <2>2, Renewed
<1> QED BY <1>4, <1>6, <1>14, <1>17, <1>18 DEF SameBuffers

\* A sheet shown on top of all lies there, and the others stay.
LEMMA ShownOnTop ==
  ASSUME NEW c, Sound(c), NEW s \in Ids, c.height[s] = Hidden, c.used[s]
  PROVE  LET r == Updown(c, s, c.top + 1)
         IN  /\ Sound(r) /\ SameBuffers(r, c) /\ r.top = c.top + 1
             /\ r.sheets[r.top] = s
             /\ \A h \in 0 .. c.top : r.sheets[h] = c.sheets[h]
             /\ SameHidden(r, c, s)
             /\ Fitting => PaintedFrom(r, c)
<1> DEFINE w == c.top + 1
           r == Updown(c, s, w)
<1>1. c \in Ctls /\ Agrees(c) /\ c.top \in Int /\ c.top >= 0
  BY CtlFields DEF Sound
<1>2. w < MaxSheets /\ w \in 1 .. c.top + 1
  BY <1>1, RoomForOne
<1> HIDE DEF w
<1>3. /\ Sound(r) /\ SameBuffers(r, c)
      /\ \E d : ShownIn(d, c, s, w) /\ LiesAs(r, d)
      /\ Fitting => PaintedFrom(r, c)
  BY <1>2, ShowSound DEF w
<1> HIDE DEF r
<1>4. /\ r.top = c.top + 1
      /\ \A h \in 0 .. c.top + 1 :
           r.sheets[h] = IF h < w THEN c.sheets[h] ELSE IF h = w THEN s ELSE c.sheets[h - 1]
      /\ \A t \in Ids :
           r.height[t] = IF t = s THEN w ELSE IF c.height[t] >= w THEN c.height[t] + 1
                         ELSE c.height[t]
  BY <1>3 DEF ShownIn, LiesAs
<1>5. r.sheets[r.top] = s
  BY <1>1, <1>4 DEF w
<1>6. \A h \in 0 .. c.top : r.sheets[h] = c.sheets[h]
  <2> SUFFICES ASSUME NEW h \in 0 .. c.top PROVE r.sheets[h] = c.sheets[h]
    OBVIOUS
  <2>1. h \in 0 .. c.top + 1 /\ h < w
    BY <1>1 DEF w
  <2> QED BY <1>4, <2>1
<1>7. SameHidden(r, c, s)
  <2> SUFFICES ASSUME NEW t \in Ids, t # s
               PROVE  r.height[t] = Hidden <=> c.height[t] = Hidden
    BY DEF SameHidden
  <2>1. c.height[t] \in Int
    BY <1>1, CtlFields
  <2>2. r.height[t] = IF c.height[t] >= w THEN c.height[t] + 1 ELSE c.height[t]
    BY <1>4
  <2> QED BY <1>1, <2>1, <2>2 DEF Hidden, w
<1> QED BY <1>3, <1>4, <1>5, <1>6, <1>7 DEF r, w

\* HariMain's first three sheets make up a stack.
LEMMA BootStacked ==
  /\ Stacked(Booted) /\ \A s \in Ids : Booted.buf[s] = {}
  /\ InOrder(Booted) = <<Console>>
  /\ Fitting => \A p \in Screen : Current(Booted, p)
<1> DEFINE c0 == ShtctlInit
           c1 == Created(c0, Back)
           c2 == Created(c1, Console)
           c3 == Created(c2, Mouse)
           c4 == Slide(c3, Back, 0, 0)
           u == CHOOSE at \in Places[Console] : TRUE
           v == CHOOSE at \in Places[Mouse] : TRUE
           ux == u.x
           uy == u.y
           vx == v.x
           vy == v.y
           c5 == Slide(c4, Console, ux, uy)
           c6 == Slide(c5, Mouse, vx, vy)
           c7 == Updown(c6, Back, 0)
           c8 == Updown(c7, Console, 1)
           c9 == Updown(c8, Mouse, 2)
<1>1. Booted = c9
  BY DEF Booted
<1>2. /\ Back \in Ids /\ Console \in Ids /\ Mouse \in Ids
      /\ Back # Console /\ Back # Mouse /\ Console # Mouse /\ 0 \in Int
  BY Sizes DEF Back, Console, Mouse
<1>3. ux \in Int /\ uy \in Int /\ vx \in Int /\ vy \in Int
  <2>1. u \in [x : Int, y : Int] /\ v \in [x : Int, y : Int]
    <3>1. Console \in Ids \ {Back} /\ Mouse \in Ids \ {Back}
      BY <1>2
    <3>2. /\ Places[Console] # {} /\ Places[Console] \subseteq [x : Int, y : Int]
          /\ Places[Mouse] # {} /\ Places[Mouse] \subseteq [x : Int, y : Int]
      BY <3>1, DesktopAssumption
    <3>3. u \in Places[Console] /\ v \in Places[Mouse]
      BY <3>2
    <3> QED BY <3>2, <3>3
  <2> QED BY <2>1
<1> HIDE DEF ux, uy, vx, vy
<1>4. Fresh(c0)
  <2>1. Hidden \in Int /\ NoSheet \in Int /\ 0 \in Int
    BY DEF Hidden, NoSheet
  <2>2. [p \in Screen |-> <<NoSheet, 0, FALSE>>] \in [Screen -> Int \X Int \X BOOLEAN]
    BY <2>1
  <2>3. [s \in Ids |-> At(0, 0)] \in [Ids -> [x : Int, y : Int]]
    BY DEF At
  <2>4. c0 \in Ctls
    <3> DEFINE vr == [p \in Screen |-> <<NoSheet, 0, FALSE>>]
               pl == [s \in Ids |-> At(0, 0)]
               us == [s \in Ids |-> FALSE]
               he == [s \in Ids |-> Hidden]
               bu == [s \in Ids |-> {}]
               sh == [h \in Ids |-> NoSheet]
               ma == [p \in Screen |-> NoSheet]
    <3>1. /\ vr \in [Screen -> Int \X Int \X BOOLEAN] /\ pl \in [Ids -> [x : Int, y : Int]]
      BY <2>2, <2>3
    <3>2. us \in [Ids -> BOOLEAN] /\ he \in [Ids -> Int] /\ bu \in [Ids -> SUBSET Int]
      BY <2>1
    <3>3. sh \in [Ids -> Ids \union {NoSheet}] /\ ma \in [Screen -> Int]
      BY <2>1
    <3>4. c0 = [used |-> us, height |-> he, place |-> pl, buf |-> bu, sheets |-> sh,
                top |-> -1, map |-> ma, vram |-> vr]
      BY DEF ShtctlInit
    <3> HIDE DEF vr, pl, us, he, bu, sh, ma, c0
    <3> QED BY <3>1, <3>2, <3>3, <3>4 DEF Ctls
  <2>5. c0.top = -1 /\ \A t \in Ids : c0.height[t] = Hidden /\ c0.buf[t] = {}
    BY DEF ShtctlInit
  <2> QED BY <2>4, <2>5 DEF Fresh
<1> HIDE DEF c0
<1>5. Fresh(c1) /\ c1.used = [c0.used EXCEPT ![Back] = TRUE]
  BY <1>2, <1>4, FreshCreated
<1> HIDE DEF c1
<1>6. Fresh(c2) /\ c2.used = [c1.used EXCEPT ![Console] = TRUE]
  BY <1>2, <1>5, FreshCreated
<1> HIDE DEF c2
<1>7. Fresh(c3) /\ c3.used = [c2.used EXCEPT ![Mouse] = TRUE]
  BY <1>2, <1>6, FreshCreated
<1> HIDE DEF c3
<1>8. c3.used[Back] /\ c3.used[Console] /\ c3.used[Mouse]
  <2>1. /\ c0.used \in [Ids -> BOOLEAN] /\ c1.used \in [Ids -> BOOLEAN]
        /\ c2.used \in [Ids -> BOOLEAN] /\ c3.place \in [Ids -> [x : Int, y : Int]]
    BY <1>4, <1>5, <1>6, <1>7, CtlFields DEF Fresh
  <2> QED BY <1>2, <1>5, <1>6, <1>7, <2>1
<1>9. Fresh(c4) /\ c4.used = c3.used /\ c4.place = [c3.place EXCEPT ![Back] = At(0, 0)]
  BY <1>2, <1>7, FreshPlaced
<1> HIDE DEF c4
<1>10. Fresh(c5) /\ c5.used = c3.used /\ c5.place = [c4.place EXCEPT ![Console] = At(ux, uy)]
  BY <1>2, <1>3, <1>9, FreshPlaced
<1> HIDE DEF c5
<1>11. Fresh(c6) /\ c6.used = c3.used /\ c6.place = [c5.place EXCEPT ![Mouse] = At(vx, vy)]
  BY <1>2, <1>3, <1>10, FreshPlaced
<1> HIDE DEF c6
<1>12. BackSpread(c6)
  <2>1. /\ c3.place \in [Ids -> [x : Int, y : Int]] /\ c4.place \in [Ids -> [x : Int, y : Int]]
        /\ c5.place \in [Ids -> [x : Int, y : Int]]
    BY <1>7, <1>9, <1>10, CtlFields DEF Fresh
  <2>2. c4.place[Back] = At(0, 0)
    BY <1>2, <1>9, <2>1
  <2>3. c5.place[Back] = At(0, 0)
    BY <1>2, <1>10, <2>1, <2>2
  <2>4. c6.place[Back] = At(0, 0)
    BY <1>2, <1>11, <2>1, <2>3
  <2> QED BY <2>4 DEF BackSpread, At
<1>13. /\ Sound(c7) /\ SameBuffers(c7, c6) /\ c7.top = 0
       /\ \A t \in Ids : t # Back => c7.height[t] = Hidden
       /\ Fitting => \A p \in Screen : Current(c7, p)
  BY <1>8, <1>11, <1>12, BackShown
<1> HIDE DEF c7
<1>14. /\ Sound(c8) /\ SameBuffers(c8, c7) /\ c8.top = 1 /\ c8.sheets[1] = Console
       /\ c8.height[Mouse] = Hidden
       /\ Fitting => PaintedFrom(c8, c7)
  <2>1. c7.used[Console] /\ c7.height[Console] = Hidden /\ c7.height[Mouse] = Hidden
    BY <1>2, <1>8, <1>11, <1>13 DEF SameBuffers
  <2>2. c7.top + 1 = 1
    BY <1>13
  <2> DEFINE r == Updown(c7, Console, c7.top + 1)
  <2>3. /\ Sound(r) /\ SameBuffers(r, c7) /\ r.top = c7.top + 1
        /\ r.sheets[r.top] = Console /\ SameHidden(r, c7, Console)
        /\ Fitting => PaintedFrom(r, c7)
    BY <1>2, <1>13, <2>1, ShownOnTop
  <2>4. r = c8
    BY <2>2
  <2> HIDE DEF r, c8
  <2> QED BY <1>2, <2>1, <2>2, <2>3, <2>4 DEF SameHidden
<1> HIDE DEF c8
<1>15. /\ Sound(c9) /\ SameBuffers(c9, c8) /\ c9.top = 2 /\ c9.sheets[2] = Mouse
       /\ c9.sheets[1] = Console
       /\ Fitting => PaintedFrom(c9, c8)
  <2>1. c8.used[Mouse]
    BY <1>8, <1>11, <1>13, <1>14 DEF SameBuffers
  <2>2. c8.top + 1 = 2
    BY <1>14
  <2> DEFINE r == Updown(c8, Mouse, c8.top + 1)
  <2>3. /\ Sound(r) /\ SameBuffers(r, c8) /\ r.top = c8.top + 1
        /\ r.sheets[r.top] = Mouse /\ \A h \in 0 .. c8.top : r.sheets[h] = c8.sheets[h]
        /\ Fitting => PaintedFrom(r, c8)
    BY <1>2, <1>14, <2>1, ShownOnTop
  <2>4. r = c9
    BY <2>2
  <2>5. 1 \in 0 .. c8.top
    BY <1>14
  <2> HIDE DEF r, c9
  <2> QED BY <1>14, <2>2, <2>3, <2>4, <2>5
<1> HIDE DEF c9
<1>16. Stacked(c9)
  BY <1>15 DEF Stacked
<1>17. \A s \in Ids : c9.buf[s] = {}
  BY <1>11, <1>13, <1>14, <1>15 DEF Fresh, SameBuffers
<1>18. InOrder(c9) = <<Console>>
  <2> DEFINE o == InOrder(c9)
  <2>1. /\ o \in Seq(Windows) /\ Len(o) = c9.top - 1
        /\ \A i \in 1 .. c9.top - 1 : o[i] = c9.sheets[i]
    BY <1>16, OrderFacts
  <2> HIDE DEF o
  <2>2. c9.top - 1 = 1 /\ 1 \in 1 .. 1
    BY <1>15
  <2>3. Len(o) = 1 /\ o[1] = Console
    BY <1>15, <2>1, <2>2
  <2>4. o = <<Console>>
    BY <2>1, <2>3
  <2> QED BY <2>4 DEF o
<1>19. ASSUME Fitting, NEW p \in Screen PROVE Current(c9, p)
  <2>1. PaintedFrom(c9, c7)
    BY <1>14, <1>15, <1>19, PaintedTwice
  <2>2. Current(c7, p) /\ (SameAt(c9, c7, p) \/ Current(c9, p))
    BY <1>13, <1>19, <2>1 DEF PaintedFrom
  <2> QED BY <2>2, SameCurrent
<1> QED BY <1>1, <1>16, <1>17, <1>18, <1>19

-----------------------------------------------------------------------------
(* The steps. *)

\* What users see of a step: the order of the windows stays, or one window is
\* opened, comes to the front or is closed.
Expected(r, c) ==
    \/ InOrder(r) = InOrder(c)
    \/ \E s \in Windows :
          \/ c.height[s] = Hidden /\ InOrder(r) = Append(InOrder(c), s)
          \/ /\ c.height[s] # Hidden
             /\ \/ InOrder(r) = Append(RemoveAt(InOrder(c), c.height[s]), s)
                \/ InOrder(r) = RemoveAt(InOrder(c), c.height[s])

\* The last entry of a sequence may be taken away again.
LEMMA LastTaken ==
  ASSUME NEW S, NEW q \in Seq(S), NEW e \in S
  PROVE  RemoveAt(Append(q, e), Len(q) + 1) = q
<1> DEFINE a == Append(q, e)
           n == Len(q)
           r == RemoveAt(a, n + 1)
<1>1. n \in Nat /\ a \in Seq(S) /\ Len(a) = n + 1 /\ \A i \in 1 .. n : a[i] = q[i]
  BY AppendProperties, LenProperties
<1> HIDE DEF a, n
<1>2. n + 1 \in 1 .. Len(a) /\ Len(a) - 1 = n
  BY <1>1
<1>3. /\ r \in Seq(S) /\ Len(r) = n
      /\ \A i \in 1 .. n : r[i] = IF i < n + 1 THEN a[i] ELSE a[i + 1]
  BY <1>1, <1>2, RemoveAtFacts
<1> HIDE DEF r
<1>4. \A i \in 1 .. n : r[i] = q[i]
  <2> SUFFICES ASSUME NEW i \in 1 .. n PROVE r[i] = q[i]
    OBVIOUS
  <2>1. i < n + 1
    BY <1>1
  <2> QED BY <1>1, <1>3, <2>1
<1>5. r = q
  BY <1>3, <1>4, SeqEqual DEF n
<1> QED BY <1>5 DEF r, a, n

\* A step of HariMain or a console that changes neither buffers nor what is in
\* use, and shows or hides at most the sheet s, keeps the invariant, if s is no
\* longer being opened.
LEMMA KeptBy ==
  ASSUME IInv, NEW s \in Ids, Stacked(ctl'), SameBuffers(ctl', ctl), SameHidden(ctl', ctl, s),
         opening' \subseteq opening \ {s}, dirty' = dirty,
         grabbed' \in Windows \union {NoSheet}, Fitting => PaintedFrom(ctl', ctl)
  PROVE  IInv'
<1>1. Bounded(ctl', dirty')
  BY DEF IInv, Bounded, SameBuffers
<1>2. Opened(ctl', opening')
  <2> SUFFICES ASSUME NEW t \in opening'
               PROVE  t \in Windows /\ ctl'.used[t] /\ ctl'.height[t] = Hidden
    BY DEF Opened
  <2>1. t \in opening /\ t # s /\ t \in Windows /\ t \in Ids
    BY DEF IInv, Opened, Windows
  <2>2. ctl.used[t] /\ ctl.height[t] = Hidden
    BY <2>1 DEF IInv, Opened
  <2> QED BY <2>1, <2>2 DEF SameBuffers, SameHidden
<1>3. Fitting => Shown(ctl', dirty')
  BY ShownKept DEF IInv
<1> QED BY <1>1, <1>2, <1>3 DEF IInv

\* So does a step that shows and hides nothing.
LEMMA KeptStill ==
  ASSUME IInv, Stacked(ctl'), SameBuffers(ctl', ctl), ctl'.height = ctl.height,
         opening' = opening, dirty' = dirty, grabbed' \in Windows \union {NoSheet},
         Fitting => PaintedFrom(ctl', ctl)
  PROVE  IInv'
<1>1. Back \in Ids /\ Back \notin opening
  BY Sizes DEF IInv, Opened, Windows
<1>2. SameHidden(ctl', ctl, Back) /\ opening' \subseteq opening \ {Back}
  BY <1>1 DEF SameHidden
<1> QED BY <1>1, <1>2, KeptBy

\* Where a sheet may be moved to.
LEMMA PlaceFacts ==
  ASSUME NEW s \in Windows \union {Mouse}, NEW at \in Places[s]
  PROVE  s \in Ids /\ s # Back /\ at.x \in Int /\ at.y \in Int
<1>1. Mouse \in Ids /\ Mouse # Back
  BY DesktopAssumption DEF Mouse, Back
<1>2. s \in Ids \ {Back}
  BY <1>1 DEF Windows
<1>3. at \in [x : Int, y : Int]
  BY <1>2, DesktopAssumption
<1> QED BY <1>2, <1>3

\* A sheet other than the background is moved: the pointer, a window that is
\* dragged or a new window.
LEMMA MoveStep ==
  ASSUME IInv, NEW s \in Windows \union {Mouse}, NEW at \in Places[s],
         ctl' = Slide(ctl, s, at.x, at.y), UNCHANGED <<opening, grabbed, dirty>>
  PROVE  IInv' /\ Expected(ctl', ctl)
<1>1. s \in Ids /\ s # Back /\ at.x \in Int /\ at.y \in Int
  BY PlaceFacts
<1>2. Stacked(ctl)
  BY DEF IInv
<1> DEFINE x == at.x
           y == at.y
<1>3. x \in Int /\ y \in Int /\ ctl' = Slide(ctl, s, x, y)
  BY <1>1
<1> HIDE DEF x, y
<1>4. /\ Stacked(ctl') /\ SameBuffers(ctl', ctl) /\ ctl'.height = ctl.height
      /\ InOrder(ctl') = InOrder(ctl)
      /\ Fitting => PaintedFrom(ctl', ctl)
  <2> DEFINE r == Slide(ctl, s, x, y)
  <2>1. /\ Stacked(r) /\ SameBuffers(r, ctl) /\ r.height = ctl.height
        /\ InOrder(r) = InOrder(ctl)
        /\ Fitting => PaintedFrom(r, ctl)
    BY <1>1, <1>2, <1>3, Moved
  <2> HIDE DEF r
  <2> QED BY <1>3, <2>1 DEF r
<1>5. grabbed' \in Windows \union {NoSheet}
  BY DEF IInv
<1> QED BY <1>4, <1>5, KeptStill DEF Expected

\* HariMain brings the window under the pointer to the front, and hides it if
\* its close button is hit.
LEMMA ClickStep ==
  ASSUME IInv, Click
  PROVE  IInv' /\ Expected(ctl', ctl)
<1>1. PICK p \in Places[Mouse] :
        /\ UnderPoint(p) # {}
        /\ LET s == ctl.sheets[Max(UnderPoint(p))]
               front == Updown(ctl, s, ctl.top - 1)
           IN  /\ ctl' \in {front, Updown(front, s, Hidden)}
               /\ grabbed' \in {s, NoSheet}
  BY DEF Click
<1> DEFINE i == Max(UnderPoint(p))
           s == ctl.sheets[i]
           f == Updown(ctl, s, ctl.top - 1)
           q == RemoveAt(InOrder(ctl), i)
<1>2. ctl' \in {f, Updown(f, s, Hidden)} /\ grabbed' \in {s, NoSheet}
  BY <1>1
<1>3. Stacked(ctl) /\ ctl.top \in Int
  BY StackedFacts DEF IInv
<1>4. i \in 1 .. ctl.top - 1
  <2> DEFINE T == UnderPoint(p)
  <2>1. T \subseteq 1 .. ctl.top - 1
    BY DEF UnderPoint
  <2>2. T # {}
    BY <1>1
  <2> HIDE DEF T
  <2>3. T \in SUBSET Int /\ ctl.top - 1 \in Int /\ \A t \in T : t <= ctl.top - 1
    BY <1>3, <2>1
  <2>4. Max(T) \in T
    BY <2>2, <2>3, Largest
  <2> QED BY <2>1, <2>4 DEF T
<1> HIDE DEF i
<1>5. s \in Windows /\ s \in Ids /\ ctl.height[s] = i /\ i # Hidden
  <2>1. s \in Windows /\ ctl.height[s] = i
    BY <1>3, <1>4, StackedFacts
  <2> QED BY <1>3, <1>4, <2>1 DEF Windows, Hidden
<1> HIDE DEF s
<1>6. /\ Stacked(f) /\ SameBuffers(f, ctl) /\ SameHidden(f, ctl, s)
      /\ f.top = ctl.top /\ f.height[s] = ctl.top - 1
      /\ InOrder(f) = Append(q, s)
      /\ Fitting => PaintedFrom(f, ctl)
  BY <1>3, <1>5, BroughtToFront
<1>7. opening' \subseteq opening \ {s} /\ dirty' = dirty
  <2>1. s \notin opening
    BY <1>5 DEF IInv, Opened
  <2> QED BY <2>1 DEF Click
<1>8. grabbed' \in Windows \union {NoSheet}
  BY <1>2, <1>5
<1>9. CASE ctl' = f
  <2>1. IInv'
    BY <1>5, <1>6, <1>7, <1>8, <1>9, KeptBy
  <2> QED BY <1>5, <1>6, <1>9, <2>1 DEF Expected
<1>10. CASE ctl' = Updown(f, s, Hidden)
  <2> HIDE DEF f
  <2>1. f.height[s] # Hidden
    BY <1>3, <1>4, <1>6 DEF Hidden
  <2>2. /\ Stacked(ctl') /\ SameBuffers(ctl', f) /\ SameHidden(ctl', f, s)
        /\ InOrder(ctl') = RemoveAt(InOrder(f), f.height[s])
        /\ Fitting => PaintedFrom(ctl', f)
    BY <1>5, <1>6, <1>10, <2>1, TakenAway
  <2>3. SameBuffers(ctl', ctl) /\ SameHidden(ctl', ctl, s)
    BY <1>6, <2>2 DEF SameBuffers, SameHidden
  <2>4. InOrder(ctl') = q
    <3>1. InOrder(ctl) \in Seq(Windows) /\ Len(InOrder(ctl)) = ctl.top - 1
      BY <1>3, OrderFacts
    <3>2. q \in Seq(Windows) /\ Len(q) = Len(InOrder(ctl)) - 1
      BY <1>4, <3>1, RemoveAtFacts
    <3>3. Len(q) + 1 = f.height[s]
      BY <1>3, <1>6, <3>1, <3>2
    <3> HIDE DEF q
    <3>4. RemoveAt(Append(q, s), Len(q) + 1) = q
      BY <1>5, <3>2, LastTaken
    <3> QED BY <1>6, <2>2, <3>3, <3>4
  <2>5. Fitting => PaintedFrom(ctl', ctl)
    BY <1>6, <2>2, PaintedTwice
  <2>6. IInv'
    BY <1>5, <1>7, <1>8, <2>2, <2>3, <2>5, KeptBy
  <2> QED BY <1>5, <2>4, <2>6 DEF Expected
<1> QED BY <1>2, <1>9, <1>10

\* F11 brings the lowest window to the front.
LEMMA CycleStep ==
  ASSUME IInv, Cycle
  PROVE  IInv' /\ Expected(ctl', ctl)
<1> DEFINE s == ctl.sheets[1]
           i == 1
<1>1. Stacked(ctl) /\ ctl.top \in Int /\ ctl.top > 2
  BY StackedFacts DEF IInv, Cycle
<1>2. s \in Windows /\ s \in Ids /\ ctl.height[s] = i /\ i # Hidden
  <2>1. 1 \in 1 .. ctl.top - 1
    BY <1>1
  <2>2. s \in Windows /\ ctl.height[s] = 1
    BY <1>1, <2>1, StackedFacts
  <2> QED BY <2>2 DEF Windows, Hidden
<1>3. ctl' = Updown(ctl, s, ctl.top - 1)
  BY DEF Cycle
<1> HIDE DEF s, i
<1>4. /\ Stacked(ctl') /\ SameBuffers(ctl', ctl) /\ SameHidden(ctl', ctl, s)
      /\ InOrder(ctl') = Append(RemoveAt(InOrder(ctl), ctl.height[s]), s)
      /\ Fitting => PaintedFrom(ctl', ctl)
  BY <1>1, <1>2, <1>3, BroughtToFront
<1>5. s \notin opening
  BY <1>2 DEF IInv, Opened
<1>6. opening' \subseteq opening \ {s} /\ dirty' = dirty /\ grabbed' \in Windows \union {NoSheet}
  BY <1>5 DEF Cycle, IInv
<1>7. IInv'
  BY <1>2, <1>4, <1>6, KeptBy
<1> QED BY <1>2, <1>4, <1>7 DEF Expected

\* sheet_alloc finds a sheet that is not in use, and it gets a new buffer.
LEMMA CreateStep ==
  ASSUME IInv, NEW s \in Windows, Create(s)
  PROVE  IInv' /\ Expected(ctl', ctl)
<1>1. Stacked(ctl) /\ s \in Ids /\ ctl \in Ctls
  BY StackedFacts DEF IInv, Windows
<1>2. ~ctl.used[s]
  <2> DEFINE T == {t \in Ids : ~ctl.used[t]}
  <2>1. s # NoSheet
    BY <1>1, Sizes DEF Ids, NoSheet
  <2>2. s = Min(T) /\ T # {}
    BY <2>1 DEF Create, AllocResult
  <2>3. T \in SUBSET Nat
    BY DEF Ids
  <2> HIDE DEF T
  <2>4. s \in T
    BY <2>2, <2>3, MinFacts
  <2> QED BY <2>4 DEF T
<1>3. ctl' = Created(ctl, s)
  BY DEF Create
<1>4. /\ Stacked(ctl') /\ InOrder(ctl') = InOrder(ctl)
      /\ ctl'.height = ctl.height /\ ctl.height[s] = Hidden
      /\ ctl'.used = [ctl.used EXCEPT ![s] = TRUE]
      /\ ctl'.buf = [ctl.buf EXCEPT ![s] = {}]
      /\ ctl'.map = ctl.map /\ ctl'.vram = ctl.vram /\ ctl'.place = ctl.place
  BY <1>1, <1>2, <1>3, TakenIntoUse
<1>5. Opened(ctl', opening')
  <2> SUFFICES ASSUME NEW t \in opening'
               PROVE  t \in Windows /\ ctl'.used[t] /\ ctl'.height[t] = Hidden
    BY DEF Opened
  <2>1. t = s \/ t \in opening
    BY DEF Create
  <2>2. CASE t = s
    BY <1>1, <1>4, <2>2, CtlFields
  <2>3. CASE t \in opening
    BY <1>1, <1>4, <2>3, CtlFields DEF IInv, Opened, Windows
  <2> QED BY <2>1, <2>2, <2>3
<1>6. Bounded(ctl', dirty')
  <2>1. dirty \in [Ids -> SUBSET Int] /\ dirty' = [dirty EXCEPT ![s] = {}]
    BY DEF IInv, Bounded, Create
  <2>2. \A t \in Ids : ctl.buf[t] \subseteq Inside(t) /\ dirty[t] \subseteq Inside(t)
    BY DEF IInv, Bounded
  <2>3. \A t \in Ids : /\ ctl'.buf[t] = IF t = s THEN {} ELSE ctl.buf[t]
                       /\ dirty'[t] = IF t = s THEN {} ELSE dirty[t]
    BY <1>1, <1>4, <2>1, CtlFields
  <2>4. dirty' \in [Ids -> SUBSET Int]
    BY <1>1, <2>1
  <2> QED BY <2>2, <2>3, <2>4 DEF Bounded
<1>7. grabbed' \in Windows \union {NoSheet}
  BY DEF Create, IInv
<1>8. Fitting => Shown(ctl', dirty')
  <2> SUFFICES ASSUME Shown(ctl, dirty), NEW p \in Screen
               PROVE  Current(ctl', p) \/ Owed(ctl', dirty', p)
    BY DEF Shown, IInv
  <2>1. ctl.map[p] \in Ids /\ ctl.map[p] # s
    BY <1>1, <1>4 DEF Stacked, Sound, Right, Seen
  <2>2. ctl'.buf[ctl.map[p]] = ctl.buf[ctl.map[p]]
    BY <1>1, <1>4, <2>1, CtlFields
  <2>3. SameAt(ctl', ctl, p)
    BY <1>4, <2>2 DEF SameAt
  <2>4. dirty'[ctl.map[p]] = dirty[ctl.map[p]]
    BY <2>1 DEF IInv, Bounded, Create
  <2>5. Current(ctl, p) \/ Owed(ctl, dirty, p)
    BY DEF Shown
  <2> QED BY <2>3, <2>4, <2>5, OwedStays
<1> QED BY <1>4, <1>5, <1>6, <1>7, <1>8 DEF IInv, Expected

\* The new window is shown below the pointer.
LEMMA ShowStep ==
  ASSUME IInv, NEW s \in Windows, Show(s)
  PROVE  IInv' /\ Expected(ctl', ctl)
<1>1. Stacked(ctl) /\ s \in Ids
  BY DEF IInv, Windows
<1>2. ctl.used[s] /\ ctl.height[s] = Hidden
  BY DEF IInv, Opened, Show
<1>3. ctl' = Updown(ctl, s, ctl.top)
  BY DEF Show
<1>4. /\ Stacked(ctl') /\ SameBuffers(ctl', ctl) /\ SameHidden(ctl', ctl, s)
      /\ InOrder(ctl') = Append(InOrder(ctl), s) /\ (Fitting => PaintedFrom(ctl', ctl))
  BY <1>1, <1>2, <1>3, OpenedOnTop
<1>5. opening' \subseteq opening \ {s} /\ dirty' = dirty /\ grabbed' \in Windows \union {NoSheet}
  BY DEF Show, IInv
<1>6. IInv'
  BY <1>1, <1>4, <1>5, KeptBy
<1> QED BY <1>2, <1>4, <1>6 DEF Expected

\* Drawing in a window.
LEMMA PaintStep ==
  ASSUME IInv, NEW s \in Windows, NEW b \in Boxes[s], Paint(s, b)
  PROVE  IInv' /\ Expected(ctl', ctl)
<1>1. Stacked(ctl) /\ s \in Ids /\ ctl \in Ctls
  BY StackedFacts DEF IInv, Windows
<1>2. Box(s, b) \subseteq Inside(s) /\ Box(s, b) \subseteq Int
  BY BoxInside
<1> DEFINE x == Box(s, b)
           n == (ctl.buf[s] \ x) \union (x \ ctl.buf[s])
<1>3. ctl' = Draw(ctl, s, b)
  BY DEF Paint
<1>4. /\ Stacked(ctl') /\ ctl'.used = ctl.used /\ ctl'.height = ctl.height
      /\ ctl'.buf = [ctl.buf EXCEPT ![s] = n]
      /\ InOrder(ctl') = InOrder(ctl)
      /\ ctl'.map = ctl.map /\ ctl'.vram = ctl.vram /\ ctl'.place = ctl.place
  BY <1>1, <1>2, <1>3, DrawnIn
<1>5. Opened(ctl', opening')
  BY <1>4 DEF IInv, Opened, Paint
<1>6. Bounded(ctl', dirty')
  <2>1. dirty \in [Ids -> SUBSET Int] /\ dirty' = [dirty EXCEPT ![s] = dirty[s] \union x]
    BY DEF IInv, Bounded, Paint
  <2>2. \A t \in Ids : ctl.buf[t] \subseteq Inside(t) /\ dirty[t] \subseteq Inside(t)
    BY DEF IInv, Bounded
  <2>3. n \subseteq Inside(s) /\ dirty[s] \union x \subseteq Inside(s)
        /\ dirty[s] \union x \in SUBSET Int
    BY <1>1, <1>2, <2>1, <2>2
  <2> HIDE DEF x, n
  <2>4. \A t \in Ids : /\ ctl'.buf[t] = IF t = s THEN n ELSE ctl.buf[t]
                       /\ dirty'[t] = IF t = s THEN dirty[s] \union x ELSE dirty[t]
    BY <1>1, <1>4, <2>1, CtlFields
  <2>5. dirty' \in [Ids -> SUBSET Int]
    BY <1>1, <2>1, <2>3
  <2> QED BY <2>2, <2>3, <2>4, <2>5 DEF Bounded
<1>7. grabbed' \in Windows \union {NoSheet}
  BY DEF Paint, IInv
<1>8. Fitting => Shown(ctl', dirty')
  <2> SUFFICES ASSUME Shown(ctl, dirty), NEW p \in Screen
               PROVE  Current(ctl', p) \/ Owed(ctl', dirty', p)
    BY DEF Shown, IInv
  <2> DEFINE t == ctl.map[p]
             i == IndexAt(ctl, t, p)
  <2>1. t \in Ids
    BY <1>1 DEF Stacked, Sound, Right
  <2>2. Current(ctl, p) \/ Owed(ctl, dirty, p)
    BY DEF Shown
  <2>3. /\ ctl'.map[p] = t /\ ctl'.vram[p] = ctl.vram[p] /\ IndexAt(ctl', t, p) = i
    BY <1>4 DEF IndexAt
  <2>4. /\ dirty \in [Ids -> SUBSET Int] /\ ctl.buf \in [Ids -> SUBSET Int]
        /\ dirty' = [dirty EXCEPT ![s] = dirty[s] \union x]
    BY <1>1, CtlFields DEF IInv, Bounded, Paint
  <2>5. CASE t # s
    <3>1. ctl'.buf[t] = ctl.buf[t] /\ dirty'[t] = dirty[t]
      BY <1>4, <2>1, <2>4, <2>5
    <3>2. SameAt(ctl', ctl, p)
      BY <1>4, <3>1 DEF SameAt
    <3> QED BY <2>2, <3>1, <3>2, OwedStays
  <2>6. CASE t = s
    <3>1. ctl'.buf[s] = n /\ dirty'[s] = dirty[s] \union x
      BY <1>1, <1>4, <2>4
    <3>2. CASE i \in x
      <4>1. ctl.vram[p][1] = t /\ ctl.vram[p][2] = i
        BY <2>2 DEF Current, Owed, Pixel
      <4>2. i \in dirty'[t]
        BY <2>6, <3>1, <3>2
      <4> HIDE DEF t, i, x, n
      <4> QED BY <2>3, <4>1, <4>2 DEF Owed
    <3>3. CASE i \notin x
      <4>1. (i \in ctl'.buf[t]) = (i \in ctl.buf[t])
        BY <2>6, <3>1, <3>3
      <4>2. Pixel(ctl', t, i) = Pixel(ctl, t, i)
        BY <4>1 DEF Pixel
      <4>3. i \in dirty[t] => i \in dirty'[t]
        BY <2>6, <3>1
      <4>4. CASE Current(ctl, p)
        <5>1. ctl.vram[p] = Pixel(ctl, t, i)
          BY <4>4 DEF Current
        <5> HIDE DEF t, i, x, n
        <5> QED BY <2>3, <4>2, <5>1 DEF Current
      <4>5. CASE Owed(ctl, dirty, p)
        <5>1. i \in dirty[t] /\ ctl.vram[p][1] = t /\ ctl.vram[p][2] = i
          BY <4>5 DEF Owed
        <5> HIDE DEF t, i, x, n
        <5> QED BY <2>3, <4>3, <5>1 DEF Owed
      <4> QED BY <2>2, <4>4, <4>5
    <3> QED BY <3>2, <3>3
  <2> QED BY <2>5, <2>6
<1> QED BY <1>4, <1>5, <1>6, <1>7, <1>8 DEF IInv, Expected

\* Refreshing what was drawn.
LEMMA RenewStep ==
  ASSUME IInv, NEW s \in Windows, NEW b \in Boxes[s], Renew(s, b)
  PROVE  IInv' /\ Expected(ctl', ctl)
<1>1. Stacked(ctl) /\ s \in Ids /\ b \in Areas /\ b.x0 < b.x1
  BY BoxInside DEF IInv, Windows
<1>2. ctl' = Refresh(ctl, s, b)
  BY DEF Renew
<1>3. /\ Stacked(ctl') /\ SameBuffers(ctl', ctl) /\ ctl'.height = ctl.height
      /\ InOrder(ctl') = InOrder(ctl)
      /\ Fitting => /\ PaintedFrom(ctl', ctl)
                    /\ \A p \in Screen : ctl.map[p] = s /\ InArea(PartOf(ctl, s, b), p) =>
                                           Current(ctl', p)
  BY <1>1, <1>2, Repaint
<1>4. Opened(ctl', opening')
  BY <1>3 DEF IInv, Opened, Renew, SameBuffers
<1>5. Bounded(ctl', dirty')
  <2>1. /\ dirty \in [Ids -> SUBSET Int]
        /\ dirty' = [dirty EXCEPT ![s] = dirty[s] \ Box(s, b)]
    BY DEF IInv, Bounded, Renew
  <2>2. \A t \in Ids : ctl.buf[t] \subseteq Inside(t) /\ dirty[t] \subseteq Inside(t)
    BY DEF IInv, Bounded
  <2>3. \A t \in Ids : dirty'[t] \subseteq dirty[t]
    BY <1>1, <2>1
  <2>4. dirty' \in [Ids -> SUBSET Int]
    BY <1>1, <2>1
  <2> QED BY <1>3, <2>2, <2>3, <2>4 DEF Bounded, SameBuffers
<1>6. grabbed' \in Windows \union {NoSheet}
  BY DEF Renew, IInv
<1>7. Fitting => Shown(ctl', dirty')
  <2> SUFFICES ASSUME Fitting, Shown(ctl, dirty), NEW p \in Screen, ~Current(ctl', p)
               PROVE  Owed(ctl', dirty', p)
    BY DEF Shown, IInv
  <2>1. SameAt(ctl', ctl, p)
    BY <1>3 DEF PaintedFrom
  <2>2. Current(ctl, p) \/ Owed(ctl, dirty, p)
    BY DEF Shown
  <2>3. /\ dirty \in [Ids -> SUBSET Int]
        /\ dirty' = [dirty EXCEPT ![s] = dirty[s] \ Box(s, b)]
    BY DEF IInv, Bounded, Renew
  <2> DEFINE t == ctl.map[p]
             i == IndexAt(ctl, t, p)
  <2>4. t \in Ids /\ Over(ctl, t, p) /\ ctl \in Ctls
    BY <1>1 DEF Stacked, Sound, Right, Seen
  <2>5. i \in dirty[t] => i \in dirty'[t]
    <3>1. CASE t # s
      BY <2>3, <2>4, <3>1
    <3>2. CASE t = s
      <4>1. ~InArea(PartOf(ctl, s, b), p)
        BY <1>3, <3>2
      <4>2. i \notin Box(s, b)
        BY <2>4, <3>2, <4>1, BoxTells
      <4> HIDE DEF t, i
      <4> QED BY <1>1, <2>3, <3>2, <4>2
    <3> QED BY <3>1, <3>2
  <2> QED BY <2>1, <2>2, <2>5, OwedStays
<1> QED BY <1>3, <1>4, <1>5, <1>6, <1>7 DEF IInv, Expected

\* A window is closed, shown or not yet shown.
LEMMA CloseStep ==
  ASSUME IInv, NEW s \in Windows, CloseWindow(s)
  PROVE  IInv' /\ Expected(ctl', ctl)
<1>1. Stacked(ctl) /\ ctl' = SheetFree(ctl, s)
  BY DEF IInv, CloseWindow
<1>2. /\ Stacked(ctl') /\ SameHidden(ctl', ctl, s) /\ ctl'.buf = ctl.buf
      /\ \A t \in Ids : t # s => ctl'.used[t] = ctl.used[t]
      /\ InOrder(ctl') = IF ctl.height[s] # Hidden
                         THEN RemoveAt(InOrder(ctl), ctl.height[s]) ELSE InOrder(ctl)
      /\ Fitting => PaintedFrom(ctl', ctl)
  BY <1>1, Freed
<1>3. Opened(ctl', opening')
  <2> SUFFICES ASSUME NEW t \in opening'
               PROVE  t \in Windows /\ ctl'.used[t] /\ ctl'.height[t] = Hidden
    BY DEF Opened
  <2>1. t \in opening /\ t # s /\ t \in Windows /\ t \in Ids
    BY DEF IInv, Opened, Windows, CloseWindow
  <2>2. ctl.used[t] /\ ctl.height[t] = Hidden
    BY <2>1 DEF IInv, Opened
  <2> QED BY <1>2, <2>1, <2>2 DEF SameHidden
<1>4. Bounded(ctl', dirty')
  BY <1>2 DEF IInv, Bounded, CloseWindow
<1>5. grabbed' \in Windows \union {NoSheet}
  BY DEF CloseWindow, IInv
<1>6. Expected(ctl', ctl)
  BY <1>2 DEF Expected
<1>7. Fitting => Shown(ctl', dirty')
  BY <1>2, ShownKept DEF IInv, CloseWindow
<1> QED BY <1>2, <1>3, <1>4, <1>5, <1>6, <1>7 DEF IInv

\* The invariant holds after boot.
LEMMA Boots ==
  Init => IInv /\ InOrder(ctl) = <<Console>>
<1> SUFFICES ASSUME Init PROVE IInv /\ InOrder(ctl) = <<Console>>
  OBVIOUS
<1>1. Stacked(ctl) /\ InOrder(ctl) = <<Console>> /\ \A s \in Ids : ctl.buf[s] = {}
  BY BootStacked DEF Init
<1>2. Bounded(ctl, dirty)
  BY <1>1 DEF Init, Bounded
<1>3. Opened(ctl, opening) /\ grabbed \in Windows \union {NoSheet}
  BY DEF Init, Opened
<1>4. Fitting => Shown(ctl, dirty)
  BY BootStacked DEF Init, Shown
<1> QED BY <1>1, <1>2, <1>3, <1>4 DEF IInv

\* Every step keeps it, and does to the order of the windows what users expect.
LEMMA StepKeeps ==
  ASSUME IInv, [Next]_vars
  PROVE  IInv' /\ Expected(ctl', ctl)
<1>1. CASE MovePointer
  <2>1. PICK at \in Places[Mouse] : ctl' = Slide(ctl, Mouse, at.x, at.y)
    BY <1>1 DEF MovePointer
  <2> QED BY <1>1, <2>1, MoveStep DEF MovePointer
<1>2. CASE Drag
  <2>1. grabbed \in Windows
    BY <1>2 DEF Drag, IInv
  <2>2. PICK at \in Places[grabbed] : ctl' = Slide(ctl, grabbed, at.x, at.y)
    BY <1>2 DEF Drag
  <2> QED BY <1>2, <2>1, <2>2, MoveStep DEF Drag
<1>3. CASE Click
  BY <1>3, ClickStep
<1>4. CASE Cycle
  BY <1>4, CycleStep
<1>5. CASE Release \/ UNCHANGED vars
  <2>1. ctl' = ctl /\ opening' = opening /\ dirty' = dirty
        /\ grabbed' \in Windows \union {NoSheet}
    BY <1>5 DEF Release, vars, IInv
  <2> QED BY <2>1 DEF IInv, Expected
<1>6. ASSUME NEW s \in Windows, Create(s) \/ PutInPlace(s) \/ Show(s) \/ CloseWindow(s)
      PROVE  IInv' /\ Expected(ctl', ctl)
  <2>1. CASE PutInPlace(s)
    <3>1. PICK at \in Places[s] : ctl' = Slide(ctl, s, at.x, at.y)
      BY <2>1 DEF PutInPlace
    <3> QED BY <2>1, <3>1, MoveStep DEF PutInPlace
  <2> QED BY <1>6, <2>1, CreateStep, ShowStep, CloseStep
<1>7. ASSUME NEW s \in Windows, NEW b \in Boxes[s], Paint(s, b) \/ Renew(s, b)
      PROVE  IInv' /\ Expected(ctl', ctl)
  BY <1>7, PaintStep, RenewStep
<1> QED BY <1>1, <1>2, <1>3, <1>4, <1>5, <1>6, <1>7 DEF Next

-----------------------------------------------------------------------------
(* The theorems. *)

\* The stack and map are in order and buffers are drawn in up to their ends,
\* whatever HariMain, consoles and applications do, and in whatever order.
THEOREM Invariance == Spec => []IInv
<1>1. Init => IInv
  BY Boots
<1>2. IInv /\ [Next]_vars => IInv'
  BY StepKeeps
<1> QED BY <1>1, <1>2, PTL DEF Spec

\* The state of the sheets is what sheet.c may keep there: no entry or height of
\* a sheet runs out of sheets[], and no drawing leaves its buffer.
THEOREM TypeCorrect == Spec => []TypeOK
<1>1. IInv => TypeOK
  BY IInvImplies
<1> QED BY <1>1, Invariance, PTL

\* sheets[], the heights and top agree after every call of sheet_updown,
\* sheet_slide, sheet_refresh, sheet_alloc and sheet_free.
THEOREM StackKept == Spec => []StackAgrees
<1>1. IInv => StackAgrees
  BY IInvImplies
<1> QED BY <1>1, Invariance, PTL

\* The background stays below all windows and the pointer above them, though
\* each caller works out from top where to put its window.
THEOREM Enclosed == Spec => []WindowsBetween
<1>1. IInv => WindowsBetween
  BY IInvImplies
<1> QED BY <1>1, Invariance, PTL

\* map names the topmost sheet of every pixel, though sheet_updown and
\* sheet_slide compute only a part of it anew.
THEOREM MapKept == Spec => []MapIsTopmost
<1>1. IInv => MapIsTopmost
  BY IInvImplies
<1> QED BY <1>1, Invariance, PTL

\* The screen shows the topmost sheet everywhere, and shows it up to date but for
\* what its owner has drawn and not refreshed since: after every call of
\* sheet_updown and sheet_slide, which paint a part of the screen only, and of
\* sheet_refresh, whose loop by fours tries columns in front of those asked for.
\* No sheet may be wider than the screen or one column narrower: the columns
\* in front would be the sheet's own pixels of the line above there.
THEOREM ScreenKept == Fitting => (Spec => []ScreenIsRight)
<1>1. IInv /\ Fitting => ScreenIsRight
  BY ScreenImplied
<1> SUFFICES ASSUME Fitting PROVE Spec => []ScreenIsRight
  OBVIOUS
<1>2. IInv => ScreenIsRight
  BY <1>1
<1> QED BY <1>2, Invariance, PTL

-----------------------------------------------------------------------------
(* The order of the windows. *)

\* A visible window is where its height says, and only there.
LEMMA WindowPosition ==
  ASSUME NEW c, Stacked(c), NEW s \in Windows
  PROVE  /\ Order!Contains(InOrder(c), s) <=> c.height[s] # Hidden
         /\ c.height[s] # Hidden =>
              (CHOOSE i \in DOMAIN InOrder(c) : InOrder(c)[i] = s) = c.height[s]
<1> DEFINE q == InOrder(c)
           n == c.top - 1
<1>1. q \in Seq(Windows) /\ Len(q) = n /\ \A i \in 1 .. n : q[i] = c.sheets[i]
  BY OrderFacts
<1>2. n \in Int
  BY StackedFacts
<1>3. \A h \in 1 .. n : c.height[c.sheets[h]] = h
  BY StackedFacts
<1>4. c.height[s] # Hidden => c.height[s] \in 1 .. n /\ c.sheets[c.height[s]] = s
  BY StackedFacts
<1>5. DOMAIN q = 1 .. n
  BY <1>1
<1> HIDE DEF q, n
<1>6. \A i \in 1 .. n : q[i] = s => i = c.height[s] /\ c.height[s] # Hidden
  BY <1>2, <1>1, <1>3 DEF Hidden
<1>7. Order!Contains(q, s) <=> \E i \in 1 .. n : q[i] = s
  BY <1>1 DEF Order!Contains
<1>8. ASSUME c.height[s] # Hidden
      PROVE  (CHOOSE i \in DOMAIN q : q[i] = s) = c.height[s]
  <2>1. c.height[s] \in DOMAIN q /\ q[c.height[s]] = s
    BY <1>1, <1>4, <1>5, <1>8
  <2> QED BY <1>5, <1>6, <2>1
<1>9. Order!Contains(q, s) <=> c.height[s] # Hidden
  BY <1>1, <1>4, <1>6, <1>7
<1> QED BY <1>8, <1>9 DEF q

\* What is expected of a step is a step of WindowOrder.
LEMMA StepMaps ==
  ASSUME Stacked(ctl), Expected(ctl', ctl)
  PROVE  [Order!Next]_(InOrder(ctl))
<1>1. InOrder(ctl)' = InOrder(ctl')
  BY DEF InOrder
<1>2. CASE InOrder(ctl') = InOrder(ctl)
  BY <1>1, <1>2
<1>3. ASSUME NEW s \in Windows, ctl.height[s] = Hidden,
             InOrder(ctl') = Append(InOrder(ctl), s)
      PROVE  Order!Open(s)
  <2>1. ~Order!Contains(InOrder(ctl), s)
    BY <1>3, WindowPosition
  <2> QED BY <1>1, <1>3, <2>1 DEF Order!Open, Order!ToFront, Order!Without, InOrder
<1>4. ASSUME NEW s \in Windows, ctl.height[s] # Hidden
      PROVE  /\ Order!Contains(InOrder(ctl), s)
             /\ Order!Without(s) = RemoveAt(InOrder(ctl), ctl.height[s])
  <2>1. /\ Order!Contains(InOrder(ctl), s)
        /\ (CHOOSE i \in DOMAIN InOrder(ctl) : InOrder(ctl)[i] = s) = ctl.height[s]
    BY <1>4, WindowPosition
  <2>2. Order!Without(s) = Order!RemoveAt(InOrder(ctl), ctl.height[s])
    BY <2>1 DEF Order!Without, InOrder
  <2> QED BY <2>1, <2>2 DEF Order!RemoveAt, RemoveAt
<1>5. ASSUME NEW s \in Windows, ctl.height[s] # Hidden,
             InOrder(ctl') = Append(RemoveAt(InOrder(ctl), ctl.height[s]), s)
      PROVE  Order!Pick(s)
  BY <1>1, <1>4, <1>5 DEF Order!Pick, Order!ToFront, InOrder
<1>6. ASSUME NEW s \in Windows, ctl.height[s] # Hidden,
             InOrder(ctl') = RemoveAt(InOrder(ctl), ctl.height[s])
      PROVE  Order!Close(s)
  BY <1>1, <1>4, <1>6 DEF Order!Close, InOrder
<1> QED BY <1>2, <1>3, <1>5, <1>6 DEF Expected, Order!Next

\* Windows lie on one another in the order users expect: one that is opened or
\* clicked comes to the front, one that is closed leaves, nothing else changes
\* the order.
THEOREM Refinement == Spec => WindowsInOrder
<1>1. Init => Order!Init
  BY Boots DEF InOrder, Order!Init
<1>2. IInv /\ [Next]_vars => [Order!Next]_(InOrder(ctl))
  BY StepKeeps, StepMaps DEF IInv
<1>3. [Order!Next]_(InOrder(ctl)) <=> [Order!Next]_([i \in 1 .. ctl.top - 1 |-> ctl.sheets[i]])
  BY DEF InOrder
<1> QED BY <1>1, <1>2, <1>3, Invariance, PTL DEF Spec, WindowsInOrder, Order!Spec
=============================================================================
