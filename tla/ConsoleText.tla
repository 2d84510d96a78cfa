----------------------------- MODULE ConsoleText -----------------------------
(***************************************************************************)
(* The text of a console: the cursor, the lines on the screen, and the     *)
(* line being typed (console.c: cons_putchar, cons_newline, cons_putstr,   *)
(* cmd_cls, and the keys in console_task).                                 *)
(*                                                                         *)
(* cur_x and cur_y are counted in characters, from CONS_LEFT and CONS_TOP. *)
(* Control characters other than the three the code knows are drawn like   *)
(* any character.                                                          *)
(***************************************************************************)
EXTENDS Integers, Sequences, SequencesExt

CONSTANTS Columns,  \* CONS_COLN (80)
          Lines,    \* CONS_LINE (30)
          Chars     \* what may be written and typed

\* Blank, the prompt's first character, tab, line feed, carriage return, and
\* the key that takes one back.
CONSTANTS Space, Dollar, HTab, Newline, Return, Backspace

ASSUME TextAssumption ==
    /\ Columns \in Nat /\ Columns > 3
    /\ Lines \in Nat \ {0}
    /\ Space \in Chars /\ Dollar \in Chars
    /\ {HTab, Newline, Return} \subseteq Chars
    /\ {Space, Dollar} \cap {HTab, Newline, Return} = {}
    /\ HTab # Newline /\ HTab # Return /\ Newline # Return
    /\ Backspace \notin Chars

Rows == 0 .. Lines - 1
Cols == 0 .. Columns - 1

\* What the keyboard sends, and what is left of a line typed for somebody else.
Typeable == Chars \ {HTab, Newline, Return}

BlankRow == [c \in Cols |-> Space]

\* A console: the cursor, whether it has a window, and what that shows.
Consoles == [x : Cols, y : Rows, window : BOOLEAN, text : [Rows -> [Cols -> Chars]]]

-----------------------------------------------------------------------------
(* Output. *)

\* putfonts8_asc_sht of one character at the cursor.
Drawn(con, ch) ==
    IF con.window THEN [con EXCEPT !.text = [con.text EXCEPT ![con.y][con.x] = ch]] ELSE con

\* cons_newline: the next line, or everything one line up.
NextLine(con) ==
    IF con.y < Lines - 1 THEN [con EXCEPT !.x = 0, !.y = con.y + 1]
    ELSE IF ~con.window THEN [con EXCEPT !.x = 0]
    ELSE [con EXCEPT !.x = 0,
                     !.text = [r \in Rows |-> IF r < Lines - 1 THEN con.text[r + 1] ELSE BlankRow]]

\* The cursor n columns further, and on the next line if that is the edge.
Advanced(con, n) ==
    IF con.x + n = Columns THEN NextLine(con) ELSE [con EXCEPT !.x = con.x + n]

\* The loop for a tab ends at a multiple of four, or at the edge.
TabWidth(con) ==
    LET toStop == 4 - (con.x % 4)
        toEdge == Columns - con.x
    IN  IF toStop < toEdge THEN toStop ELSE toEdge

Blanked(con, n) ==
    IF con.window
    THEN [con EXCEPT !.text = [con.text EXCEPT ![con.y] =
            [c \in Cols |-> IF c \in con.x .. con.x + n - 1 THEN Space ELSE con.text[con.y][c]]]]
    ELSE con

\* cons_putchar
PutChar(con, ch, move) ==
    CASE ch = HTab -> Advanced(Blanked(con, TabWidth(con)), TabWidth(con))
      [] ch = Newline -> NextLine(con)
      [] ch = Return -> [con EXCEPT !.x = 0]
      [] OTHER -> IF move THEN Advanced(Drawn(con, ch), 1) ELSE Drawn(con, ch)

\* cons_putstr0, cons_putstr1
PutStr(con, s) == FoldLeft(LAMBDA c, ch : PutChar(c, ch, TRUE), con, s)

\* cmd_cls, of a console with a window; without one it writes through the
\* pointer 0.
Clear(con) == [con EXCEPT !.y = 0, !.text = [r \in Rows |-> BlankRow]]

-----------------------------------------------------------------------------
(* Input. *)

\* The prompt is two characters wide.
Prompt == 2
Prompted(con) == PutChar(PutChar(con, Dollar, TRUE), Space, TRUE)

\* A console that reads a line, and its cmdline.
Editors == {ed \in [con : Consoles, cmdline : [Cols -> Chars]] : ed.con.x >= Prompt}

\* The key of a character, unless the line is full.
Typed(ed, ch) ==
    IF ed.con.x < Columns - 1
    THEN [con |-> PutChar(ed.con, ch, TRUE),
          cmdline |-> [ed.cmdline EXCEPT ![ed.con.x - Prompt] = ch]]
    ELSE ed

\* The backspace key, unless the line is empty: the cursor is wiped out.
Erased(ed) ==
    IF ed.con.x > Prompt
    THEN LET wiped == PutChar(ed.con, Space, FALSE)
         IN  [ed EXCEPT !.con = [wiped EXCEPT !.x = wiped.x - 1]]
    ELSE ed

Key(ed, ch) == IF ch = Backspace THEN Erased(ed) ELSE Typed(ed, ch)

\* The Enter key: what cons_runcmd gets, the characters of cmdline before the 0
\* that is put there, and the console as it gets it.
Line(ed) == [i \in 1 .. ed.con.x - Prompt |-> ed.cmdline[i - 1]]
Entered(ed) == NextLine(PutChar(ed.con, Space, FALSE))
=============================================================================
