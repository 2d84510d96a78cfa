---------------------------- MODULE MCConsoleText ----------------------------
(***************************************************************************)
(* ConsoleText compared with what the operators are for, in a console of   *)
(* two lines of six characters: room for three typed ones.                 *)
(***************************************************************************)
EXTENDS ConsoleText

CONSTANTS a, b

MCChars == {Space, Dollar, HTab, Newline, Return, a, b}

Texts(chars, n) == UNION {[1 .. k -> chars] : k \in 0 .. n}

Cleared(window) == [x |-> 0, y |-> 0, window |-> window, text |-> [r \in Rows |-> BlankRow]]

-----------------------------------------------------------------------------
(* Output. *)

\* The loop of cons_putchar for a tab.
RECURSIVE TabLoop(_)
TabLoop(con) ==
    LET next == Advanced(Drawn(con, Space), 1)
    IN  IF next.x % 4 = 0 THEN next ELSE TabLoop(next)

\* The width of a tab is what its loop comes to.
ASSUME TabsStop ==
    \A s \in Texts({a, Newline}, Columns + 1), window \in BOOLEAN :
        LET con == PutStr(Cleared(window), s) IN PutChar(con, HTab, TRUE) = TabLoop(con)

\* The same console with a screen that never scrolls.
TallLines == 8
Tall == INSTANCE ConsoleText WITH Lines <- TallLines

\* The screen shows the last lines of all that was written, and the cursor is
\* where it would be; the cursor of a console without a window moves as well.
ASSUME ScreenIsLastLines ==
    \A s \in Texts({a, HTab, Newline, Return}, 6) :
        LET con == PutStr(Cleared(TRUE), s)
            dark == PutStr(Cleared(FALSE), s)
            all == Tall!PutStr([x |-> 0, y |-> 0, window |-> TRUE,
                                text |-> [r \in 0 .. TallLines - 1 |-> BlankRow]], s)
            above == all.y - con.y
        IN  /\ above = 0 \/ (above > 0 /\ con.y = Lines - 1)
            /\ con.x = all.x
            /\ con.text = [r \in Rows |-> all.text[r + above]]
            /\ dark = [Cleared(FALSE) EXCEPT !.x = con.x, !.y = con.y]

-----------------------------------------------------------------------------
(* Input. *)

\* The line as the user sees it: a character is added while there is room, the
\* backspace takes the last one.
Limit == Columns - 1 - Prompt
Expected(keys) ==
    FoldLeft(LAMBDA line, ch : IF ch = Backspace
                               THEN IF line = <<>> THEN line ELSE Front(line)
                               ELSE IF Len(line) < Limit THEN Append(line, ch) ELSE line,
             <<>>, keys)

\* What was typed is what the command gets, whatever cmdline held, and what is
\* seen behind the prompt when Enter has wiped out the cursor; typing never
\* scrolls.
ASSUME LineIsWhatWasTyped ==
    \A keys \in Texts({a, b, Backspace}, 6), y \in Rows, window \in BOOLEAN :
        LET start == [con |-> Prompted([Cleared(window) EXCEPT !.y = y]),
                      cmdline |-> [c \in Cols |-> Dollar]]
            ed == FoldLeft(Key, start, keys)
            line == Expected(keys)
            entered == Entered(ed)
        IN  /\ Line(ed) = line
            /\ ed.con.y = y
            /\ entered.x = 0
            /\ window => entered.text[entered.y - 1] =
                  [c \in Cols |-> CASE c = 0 -> Dollar
                                    [] c - 1 \in DOMAIN line -> line[c - 1]
                                    [] OTHER -> Space]
=============================================================================
