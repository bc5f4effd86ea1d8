------------------------------ MODULE Terminal ------------------------------
(***************************************************************************)
(* The text terminal: terminal_putchar with its wrapping, scrolling and    *)
(* erasing, terminal_clear, and switch_tty's exchange of screens.  There   *)
(* is one video buffer; a terminal that is not shown has a copy of what    *)
(* its screen was.  Colours are left out, and so is the hardware cursor,   *)
(* which follows terminal_row and terminal_column.                         *)
(***************************************************************************)
EXTENDS Integers, Sequences

CONSTANTS
  SCREEN_WIDTH, SCREEN_HEIGHT,   \* (80, 25)
  Ttys,                          \* the terminals, tty 0 among them
  Chars,                         \* the characters programs write
  Space,                         \* the blank cell
  MaxRows                        \* bound: rows written between two clears

ASSUME TerminalAssumption ==
  /\ SCREEN_WIDTH \in Nat \ {0} /\ SCREEN_HEIGHT \in Nat \ {0}
  /\ 0 \in Ttys
  /\ MaxRows \in Nat /\ SCREEN_HEIGHT <= MaxRows

VARIABLES
  terminal_row, terminal_column, terminal_buffer,
  current_tty,
  ttys,    \* the saved row, column and buffer of every terminal
  page     \* history: for every terminal, the rows written since it was
           \* last cleared, those that have scrolled away included

screen_vars   == <<terminal_row, terminal_column, terminal_buffer>>
terminal_vars == <<screen_vars, current_tty, ttys, page>>

Rows     == 0..(SCREEN_HEIGHT - 1)
Columns  == 0..(SCREEN_WIDTH - 1)
Cell     == Chars \cup {Space}
Row      == [Columns -> Cell]
BlankRow == [x \in Columns |-> Space]
Cleared  == [y \in Rows |-> BlankRow]

TerminalTypeOK ==
  /\ terminal_row \in Rows /\ terminal_column \in Columns
  /\ terminal_buffer \in [Rows -> Row]
  /\ current_tty \in Ttys
  /\ ttys \in [Ttys -> [row : Rows, column : Columns, buffer : [Rows -> Row]]]
  /\ page \in [Ttys -> Seq(Row)]

\* terminal_initialize
TerminalInit ==
  /\ terminal_row = 0 /\ terminal_column = 0 /\ terminal_buffer = Cleared
  /\ current_tty = 0
  /\ ttys = [t \in Ttys |-> [row |-> 0, column |-> 0, buffer |-> Cleared]]
  /\ page = [t \in Ttys |-> [i \in 1..SCREEN_HEIGHT |-> BlankRow]]

-----------------------------------------------------------------------------
(* The page, as history: cells are written in it at the same place, counted *)
(* from its end, and never move.                                            *)

PageWith(y, x, c) ==
  LET p == page[current_tty]
  IN  [p EXCEPT ![Len(p) - SCREEN_HEIGHT + y + 1][x] = c]

Grown(p) == Append(p, BlankRow)

-----------------------------------------------------------------------------
(* Output                                                                  *)

Scrolled_KeepsTop(buffer) ==
  [y \in Rows |-> IF y = 0 \/ y = SCREEN_HEIGHT - 1 THEN BlankRow ELSE buffer[y]]

\* The buffer after terminal_scroll.
Scrolled(buffer) ==
  [y \in Rows |-> IF y = SCREEN_HEIGHT - 1 THEN BlankRow ELSE buffer[y + 1]]

LastRow_OneMore == terminal_row = SCREEN_HEIGHT

LastRow == terminal_row = SCREEN_HEIGHT - 1

\* Go to the start of the next row; `buffer' and `p' are the screen and the
\* page with what has been written before.
NextRow(buffer, p) ==
  /\ terminal_column' = 0
  /\ IF LastRow
     THEN /\ Len(p) < MaxRows
          /\ terminal_buffer' = Scrolled(buffer)
          /\ page' = [page EXCEPT ![current_tty] = Grown(p)]
          /\ UNCHANGED terminal_row
     ELSE /\ terminal_row' = terminal_row + 1
          /\ terminal_buffer' = buffer
          /\ page' = [page EXCEPT ![current_tty] = p]

\* terminal_putchar('\n')
PutNewline ==
  /\ NextRow(terminal_buffer, page[current_tty])
  /\ UNCHANGED <<current_tty, ttys>>

BufferWith(y, x, c) == [terminal_buffer EXCEPT ![y][x] = c]

\* terminal_putchar('\b'): back to the last column of the row above, at the
\* start of a row, and no further than the top of the screen.
PutBackspace ==
  /\ \/ /\ terminal_column > 0
        /\ terminal_column' = terminal_column - 1
        /\ terminal_row' = terminal_row
     \/ /\ terminal_column = 0 /\ terminal_row > 0
        /\ terminal_row' = terminal_row - 1
        /\ terminal_column' = SCREEN_WIDTH - 1
  /\ terminal_buffer' = BufferWith(terminal_row', terminal_column', Space)
  /\ page' = [page EXCEPT ![current_tty] =
                PageWith(terminal_row', terminal_column', Space)]
  /\ UNCHANGED <<current_tty, ttys>>

\* terminal_putchar(c) for any other character.
PutCharacter(c) ==
  LET buffer == BufferWith(terminal_row, terminal_column, c)
      p      == PageWith(terminal_row, terminal_column, c)
  IN  /\ IF terminal_column = SCREEN_WIDTH - 1 THEN NextRow(buffer, p)
         ELSE /\ terminal_column' = terminal_column + 1
              /\ terminal_buffer' = buffer
              /\ page' = [page EXCEPT ![current_tty] = p]
              /\ UNCHANGED terminal_row
      /\ UNCHANGED <<current_tty, ttys>>

terminal_putchar == PutNewline \/ PutBackspace \/ \E c \in Chars : PutCharacter(c)

terminal_clear ==
  /\ terminal_buffer' = Cleared /\ terminal_row' = 0 /\ terminal_column' = 0
  /\ page' = [page EXCEPT ![current_tty] = [i \in 1..SCREEN_HEIGHT |-> BlankRow]]
  /\ UNCHANGED <<current_tty, ttys>>

\* The shell writes a line of the history over the one being edited.
RecallLine ==
  /\ terminal_column' = 0
  /\ UNCHANGED <<terminal_row, terminal_buffer, current_tty, ttys, page>>

-----------------------------------------------------------------------------
(* Terminals                                                               *)

Shown == [row |-> terminal_row, column |-> terminal_column,
          buffer |-> terminal_buffer]

switch_tty_NotSaved(t) ==
  /\ current_tty' = t
  /\ terminal_row' = ttys[t].row /\ terminal_column' = ttys[t].column
  /\ terminal_buffer' = ttys[t].buffer
  /\ UNCHANGED <<ttys, page>>

\* save_tty_state, then restore_tty_state, which may be of the same terminal.
switch_tty(t) ==
  /\ ttys' = [ttys EXCEPT ![current_tty] = Shown]
  /\ current_tty' = t
  /\ terminal_row' = ttys'[t].row /\ terminal_column' = ttys'[t].column
  /\ terminal_buffer' = ttys'[t].buffer
  /\ UNCHANGED page

TerminalNext ==
  \/ terminal_putchar
  \/ terminal_clear
  \/ RecallLine
  \/ \E t \in Ttys : switch_tty(t)

TerminalSpec == TerminalInit /\ [][TerminalNext]_terminal_vars

-----------------------------------------------------------------------------
(* Properties                                                              *)

\* The screen of a terminal, shown or not.
ScreenOf(t) == IF t = current_tty THEN Shown ELSE ttys[t]

\* Every terminal's screen is the end of what has been written on it: rows
\* move up in order and unchanged when it scrolls, and are kept while another
\* terminal is shown.
ScreensShowPages ==
  \A t \in Ttys :
    /\ Len(page[t]) >= SCREEN_HEIGHT
    /\ \A y \in Rows :
         ScreenOf(t).buffer[y] = page[t][Len(page[t]) - SCREEN_HEIGHT + y + 1]

\* Output changes the screen of the terminal shown and of no other, and
\* changing terminals changes no screen, nor the place where it is written.
KeepsOtherScreens ==
  [][\A t \in Ttys : ScreenOf(t)' # ScreenOf(t) =>
       t = current_tty /\ current_tty' = current_tty]_terminal_vars
=============================================================================
