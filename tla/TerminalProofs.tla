--------------------------- MODULE TerminalProofs ---------------------------
(***************************************************************************)
(* The terminal, for screens of any size and any number of terminals: the  *)
(* cursor stays on the screen, every screen is the end of what was written *)
(* on it, and output on one terminal leaves the others alone.  The last    *)
(* two need the first: a row number off the screen would be written        *)
(* nowhere in the model and somewhere else in memory in the code.          *)
(***************************************************************************)
EXTENDS Terminal, SequenceTheorems, TLAPS

USE TerminalAssumption

\* The screen `buffer' is the end of the page p.
Matches(buffer, p) ==
  /\ Len(p) >= SCREEN_HEIGHT
  /\ \A y \in Rows : buffer[y] = p[Len(p) - SCREEN_HEIGHT + y + 1]

TerminalInv == TerminalTypeOK /\ ScreensShowPages

\* What a step that writes on the terminal shown has to establish.
Wrote(buffer, p) ==
  /\ terminal_buffer' = buffer /\ buffer \in [Rows -> Row]
  /\ page' = [page EXCEPT ![current_tty] = p] /\ p \in Seq(Row)
  /\ Matches(buffer, p)

\* Blank rows are rows, and a cleared screen is made of them.
LEMMA BlankType == BlankRow \in Row /\ Cleared \in [Rows -> Row]
  BY DEF BlankRow, Row, Cell, Cleared

\* A cleared screen is the end of a page of blank rows.
LEMMA ClearedMatches ==
  LET p == [i \in 1..SCREEN_HEIGHT |-> BlankRow]
  IN  p \in Seq(Row) /\ Matches(Cleared, p)
<1> DEFINE p == [i \in 1..SCREEN_HEIGHT |-> BlankRow]
<1>1. p \in Seq(Row) /\ Len(p) = SCREEN_HEIGHT
  BY BlankType
<1>2. ASSUME NEW y \in Rows
      PROVE  Cleared[y] = p[Len(p) - SCREEN_HEIGHT + y + 1]
  <2>1. Len(p) - SCREEN_HEIGHT + y + 1 \in 1..SCREEN_HEIGHT
    BY <1>1 DEF Rows
  <2> QED
    BY <2>1 DEF Cleared
<1> QED
  BY <1>1, <1>2 DEF Matches

\* In a good state the screen shown matches its page.
LEMMA ShownMatches ==
  ASSUME TerminalInv
  PROVE  page[current_tty] \in Seq(Row) /\ Matches(terminal_buffer, page[current_tty])
  BY DEF TerminalInv, TerminalTypeOK, ScreensShowPages, ScreenOf, Shown, Matches

\* Writing a cell on the screen and on the page keeps them matching.
LEMMA CellWritten ==
  ASSUME TerminalInv, NEW y \in Rows, NEW x \in Columns, NEW c \in Cell
  PROVE  /\ BufferWith(y, x, c) \in [Rows -> Row]
         /\ PageWith(y, x, c) \in Seq(Row)
         /\ Matches(BufferWith(y, x, c), PageWith(y, x, c))
<1> DEFINE p == page[current_tty]
           k == Len(p) - SCREEN_HEIGHT + y + 1
           r == [p[k] EXCEPT ![x] = c]
           q == [p EXCEPT ![k] = r]
<1>1. p \in Seq(Row) /\ Matches(terminal_buffer, p)
  BY ShownMatches
<1>2. k \in 1..Len(p) /\ p[k] \in Row
  <2>1. Len(p) \in Nat /\ Len(p) >= SCREEN_HEIGHT
    BY <1>1 DEF Matches
  <2>2. k \in 1..Len(p)
    BY <2>1 DEF Rows
  <2> QED
    BY <1>1, <2>2
<1>3. r \in Row
  BY <1>2 DEF Row
<1>4. q \in Seq(Row) /\ Len(q) = Len(p) /\ \A i \in 1..Len(p) : q[i] = IF i = k THEN r ELSE p[i]
  BY <1>1, <1>2, <1>3, ExceptSeq
<1>5. PageWith(y, x, c) = q
  BY DEF PageWith
<1>6. terminal_buffer \in [Rows -> Row] /\ terminal_buffer[y] = p[k]
  BY <1>1 DEF TerminalInv, TerminalTypeOK, Matches
<1>7. /\ BufferWith(y, x, c) \in [Rows -> Row]
      /\ \A z \in Rows : BufferWith(y, x, c)[z] = IF z = y THEN r ELSE terminal_buffer[z]
  BY <1>3, <1>6 DEF BufferWith
<1>8. ASSUME NEW z \in Rows
      PROVE  BufferWith(y, x, c)[z] = q[Len(q) - SCREEN_HEIGHT + z + 1]
  <2> DEFINE m == Len(p) - SCREEN_HEIGHT + z + 1
  <2>0. Len(p) \in Nat /\ Len(p) >= SCREEN_HEIGHT
    BY <1>1 DEF Matches
  <2>1. m \in 1..Len(p) /\ (m = k <=> z = y)
    BY <2>0 DEF Rows
  <2>2. terminal_buffer[z] = p[m]
    BY <1>1 DEF Matches
  <2>3. q[m] = IF z = y THEN r ELSE p[m]
    BY <1>4, <2>1
  <2> QED
    BY <1>4, <1>7, <2>2, <2>3
<1> QED
  BY <1>1, <1>4, <1>5, <1>7, <1>8 DEF Matches

\* Going to the next row, with or without scrolling, keeps the screen and the
\* page matching and the cursor on the screen.
LEMMA NextRowWrote ==
  ASSUME TerminalInv, NEW buffer \in [Rows -> Row], NEW p \in Seq(Row),
         Matches(buffer, p), NextRow(buffer, p)
  PROVE  /\ terminal_row' \in Rows /\ terminal_column' \in Columns
         /\ \E b, q : Wrote(b, q)
<1>1. terminal_column' \in Columns
  BY DEF NextRow, Columns
<1>2. CASE LastRow
  <2> DEFINE b == Scrolled(buffer)
             q == Grown(p)
  <2>1. q \in Seq(Row) /\ Len(q) = Len(p) + 1 /\ q[Len(p) + 1] = BlankRow
        /\ \A i \in 1..Len(p) : q[i] = p[i]
    BY BlankType, AppendProperties DEF Grown
  <2>2. b \in [Rows -> Row]
    BY BlankType DEF Scrolled, Rows
  <2>3. ASSUME NEW y \in Rows
        PROVE  b[y] = q[Len(q) - SCREEN_HEIGHT + y + 1]
    <3>1. CASE y = SCREEN_HEIGHT - 1
      <4>1. Len(q) - SCREEN_HEIGHT + y + 1 = Len(p) + 1
        BY <2>1, <3>1
      <4> QED
        BY <2>1, <3>1, <4>1 DEF Scrolled
    <3>2. CASE y # SCREEN_HEIGHT - 1
      <4>1. y + 1 \in Rows /\ b[y] = buffer[y + 1]
        BY <3>2 DEF Rows, Scrolled
      <4>2. buffer[y + 1] = p[Len(p) - SCREEN_HEIGHT + (y + 1) + 1]
        BY <4>1 DEF Matches
      <4>3. /\ Len(p) - SCREEN_HEIGHT + (y + 1) + 1 \in 1..Len(p)
            /\ Len(q) - SCREEN_HEIGHT + y + 1 = Len(p) - SCREEN_HEIGHT + (y + 1) + 1
        <5>1. Len(p) \in Nat /\ Len(p) >= SCREEN_HEIGHT
          BY DEF Matches
        <5> QED
          BY <2>1, <4>1, <5>1 DEF Rows
      <4> QED
        BY <2>1, <4>1, <4>2, <4>3
    <3> QED
      BY <3>1, <3>2
  <2>4. Matches(b, q)
    BY <2>1, <2>3 DEF Matches
  <2>5. Wrote(b, q)
    BY <1>2, <2>1, <2>2, <2>4 DEF NextRow, Wrote
  <2>6. terminal_row' \in Rows
    BY <1>2 DEF NextRow, TerminalInv, TerminalTypeOK
  <2> QED
    BY <1>1, <2>5, <2>6
<1>3. CASE ~LastRow
  <2>1. terminal_row' \in Rows
    BY <1>3 DEF NextRow, LastRow, TerminalInv, TerminalTypeOK, Rows
  <2>2. Wrote(buffer, p)
    BY <1>3 DEF NextRow, Wrote
  <2> QED
    BY <1>1, <2>1, <2>2
<1> QED
  BY <1>2, <1>3

\* A step that writes on the terminal shown, and leaves the copies alone,
\* keeps the invariant.
LEMMA WroteInv ==
  ASSUME TerminalInv, UNCHANGED <<current_tty, ttys>>,
         terminal_row' \in Rows, terminal_column' \in Columns,
         \E b, q : Wrote(b, q)
  PROVE  TerminalInv'
<1> PICK b, q : Wrote(b, q)
  OBVIOUS
<1>1. TerminalTypeOK'
  BY DEF TerminalInv, TerminalTypeOK, Wrote
<1>2. ASSUME NEW t \in Ttys
      PROVE  /\ Len(page'[t]) >= SCREEN_HEIGHT
             /\ \A y \in Rows :
                  ScreenOf(t)'.buffer[y] = page'[t][Len(page'[t]) - SCREEN_HEIGHT + y + 1]
  <2>1. CASE t = current_tty
    <3>1. page'[t] = q /\ ScreenOf(t)'.buffer = b
      BY <2>1 DEF Wrote, TerminalInv, TerminalTypeOK, ScreenOf, Shown
    <3> QED
      BY <3>1 DEF Wrote, Matches
  <2>2. CASE t # current_tty
    <3>1. page'[t] = page[t] /\ ScreenOf(t)' = ScreenOf(t)
      BY <2>2 DEF Wrote, TerminalInv, TerminalTypeOK, ScreenOf
    <3> QED
      BY <3>1 DEF TerminalInv, ScreensShowPages
  <2> QED
    BY <2>1, <2>2
<1> QED
  BY <1>1, <1>2 DEF TerminalInv, ScreensShowPages

\* terminal_putchar keeps it.
LEMMA PutcharInv == TerminalInv /\ terminal_putchar => TerminalInv'
<1> SUFFICES ASSUME TerminalInv, terminal_putchar PROVE TerminalInv'
  OBVIOUS
<1>0. terminal_row \in Rows /\ terminal_column \in Columns
  BY DEF TerminalInv, TerminalTypeOK
<1>1. CASE PutNewline
  <2>1. terminal_buffer \in [Rows -> Row]
    BY DEF TerminalInv, TerminalTypeOK
  <2> QED
    BY <1>1, <2>1, ShownMatches, NextRowWrote, WroteInv DEF PutNewline
<1>2. CASE PutBackspace
  <2>1. terminal_row' \in Rows /\ terminal_column' \in Columns
    BY <1>0, <1>2 DEF PutBackspace, Rows, Columns
  <2>2. Space \in Cell
    BY DEF Cell
  <2>3. Wrote(BufferWith(terminal_row', terminal_column', Space),
              PageWith(terminal_row', terminal_column', Space))
    BY <1>2, <2>1, <2>2, CellWritten DEF PutBackspace, Wrote
  <2> QED
    BY <1>2, <2>1, <2>3, WroteInv DEF PutBackspace
<1>3. ASSUME NEW c \in Chars, PutCharacter(c)
      PROVE  TerminalInv'
  <2> DEFINE b == BufferWith(terminal_row, terminal_column, c)
             q == PageWith(terminal_row, terminal_column, c)
  <2>1. b \in [Rows -> Row] /\ q \in Seq(Row) /\ Matches(b, q)
    BY <1>0, CellWritten DEF Cell
  <2>2. UNCHANGED <<current_tty, ttys>>
    BY <1>3 DEF PutCharacter
  <2>3. CASE terminal_column = SCREEN_WIDTH - 1
    <3>1. NextRow(b, q)
      BY <1>3, <2>3 DEF PutCharacter
    <3> HIDE DEF b, q
    <3> QED
      BY <2>1, <2>2, <3>1, NextRowWrote, WroteInv
  <2>4. CASE terminal_column # SCREEN_WIDTH - 1
    <3>1. terminal_row' \in Rows /\ terminal_column' \in Columns
      BY <1>0, <1>3, <2>4 DEF PutCharacter, Columns
    <3>2. Wrote(b, q)
      BY <1>3, <2>1, <2>4 DEF PutCharacter, Wrote
    <3> HIDE DEF b, q
    <3> QED
      BY <2>2, <3>1, <3>2, WroteInv
  <2> QED
    BY <2>3, <2>4
<1> QED
  BY <1>1, <1>2, <1>3 DEF terminal_putchar

\* So do clearing the screen,
LEMMA ClearInv == TerminalInv /\ terminal_clear => TerminalInv'
<1> SUFFICES ASSUME TerminalInv, terminal_clear PROVE TerminalInv'
  OBVIOUS
<1>1. terminal_row' \in Rows /\ terminal_column' \in Columns
  BY DEF terminal_clear, Rows, Columns
<1>2. Wrote(Cleared, [i \in 1..SCREEN_HEIGHT |-> BlankRow])
  BY BlankType, ClearedMatches DEF terminal_clear, Wrote
<1> QED
  BY <1>1, <1>2, WroteInv DEF terminal_clear

\* going back to the start of the line,
LEMMA RecallInv == TerminalInv /\ RecallLine => TerminalInv'
<1> SUFFICES ASSUME TerminalInv, RecallLine PROVE TerminalInv'
  OBVIOUS
<1>1. TerminalTypeOK'
  BY DEF TerminalInv, TerminalTypeOK, RecallLine, Columns
<1>2. \A t \in Ttys : ScreenOf(t)'.buffer = ScreenOf(t).buffer
  BY DEF RecallLine, ScreenOf, Shown
<1> QED
  BY <1>1, <1>2 DEF TerminalInv, ScreensShowPages, RecallLine

\* A switch moves the screens between the video buffer and the copies, and
\* changes none of them.
LEMMA SwitchKeeps ==
  ASSUME TerminalTypeOK, NEW t \in Ttys, switch_tty(t)
  PROVE  \A u \in Ttys : ScreenOf(u)' = ScreenOf(u)
<1>1. ttys' = [ttys EXCEPT ![current_tty] = Shown] /\ ttys'[t] = ScreenOf(t)
  BY DEF switch_tty, TerminalTypeOK, ScreenOf
<1>2. ScreenOf(t) \in [row : Rows, column : Columns, buffer : [Rows -> Row]]
  BY DEF TerminalTypeOK, ScreenOf, Shown
<1>3. Shown' = ttys'[t]
  BY <1>1, <1>2 DEF switch_tty, Shown
<1> QED
  BY <1>1, <1>3 DEF switch_tty, TerminalTypeOK, ScreenOf

\* and changing terminals.
LEMMA SwitchInv ==
  ASSUME TerminalInv, NEW t \in Ttys, switch_tty(t)
  PROVE  TerminalInv'
<1>1. TerminalTypeOK'
  BY DEF TerminalInv, TerminalTypeOK, switch_tty, Shown
<1>2. \A u \in Ttys : ScreenOf(u)' = ScreenOf(u)
  BY SwitchKeeps DEF TerminalInv
<1> QED
  BY <1>1, <1>2 DEF TerminalInv, ScreensShowPages, switch_tty

\* All screens are blank at the start, and so are their pages.
LEMMA TerminalInitInv == TerminalInit => TerminalInv
<1> SUFFICES ASSUME TerminalInit PROVE TerminalInv
  OBVIOUS
<1>1. TerminalTypeOK
  BY BlankType, ClearedMatches DEF TerminalInit, TerminalTypeOK, Rows, Columns
<1>2. \A t \in Ttys : ScreenOf(t).buffer = Cleared
                      /\ page[t] = [i \in 1..SCREEN_HEIGHT |-> BlankRow]
  BY DEF TerminalInit, ScreenOf, Shown
<1> QED
  BY <1>1, <1>2, ClearedMatches DEF TerminalInv, ScreensShowPages, Matches

\* The invariant is inductive.
LEMMA TerminalInductive == TerminalInv /\ [TerminalNext]_terminal_vars => TerminalInv'
<1> SUFFICES ASSUME TerminalInv, [TerminalNext]_terminal_vars PROVE TerminalInv'
  OBVIOUS
<1>1. CASE TerminalNext
  BY <1>1, PutcharInv, ClearInv, RecallInv, SwitchInv DEF TerminalNext
<1>2. CASE UNCHANGED terminal_vars
  BY <1>2 DEF terminal_vars, screen_vars, TerminalInv, TerminalTypeOK,
              ScreensShowPages, ScreenOf, Shown
<1> QED
  BY <1>1, <1>2

\* The cursor is always on the screen, and every screen is the end of what
\* was written on it, through wrapping, scrolling, erasing and switching.
THEOREM ScreensCorrect == TerminalSpec => [](TerminalTypeOK /\ ScreensShowPages)
<1>1. TerminalInv => TerminalTypeOK /\ ScreensShowPages
  BY DEF TerminalInv
<1> QED
  BY <1>1, TerminalInitInv, TerminalInductive, PTL DEF TerminalSpec

\* Every screen is a grid of cells and every cursor on it.
THEOREM TerminalTypeCorrect == TerminalSpec => []TerminalTypeOK
<1> QED
  BY ScreensCorrect, PTL

\* Output changes the terminal shown only, and a switch changes no screen.
THEOREM TerminalsApart == TerminalSpec => KeepsOtherScreens
<1>1. TerminalInv /\ [TerminalNext]_terminal_vars =>
        [\A t \in Ttys : ScreenOf(t)' # ScreenOf(t) =>
           t = current_tty /\ current_tty' = current_tty]_terminal_vars
  <2> SUFFICES ASSUME TerminalInv, TerminalNext, NEW t \in Ttys,
                      ScreenOf(t)' # ScreenOf(t)
               PROVE  t = current_tty /\ current_tty' = current_tty
    OBVIOUS
  <2>1. CASE terminal_putchar
    BY <2>1 DEF terminal_putchar, PutNewline, PutBackspace, PutCharacter, ScreenOf
  <2>2. CASE terminal_clear
    BY <2>2 DEF terminal_clear, ScreenOf
  <2>3. CASE RecallLine
    BY <2>3 DEF RecallLine, ScreenOf
  <2>4. CASE \E u \in Ttys : switch_tty(u)
    BY <2>4, SwitchKeeps DEF TerminalInv
  <2> QED
    BY <2>1, <2>2, <2>3, <2>4 DEF TerminalNext
<1> QED
  BY <1>1, TerminalInitInv, TerminalInductive, PTL DEF TerminalSpec, KeepsOtherScreens
=============================================================================
