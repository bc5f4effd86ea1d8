------------------------------- MODULE Session -------------------------------
(***************************************************************************)
(* Who reads the keys: login_screen, shell and switch_tty, and the line    *)
(* editor and command history of the shell.                                *)
(*                                                                         *)
(* All terminals share one call stack.  keyboard_getchar calls switch_tty, *)
(* which calls login_screen for a terminal nobody has logged in to, which  *)
(* calls shell, which never returns; exit calls login_screen from inside   *)
(* the shell.  So a reader that has called another one is never resumed,   *)
(* and only the innermost one, with its local variables, is part of the    *)
(* state; the variables of the others are empty.                           *)
(***************************************************************************)
EXTENDS Integers, Sequences

CONSTANTS
  Ttys,           \* the terminals, tty 0 among them
  Chars,          \* the characters that all readers take for text
  NAME_LEN,       \* characters kept of a user name or password   (31)
  MAX_CMD_LEN,    \* the size of the command buffer               (256)
  HISTORY_SIZE,   \* commands kept                                (100)
  Root, One,      \* the user name "root", and "1"
  ExitLines,      \* the lines whose first word is exit
  PauseLines,     \* those with pause, info or Z: they wait for a key
  MaxLog          \* bound: commands entered in a run

Newline == "newline"
Erase   == "erase"
Up      == "up"         \* '\x11'
Down    == "down"       \* '\x12'
Aside   == "aside"      \* '\x13' and '\x14'

\* login_screen keeps what only the shell treats in a special way.
NameChars == Chars \cup {Up, Down, Aside}
Bytes     == NameChars \cup {Newline, Erase}

ASSUME SessionAssumption ==
  /\ 0 \in Ttys
  /\ Chars \cap {Newline, Erase, Up, Down, Aside} = {}
  /\ NAME_LEN \in Nat \ {0} /\ HISTORY_SIZE \in Nat \ {0}
  /\ MAX_CMD_LEN \in Nat /\ MAX_CMD_LEN > 2
  /\ ExitLines \cap PauseLines = {}
  /\ MaxLog \in Nat

VARIABLES
  current_tty, logged_in,
  reader,              \* the innermost reader: "user", "password", "shell", or
                       \* "key" for a command that waits for one
  username, password,  \* the lines of the innermost login_screen
  cmd,                 \* the line of the innermost shell
  command_history, history_pos,
  log                  \* history: every command entered

lines        == <<username, password, cmd>>
history_vars == <<command_history, history_pos, log>>
session_vars == <<current_tty, logged_in, reader, lines, history_vars>>

SessionTypeOK ==
  /\ current_tty \in Ttys
  /\ logged_in \in SUBSET Ttys
  /\ reader \in {"user", "password", "shell", "key"}
  /\ username \in Seq(NameChars) /\ Len(username) <= NAME_LEN
  /\ password \in Seq(NameChars) /\ Len(password) <= NAME_LEN
  /\ cmd \in Seq(Chars)
  /\ command_history \in Seq(Seq(Chars)) /\ Len(command_history) <= HISTORY_SIZE
  /\ history_pos \in Nat
  /\ log \in Seq(Seq(Chars)) /\ Len(log) <= MaxLog

SessionInit ==
  /\ current_tty = 0
  /\ logged_in = {}
  /\ reader = "user"
  /\ username = << >> /\ password = << >> /\ cmd = << >>
  /\ command_history = << >> /\ history_pos = 0
  /\ log = << >>

-----------------------------------------------------------------------------
(* Calling a reader                                                        *)

Start(r) == reader' = r /\ username' = << >> /\ password' = << >> /\ cmd' = << >>

login_screen == Start("user")
shell        == Start("shell")

Trim(line) == IF line = << >> THEN line ELSE SubSeq(line, 1, Len(line) - 1)

switch_tty_KeepsReader(t) ==
  /\ current_tty' = t
  /\ UNCHANGED <<logged_in, reader, lines, history_vars>>

\* save_tty_state and restore_tty_state copy the screen and the working
\* directory, which are not part of this module.
switch_tty(t) ==
  /\ current_tty' = t
  /\ IF t \in logged_in THEN UNCHANGED <<reader, lines>> ELSE login_screen
  /\ UNCHANGED <<logged_in, history_vars>>

-----------------------------------------------------------------------------
(* login_screen, given the character c by keyboard_getchar                 *)

login_vars == <<current_tty, logged_in, cmd, history_vars>>

Keep_NoLimit(line, c) == Append(line, c)

\* One more character of a name or a password, while it fits the buffer.
Keep(line, c) == IF Len(line) < NAME_LEN THEN Append(line, c) ELSE line

Edited(line, c) == IF c = Erase THEN Trim(line) ELSE Keep(line, c)

EditUser(c) ==
  /\ reader = "user" /\ c # Newline
  /\ username' = Edited(username, c)
  /\ UNCHANGED <<login_vars, reader, password>>

EnterUser(c) ==
  /\ reader = "user" /\ c = Newline
  /\ reader' = "password"
  /\ UNCHANGED <<login_vars, username, password>>

EditPassword(c) ==
  /\ reader = "password" /\ c # Newline
  /\ password' = Edited(password, c)
  /\ UNCHANGED <<login_vars, reader, username>>

Accepted(user) == username = user /\ password = One

\* User "1" is welcomed and logged in, but only "root" gets a shell.
StartsShell == Accepted(Root)

EnterPassword(c) ==
  /\ reader = "password" /\ c = Newline
  /\ logged_in' = IF Accepted(One) \/ Accepted(Root)
                  THEN logged_in \cup {current_tty} ELSE logged_in
  /\ IF StartsShell THEN shell ELSE login_screen
  /\ UNCHANGED <<current_tty, history_vars>>

-----------------------------------------------------------------------------
(* shell, given the character c.  The loop that reads a line ends when     *)
(* MAX_CMD_LEN - 1 characters are in it: the line is dropped and a new     *)
(* prompt printed.                                                         *)

shell_vars == <<current_tty, logged_in, reader, username, password>>

Extend_OneMore(line) == IF Len(line) = MAX_CMD_LEN THEN << >> ELSE line

Extend(line) == IF Len(line) = MAX_CMD_LEN - 1 THEN << >> ELSE line

TypeCommand(c) ==
  /\ reader = "shell" /\ c \notin {Newline, Erase, Up, Down, Aside}
  /\ cmd' = Extend(Append(cmd, c))
  /\ UNCHANGED <<shell_vars, history_vars>>

EraseCommand(c) ==
  /\ reader = "shell" /\ c = Erase
  /\ cmd' = Trim(cmd)
  /\ UNCHANGED <<shell_vars, history_vars>>

AddToHistory_DropsLast(h, line) ==
  IF Len(h) < HISTORY_SIZE THEN Append(h, line)
  ELSE Append(SubSeq(h, 1, HISTORY_SIZE - 1), line)

\* command_history after add_to_history(line): the oldest goes when it is full.
AddToHistory(h, line) ==
  IF Len(h) < HISTORY_SIZE THEN Append(h, line)
  ELSE Append(SubSeq(h, 2, HISTORY_SIZE), line)

add_to_history ==
  \/ /\ cmd = << >>
     /\ UNCHANGED history_vars
  \/ /\ cmd # << >> /\ Len(log) < MaxLog
     /\ command_history' = AddToHistory(command_history, cmd)
     /\ history_pos' = Len(command_history')
     /\ log' = Append(log, cmd)

EnterCommand_StaysLoggedIn(c) ==
  /\ reader = "shell" /\ c = Newline
  /\ add_to_history
  /\ IF cmd \in ExitLines THEN login_screen
     ELSE Start(IF cmd \in PauseLines THEN "key" ELSE "shell")
  /\ UNCHANGED <<current_tty, logged_in>>

\* exit calls login_screen, pause and its like wait for a key, sh calls shell
\* again, and the other commands come back to the prompt.
EnterCommand(c) ==
  /\ reader = "shell" /\ c = Newline
  /\ add_to_history
  /\ IF cmd \in ExitLines
     THEN logged_in' = logged_in \ {current_tty} /\ login_screen
     ELSE Start(IF cmd \in PauseLines THEN "key" ELSE "shell") /\ UNCHANGED logged_in
  /\ UNCHANGED current_tty

Recall(pos) ==
  /\ history_pos' = pos
  /\ cmd' = command_history[pos + 1]
  /\ UNCHANGED <<shell_vars, command_history, log>>

HistoryUp(c) ==
  reader = "shell" /\ c = Up /\ history_pos > 0 /\ Recall(history_pos - 1)

HistoryDown(c) ==
  /\ reader = "shell" /\ c = Down /\ history_pos < Len(command_history) - 1
  /\ Recall(history_pos + 1)

\* The other two arrows, and recalling beyond the ends of the history.
Ignore(c) ==
  /\ reader = "shell"
  /\ \/ c = Aside
     \/ c = Up /\ history_pos = 0
     \/ c = Down /\ history_pos >= Len(command_history) - 1
  /\ UNCHANGED session_vars

\* A command has its key, whichever it is, and ends.
ResumeShell ==
  /\ reader = "key" /\ shell
  /\ UNCHANGED <<current_tty, logged_in, history_vars>>

\* keyboard_getchar has returned c to the innermost reader.
Read(c) ==
  \/ EditUser(c) \/ EnterUser(c) \/ EditPassword(c) \/ EnterPassword(c)
  \/ TypeCommand(c) \/ EraseCommand(c) \/ EnterCommand(c)
  \/ HistoryUp(c) \/ HistoryDown(c) \/ Ignore(c) \/ ResumeShell

SessionNext == (\E t \in Ttys : switch_tty(t)) \/ (\E c \in Bytes : Read(c))

SessionSpec == SessionInit /\ [][SessionNext]_session_vars

-----------------------------------------------------------------------------
(* Properties                                                              *)

\* A shell never serves a terminal that is not logged in, through logins,
\* exits and switches in any order, and neither does a command that waits for
\* a key: the shell that was left behind by a switch is either under a
\* login_screen or on a terminal that is logged in.
ShellServesLoggedIn == reader \in {"shell", "key"} => current_tty \in logged_in

\* A line in the editor, typed or recalled and edited, and every line kept,
\* leaves room in its buffer for one more character and the terminating zero.
LinesFit ==
  /\ Len(cmd) <= MAX_CMD_LEN - 2
  /\ \A i \in 1..Len(command_history) :
       Len(command_history[i]) \in 1..(MAX_CMD_LEN - 2)

\* The history holds the last commands entered, oldest first, whichever
\* terminal they were entered on, and history_pos stays inside it.
HistoryIsRecent ==
  LET kept == IF Len(log) < HISTORY_SIZE THEN Len(log) ELSE HISTORY_SIZE
  IN  /\ command_history = SubSeq(log, Len(log) - kept + 1, Len(log))
      /\ history_pos \in 0..kept

\* The two loops of login_screen are one reader to the others.
ReaderKind == IF reader \in {"user", "password"} THEN "login" ELSE reader

Abstract == INSTANCE Readers WITH reader <- ReaderKind

\* login_screen, shell, exit, pause and switch_tty, nested in one another in
\* any order, behave as Readers says, whatever is typed at which prompt.
ImplementsReaders == Abstract!ReadersSpec
=============================================================================
