---------------------------- MODULE ConsoleProofs ----------------------------
(***************************************************************************)
(* Logins, readers, line editor, history and the keyboard in front of      *)
(* them, for any number of terminals, any sizes of the buffers and of the  *)
(* history, and any key maps.                                              *)
(*                                                                         *)
(* The properties of Session are inductive only together: a recalled line  *)
(* is a line because history_pos stays inside the history, and it fits     *)
(* because the lines kept do.  Console inherits them, because the driver   *)
(* only ever hands bytes to the readers.                                   *)
(***************************************************************************)
EXTENDS Console, SequenceTheorems, TLAPS

USE SessionAssumption

Lines == Seq(Chars)

\* Erasing the last character of a line leaves a line that is no longer.
LEMMA TrimType ==
  ASSUME NEW S, NEW line \in Seq(S)
  PROVE  /\ Trim(line) \in Seq(S)
         /\ Len(Trim(line)) \in Nat /\ Len(Trim(line)) <= Len(line)
<1>1. CASE line = << >>
  BY <1>1 DEF Trim
<1>2. CASE line # << >>
  <2>1. Len(line) \in Nat \ {0}
    BY <1>2, EmptySeq
  <2>2. \A i \in 1..(Len(line) - 1) : line[i] \in S
    BY <2>1
  <2>3. /\ SubSeq(line, 1, Len(line) - 1) \in Seq(S)
        /\ Len(SubSeq(line, 1, Len(line) - 1)) =
             IF 1 <= Len(line) - 1 THEN (Len(line) - 1) - 1 + 1 ELSE 0
    <3>1. 1 \in Int /\ Len(line) - 1 \in Int
      BY <2>1
    <3> QED
      BY <2>2, <3>1, SubSeqProperties
  <2> QED
    BY <1>2, <2>1, <2>3 DEF Trim
<1> QED
  BY <1>1, <1>2

\* A name stays within its buffer whatever is typed.
LEMMA EditedType ==
  ASSUME NEW line \in Seq(NameChars), Len(line) <= NAME_LEN,
         NEW c \in Bytes, c # Newline
  PROVE  Edited(line, c) \in Seq(NameChars) /\ Len(Edited(line, c)) <= NAME_LEN
<1>1. CASE c = Erase
  BY <1>1, TrimType DEF Edited
<1>2. CASE c # Erase
  <2>1. c \in NameChars
    BY <1>2 DEF Bytes
  <2>2. Append(line, c) \in Seq(NameChars) /\ Len(Append(line, c)) = Len(line) + 1
    BY <2>1, AppendProperties
  <2> QED
    BY <1>2, <2>2 DEF Edited, Keep
<1> QED
  BY <1>1, <1>2

\* So does a command: the character that fills its buffer empties it.
LEMMA ExtendType ==
  ASSUME NEW line \in Lines, Len(line) <= MAX_CMD_LEN - 2, NEW c \in Chars
  PROVE  /\ Extend(Append(line, c)) \in Lines
         /\ Len(Extend(Append(line, c))) <= MAX_CMD_LEN - 2
<1>1. Append(line, c) \in Lines /\ Len(Append(line, c)) = Len(line) + 1
  BY AppendProperties DEF Lines
<1>2. << >> \in Lines /\ Len(<< >>) = 0
  BY EmptySeq DEF Lines
<1>3. Len(line) \in Nat
  BY DEF Lines
<1> QED
  BY <1>1, <1>2, <1>3 DEF Extend

-----------------------------------------------------------------------------
(* The history                                                             *)

Kept(i) == IF i < HISTORY_SIZE THEN i ELSE HISTORY_SIZE

\* The last lines of l, as many as are kept.
Recent(l) == SubSeq(l, Len(l) - Kept(Len(l)) + 1, Len(l))

\* Recent lines, one by one.
LEMMA RecentLines ==
  ASSUME NEW l \in Seq(Lines)
  PROVE  /\ Recent(l) \in Seq(Lines)
         /\ Len(Recent(l)) = Kept(Len(l))
         /\ Kept(Len(l)) \in 0..Len(l) /\ Kept(Len(l)) <= HISTORY_SIZE
         /\ \A i \in 1..Kept(Len(l)) : Recent(l)[i] = l[Len(l) - Kept(Len(l)) + i]
<1> DEFINE k == Kept(Len(l))
           m == Len(l) - k + 1
<1>1. Len(l) \in Nat /\ \A i \in 1..Len(l) : l[i] \in Lines
  OBVIOUS
<1>2. k \in 0..Len(l) /\ k <= HISTORY_SIZE /\ m \in Int /\ m >= 1 /\ m - 1 + k = Len(l)
  BY <1>1 DEF Kept
<1>3. \A i \in m..Len(l) : l[i] \in Lines
  BY <1>1, <1>2
<1> HIDE DEF k
<1>4. /\ SubSeq(l, m, Len(l)) \in Seq(Lines)
      /\ Len(SubSeq(l, m, Len(l))) = IF m <= Len(l) THEN Len(l) - m + 1 ELSE 0
      /\ \A i \in 1..(Len(l) - m + 1) : SubSeq(l, m, Len(l))[i] = l[m + i - 1]
  BY <1>1, <1>2, <1>3, SubSeqProperties
<1>5. Len(SubSeq(l, m, Len(l))) = k /\ Len(l) - m + 1 = k
  BY <1>1, <1>2, <1>4
<1>6. \A i \in 1..k : m + i - 1 = Len(l) - k + i
  BY <1>1, <1>2
<1>7. Recent(l) = SubSeq(l, m, Len(l))
  BY DEF Recent, k
<1> QED
  BY <1>2, <1>4, <1>5, <1>6, <1>7 DEF k

\* add_to_history keeps the recent lines recent.
LEMMA HistoryGrows ==
  ASSUME NEW l \in Seq(Lines), NEW line \in Lines
  PROVE  /\ AddToHistory(Recent(l), line) = Recent(Append(l, line))
         /\ AddToHistory(Recent(l), line) \in Seq(Lines)
<1> DEFINE h == Recent(l)
           n == Append(l, line)
           r == Recent(n)
           k == Kept(Len(l))
           a == AddToHistory(h, line)
<1>1. Len(l) \in Nat /\ n \in Seq(Lines) /\ Len(n) = Len(l) + 1
      /\ n[Len(l) + 1] = line /\ \A i \in 1..Len(l) : n[i] = l[i]
  BY AppendProperties
<1>2. /\ h \in Seq(Lines) /\ Len(h) = k /\ k \in 0..Len(l) /\ k <= HISTORY_SIZE
      /\ \A i \in 1..k : h[i] = l[Len(l) - k + i]
  BY RecentLines
<1>3. /\ r \in Seq(Lines) /\ Len(r) = Kept(Len(l) + 1)
      /\ \A i \in 1..Kept(Len(l) + 1) : r[i] = n[Len(l) + 1 - Kept(Len(l) + 1) + i]
  <2> HIDE DEF n
  <2>1. /\ r \in Seq(Lines) /\ Len(r) = Kept(Len(n))
        /\ \A i \in 1..Kept(Len(n)) : r[i] = n[Len(n) - Kept(Len(n)) + i]
    BY <1>1, RecentLines
  <2>2. Len(n) = Len(l) + 1
    BY <1>1
  <2> HIDE DEF r
  <2> DEFINE u == Len(n)
  <2>3. r \in Seq(Lines) /\ Len(r) = Kept(u) /\ \A i \in 1..Kept(u) : r[i] = n[u - Kept(u) + i]
    BY <2>1
  <2>4. u = Len(l) + 1
    BY <2>2
  <2> HIDE DEF u
  <2> QED
    BY <2>3, <2>4
<1>4. CASE Len(l) < HISTORY_SIZE
  <2>1. k = Len(l) /\ Kept(Len(l) + 1) = Len(l) + 1
    BY <1>1, <1>4 DEF Kept
  <2>2. a = Append(h, line)
    BY <1>2, <1>4, <2>1 DEF AddToHistory
  <2>3. a \in Seq(Lines) /\ Len(a) = Len(l) + 1 /\ a[Len(l) + 1] = line
        /\ \A i \in 1..Len(l) : a[i] = h[i]
    BY <1>2, <2>1, <2>2, AppendProperties
  <2>4. \A i \in 1..(Len(l) + 1) : r[i] = n[i]
    BY <1>1, <1>3, <2>1
  <2>5. \A i \in 1..Len(l) : a[i] = l[i]
    BY <1>1, <1>2, <2>1, <2>3
  <2>6. \A i \in 1..(Len(l) + 1) : a[i] = r[i]
    BY <1>1, <2>3, <2>4, <2>5
  <2> HIDE DEF a, r
  <2>7. Len(a) = Len(r)
    BY <1>3, <2>1, <2>3
  <2>8. a = r
    BY <1>3, <2>3, <2>6, <2>7, SeqEqual
  <2> QED
    BY <2>3, <2>8 DEF a, r
<1>5. CASE ~(Len(l) < HISTORY_SIZE)
  <2>1. k = HISTORY_SIZE /\ Kept(Len(l) + 1) = HISTORY_SIZE
    BY <1>1, <1>5 DEF Kept
  <2> DEFINE t == SubSeq(h, 2, HISTORY_SIZE)
  <2>2. a = Append(t, line)
    BY <1>2, <2>1 DEF AddToHistory
  <2>3. t \in Seq(Lines) /\ Len(t) = HISTORY_SIZE - 1
        /\ \A i \in 1..(HISTORY_SIZE - 1) : t[i] = h[i + 1]
    <3>1. \A i \in 2..HISTORY_SIZE : h[i] \in Lines
      BY <1>2, <2>1
    <3> HIDE DEF h
    <3>2. /\ t \in Seq(Lines)
          /\ Len(t) = IF 2 <= HISTORY_SIZE THEN HISTORY_SIZE - 2 + 1 ELSE 0
          /\ \A i \in 1..(HISTORY_SIZE - 2 + 1) : t[i] = h[2 + i - 1]
      BY <3>1, SubSeqProperties
    <3>3. \A i \in 1..(HISTORY_SIZE - 1) : t[i] = h[i + 1]
      BY <3>2
    <3> QED
      BY <3>2, <3>3
  <2> HIDE DEF t
  <2>4. a \in Seq(Lines) /\ Len(a) = HISTORY_SIZE /\ a[HISTORY_SIZE] = line
        /\ \A i \in 1..(HISTORY_SIZE - 1) : a[i] = t[i]
    BY <2>2, <2>3, AppendProperties
  <2>5. ASSUME NEW i \in 1..HISTORY_SIZE
        PROVE  a[i] = r[i]
    <3>1. r[i] = n[Len(l) + 1 - HISTORY_SIZE + i]
      BY <1>3, <2>1
    <3>2. CASE i = HISTORY_SIZE
      <4>1. Len(l) + 1 - HISTORY_SIZE + i = Len(l) + 1
        BY <1>1, <3>2
      <4> QED
        BY <1>1, <2>4, <3>1, <3>2, <4>1
    <3>3. CASE i # HISTORY_SIZE
      <4>1. i + 1 \in 1..k /\ i \in 1..(HISTORY_SIZE - 1)
        BY <2>1, <3>3
      <4>2. /\ Len(l) - k + (i + 1) = Len(l) + 1 - HISTORY_SIZE + i
            /\ Len(l) - k + (i + 1) \in 1..Len(l)
        BY <1>1, <1>2, <2>1, <4>1
      <4>3. h[i + 1] = l[Len(l) - k + (i + 1)]
        BY <1>2, <4>1
      <4> QED
        BY <1>1, <2>3, <2>4, <3>1, <4>1, <4>2, <4>3
    <3> QED
      BY <3>2, <3>3
  <2> HIDE DEF a, r
  <2>6. a = r
    BY <1>3, <2>1, <2>4, <2>5, SeqEqual
  <2> QED
    BY <2>4, <2>6 DEF a, r
<1> QED
  BY <1>4, <1>5
-----------------------------------------------------------------------------
(* Readers                                                                 *)

SessionInv ==
  SessionTypeOK /\ ShellServesLoggedIn /\ LinesFit /\ HistoryIsRecent

\* The same, with the history in one word.
LEMMA HistoryAsRecent ==
  ASSUME SessionTypeOK
  PROVE  HistoryIsRecent <=> /\ command_history = Recent(log)
                             /\ history_pos \in 0..Len(command_history)
<1>1. log \in Seq(Lines)
  BY DEF SessionTypeOK, Lines
<1>2. Len(Recent(log)) = Kept(Len(log))
  BY <1>1, RecentLines
<1> QED
  BY <1>2 DEF HistoryIsRecent, Recent, Kept

\* The machine starts with nobody logged in and an empty history.
LEMMA SessionInitInv == SessionInit => SessionInv
<1> SUFFICES ASSUME SessionInit PROVE SessionInv
  OBVIOUS
<1>1. \A S : << >> \in Seq(S)
  BY EmptySeq
<1>2. SessionTypeOK
  BY <1>1 DEF SessionInit, SessionTypeOK
<1>3. Recent(<< >>) = << >>
  BY SubSeqEmpty DEF Recent, Kept
<1>4. HistoryIsRecent
  BY <1>2, <1>3, HistoryAsRecent DEF SessionInit
<1> QED
  BY <1>2, <1>4 DEF SessionInit, SessionInv, ShellServesLoggedIn, LinesFit

\* A reader that is called starts with empty lines.
LEMMA StartedLines ==
  ASSUME NEW r, Start(r)
  PROVE  /\ reader' = r
         /\ username' \in Seq(NameChars) /\ Len(username') <= NAME_LEN
         /\ password' \in Seq(NameChars) /\ Len(password') <= NAME_LEN
         /\ cmd' \in Lines /\ Len(cmd') <= MAX_CMD_LEN - 2
<1>1. \A S : << >> \in Seq(S)
  BY EmptySeq
<1> QED
  BY <1>1 DEF Start, Lines

\* Steps that leave the history alone keep what is known of it.
LEMMA HistoryKept ==
  ASSUME SessionInv, UNCHANGED history_vars
  PROVE  /\ HistoryIsRecent'
         /\ command_history' \in Seq(Lines) /\ Len(command_history') <= HISTORY_SIZE
         /\ history_pos' \in Nat
         /\ log' \in Seq(Lines) /\ Len(log') <= MaxLog
         /\ \A i \in 1..Len(command_history') :
              Len(command_history'[i]) \in 1..(MAX_CMD_LEN - 2)
  BY DEF SessionInv, SessionTypeOK, HistoryIsRecent, LinesFit, history_vars, Lines

\* And so do steps that change nothing.
LEMMA NothingChanges ==
  ASSUME SessionInv, UNCHANGED session_vars
  PROVE  SessionInv'
<1>1. UNCHANGED history_vars
  BY DEF session_vars
<1>2. UNCHANGED <<current_tty, logged_in, reader, username, password, cmd>>
  BY DEF session_vars, lines
<1>3. SessionTypeOK'
  BY <1>1, <1>2, HistoryKept DEF SessionInv, SessionTypeOK, Lines
<1>4. ShellServesLoggedIn'
  BY <1>2 DEF SessionInv, ShellServesLoggedIn
<1>5. LinesFit'
  BY <1>1, <1>2, HistoryKept DEF SessionInv, LinesFit
<1> QED
  BY <1>1, <1>3, <1>4, <1>5, HistoryKept DEF SessionInv

\* A switch shows a login prompt unless the terminal is logged in.
LEMMA SwitchInv ==
  ASSUME SessionInv, NEW t \in Ttys, switch_tty(t)
  PROVE  SessionInv'
<1>0. UNCHANGED history_vars
  BY DEF switch_tty
<1>1. CASE t \in logged_in
  <2>1. UNCHANGED <<reader, username, password, cmd, logged_in>> /\ current_tty' = t
    BY <1>1 DEF switch_tty, lines
  <2> QED
    BY <1>0, <1>1, <2>1, HistoryKept
    DEF SessionInv, SessionTypeOK, ShellServesLoggedIn, LinesFit, Lines
<1>2. CASE t \notin logged_in
  <2>1. Start("user") /\ UNCHANGED logged_in /\ current_tty' = t
    BY <1>2 DEF switch_tty, login_screen
  <2>2. /\ reader' = "user" /\ cmd' \in Lines /\ Len(cmd') <= MAX_CMD_LEN - 2
        /\ username' \in Seq(NameChars) /\ Len(username') <= NAME_LEN
        /\ password' \in Seq(NameChars) /\ Len(password') <= NAME_LEN
    BY <2>1, StartedLines
  <2> QED
    BY <1>0, <2>1, <2>2, HistoryKept
    DEF SessionInv, SessionTypeOK, ShellServesLoggedIn, LinesFit, Lines
<1> QED
  BY <1>1, <1>2

\* The login prompt: names and passwords stay in their buffers, and the shell
\* is called only after the terminal is marked.
LEMMA LoginInv ==
  ASSUME SessionInv, NEW c \in Bytes,
         EditUser(c) \/ EnterUser(c) \/ EditPassword(c) \/ EnterPassword(c)
  PROVE  SessionInv'
<1>0. UNCHANGED history_vars
  BY DEF EditUser, EnterUser, EditPassword, EnterPassword, login_vars
<1>1. CASE EditUser(c)
  <2>1. username' \in Seq(NameChars) /\ Len(username') <= NAME_LEN
    BY <1>1, EditedType DEF EditUser, SessionInv, SessionTypeOK
  <2> QED
    BY <1>0, <1>1, <2>1, HistoryKept
    DEF EditUser, login_vars, SessionInv, SessionTypeOK, ShellServesLoggedIn, LinesFit, Lines
<1>2. CASE EnterUser(c)
  BY <1>0, <1>2, HistoryKept
  DEF EnterUser, login_vars, SessionInv, SessionTypeOK, ShellServesLoggedIn, LinesFit, Lines
<1>3. CASE EditPassword(c)
  <2>1. password' \in Seq(NameChars) /\ Len(password') <= NAME_LEN
    BY <1>3, EditedType DEF EditPassword, SessionInv, SessionTypeOK
  <2> QED
    BY <1>0, <1>3, <2>1, HistoryKept
    DEF EditPassword, login_vars, SessionInv, SessionTypeOK, ShellServesLoggedIn, LinesFit, Lines
<1>4. CASE EnterPassword(c)
  <2>1. logged_in' \in SUBSET Ttys /\ UNCHANGED current_tty
    BY <1>4 DEF EnterPassword, SessionInv, SessionTypeOK
  <2>2. CASE StartsShell
    <3>1. Start("shell") /\ current_tty' \in logged_in'
      BY <1>4, <2>2 DEF EnterPassword, StartsShell, shell
    <3> QED
      BY <1>0, <2>1, <3>1, HistoryKept, StartedLines
      DEF SessionInv, SessionTypeOK, ShellServesLoggedIn, LinesFit, Lines
  <2>3. CASE ~StartsShell
    <3>1. Start("user")
      BY <1>4, <2>3 DEF EnterPassword, login_screen
    <3>2. /\ reader' = "user" /\ cmd' \in Lines /\ Len(cmd') <= MAX_CMD_LEN - 2
          /\ username' \in Seq(NameChars) /\ Len(username') <= NAME_LEN
          /\ password' \in Seq(NameChars) /\ Len(password') <= NAME_LEN
      BY <3>1, StartedLines
    <3> QED
      BY <1>0, <2>1, <3>2, HistoryKept
      DEF SessionInv, SessionTypeOK, ShellServesLoggedIn, LinesFit, Lines
  <2> QED
    BY <2>2, <2>3
<1> QED
  BY <1>1, <1>2, <1>3, <1>4

\* What add_to_history does to the history, to its limit and to the lines in it.
LEMMA AddInv ==
  ASSUME SessionInv, add_to_history
  PROVE  /\ command_history' \in Seq(Lines) /\ Len(command_history') <= HISTORY_SIZE
         /\ log' \in Seq(Lines) /\ Len(log') <= MaxLog
         /\ command_history' = Recent(log')
         /\ history_pos' \in 0..Len(command_history')
         /\ \A i \in 1..Len(command_history') :
              Len(command_history'[i]) \in 1..(MAX_CMD_LEN - 2)
<1>0. /\ log \in Seq(Lines) /\ Len(log) <= MaxLog /\ command_history = Recent(log)
      /\ cmd \in Lines /\ history_pos \in 0..Len(command_history)
      /\ command_history \in Seq(Lines) /\ Len(command_history) <= HISTORY_SIZE
  BY HistoryAsRecent DEF SessionInv, SessionTypeOK, Lines
<1>1. CASE cmd = << >>
  BY <1>0, <1>1 DEF add_to_history, history_vars, SessionInv, LinesFit
<1>2. CASE cmd # << >>
  <2>1. /\ command_history' = AddToHistory(command_history, cmd)
        /\ history_pos' = Len(command_history')
        /\ log' = Append(log, cmd) /\ Len(log) < MaxLog
    BY <1>2 DEF add_to_history
  <2>2. command_history' = Recent(log') /\ command_history' \in Seq(Lines)
    BY <1>0, <2>1, HistoryGrows
  <2>3. log' \in Seq(Lines) /\ Len(log') = Len(log) + 1 /\ Len(log) \in Nat
        /\ log'[Len(log) + 1] = cmd /\ \A i \in 1..Len(log) : log'[i] = log[i]
    BY <1>0, <2>1, AppendProperties
  <2>4. Len(command_history') <= HISTORY_SIZE /\ Len(command_history') \in Nat
    BY <2>2, <2>3, RecentLines
  <2>5. Len(cmd) \in 1..(MAX_CMD_LEN - 2)
    <3>1. Len(cmd) \in Nat \ {0}
      BY <1>0, <1>2, EmptySeq DEF Lines
    <3> QED
      BY <3>1 DEF SessionInv, LinesFit
  <2>6. ASSUME NEW i \in 1..Len(command_history')
        PROVE  Len(command_history'[i]) \in 1..(MAX_CMD_LEN - 2)
    <3>1. CASE Len(command_history) < HISTORY_SIZE
      <4>1. command_history' = Append(command_history, cmd)
        BY <2>1, <3>1 DEF AddToHistory
      <4>2. \/ command_history'[i] = cmd
            \/ /\ i \in 1..Len(command_history)
               /\ command_history'[i] = command_history[i]
        BY <1>0, <4>1, AppendProperties
      <4> QED
        BY <2>5, <4>2 DEF SessionInv, LinesFit
    <3>2. CASE ~(Len(command_history) < HISTORY_SIZE)
      <4> DEFINE t == SubSeq(command_history, 2, HISTORY_SIZE)
      <4>1. command_history' = Append(t, cmd) /\ Len(command_history) = HISTORY_SIZE
        BY <1>0, <2>1, <3>2 DEF AddToHistory
      <4>2. \A j \in 2..HISTORY_SIZE : command_history[j] \in Lines
        BY <1>0, <4>1
      <4>3. /\ t \in Seq(Lines)
            /\ Len(t) = IF 2 <= HISTORY_SIZE THEN HISTORY_SIZE - 2 + 1 ELSE 0
            /\ \A j \in 1..(HISTORY_SIZE - 2 + 1) : t[j] = command_history[2 + j - 1]
        BY <4>2, SubSeqProperties
      <4> HIDE DEF t
      <4>4. \/ command_history'[i] = cmd
            \/ i \in 1..(HISTORY_SIZE - 1) /\ command_history'[i] = t[i]
        BY <1>0, <4>1, <4>3, AppendProperties
      <4>5. CASE i \in 1..(HISTORY_SIZE - 1) /\ command_history'[i] = t[i]
        <5>1. i + 1 \in 1..Len(command_history) /\ t[i] = command_history[i + 1]
          BY <4>1, <4>3, <4>5
        <5> QED
          BY <4>5, <5>1 DEF SessionInv, LinesFit
      <4> QED
        BY <2>5, <4>4, <4>5
    <3> QED
      BY <3>1, <3>2
  <2> QED
    BY <2>1, <2>2, <2>3, <2>4, <2>6
<1> QED
  BY <1>1, <1>2

\* The line editor and a command that is entered.
LEMMA ShellInv ==
  ASSUME SessionInv, NEW c \in Bytes,
         \/ TypeCommand(c) \/ EraseCommand(c) \/ EnterCommand(c)
         \/ Ignore(c) \/ ResumeShell
  PROVE  SessionInv'
<1>0. cmd \in Lines /\ Len(cmd) <= MAX_CMD_LEN - 2
  BY DEF SessionInv, SessionTypeOK, LinesFit, Lines
<1>1. CASE TypeCommand(c) \/ EraseCommand(c)
  <2>1. cmd' \in Lines /\ Len(cmd') <= MAX_CMD_LEN - 2
    <3>1. CASE TypeCommand(c)
      BY <1>0, <3>1, ExtendType DEF TypeCommand, Bytes, NameChars
    <3>2. CASE EraseCommand(c)
      <4>1. Trim(cmd) \in Lines /\ Len(Trim(cmd)) \in Nat /\ Len(Trim(cmd)) <= Len(cmd)
        BY <1>0, TrimType DEF Lines
      <4>2. Len(cmd) \in Nat
        BY <1>0 DEF Lines
      <4> QED
        BY <1>0, <3>2, <4>1, <4>2 DEF EraseCommand
    <3> QED
      BY <1>1, <3>1, <3>2
  <2>2. UNCHANGED <<shell_vars, history_vars>>
    BY <1>1 DEF TypeCommand, EraseCommand
  <2> QED
    BY <2>1, <2>2, HistoryKept
    DEF shell_vars, SessionInv, SessionTypeOK, ShellServesLoggedIn, LinesFit, Lines
<1>2. CASE EnterCommand(c)
  <2>1. \E r \in {"user", "shell", "key"} :
          /\ Start(r) /\ UNCHANGED current_tty
          /\ \/ r = "user" /\ logged_in' = logged_in \ {current_tty}
             \/ UNCHANGED logged_in
    BY <1>2 DEF EnterCommand, login_screen
  <2>2. logged_in' \in SUBSET Ttys /\ current_tty' \in Ttys
    BY <2>1 DEF SessionInv, SessionTypeOK
  <2>3. add_to_history /\ current_tty \in logged_in
    BY <1>2 DEF EnterCommand, SessionInv, ShellServesLoggedIn
  <2>4. SessionTypeOK'
    BY <2>1, <2>2, <2>3, AddInv, StartedLines DEF SessionTypeOK, Lines
  <2>5. ShellServesLoggedIn'
    BY <2>1, <2>3, StartedLines DEF ShellServesLoggedIn
  <2>6. LinesFit'
    BY <2>1, <2>3, AddInv, StartedLines DEF LinesFit
  <2>7. HistoryIsRecent'
    <3>1. Len(Recent(log')) = Kept(Len(log'))
      BY <2>3, AddInv, RecentLines
    <3> QED
      BY <2>3, <3>1, AddInv DEF HistoryIsRecent, Recent, Kept
  <2> QED
    BY <2>4, <2>5, <2>6, <2>7 DEF SessionInv
<1>3. CASE Ignore(c)
  BY <1>3, NothingChanges DEF Ignore
<1>4. CASE ResumeShell
  <2>1. Start("shell") /\ UNCHANGED <<current_tty, logged_in, history_vars>>
    BY <1>4 DEF ResumeShell, shell
  <2>2. current_tty \in logged_in
    BY <1>4 DEF ResumeShell, SessionInv, ShellServesLoggedIn
  <2> QED
    BY <2>1, <2>2, HistoryKept, StartedLines
    DEF SessionInv, SessionTypeOK, ShellServesLoggedIn, LinesFit, Lines
<1> QED
  BY <1>1, <1>2, <1>3, <1>4

\* Recalling a line: there is one at the new position, and it fits.
LEMMA RecallInv ==
  ASSUME SessionInv, NEW c \in Bytes, HistoryUp(c) \/ HistoryDown(c)
  PROVE  SessionInv'
<1>0. /\ history_pos \in 0..Len(command_history) /\ Len(command_history) \in Nat
      /\ command_history = Recent(log)
  BY HistoryAsRecent DEF SessionInv, SessionTypeOK
<1>1. PICK pos \in Int : /\ pos + 1 \in 1..Len(command_history) /\ pos >= 0
                         /\ Recall(pos)
  BY <1>0 DEF HistoryUp, HistoryDown
<1>2. /\ history_pos' = pos /\ cmd' = command_history[pos + 1]
      /\ UNCHANGED <<shell_vars, command_history, log>>
  BY <1>1 DEF Recall
<1>3. cmd' \in Seq(Chars) /\ Len(cmd') <= MAX_CMD_LEN - 2
  BY <1>1, <1>2 DEF SessionInv, SessionTypeOK, LinesFit
<1>4. SessionTypeOK'
  BY <1>1, <1>2, <1>3 DEF SessionInv, SessionTypeOK, shell_vars
<1>5. ShellServesLoggedIn' /\ LinesFit'
  BY <1>2, <1>3 DEF SessionInv, ShellServesLoggedIn, LinesFit, shell_vars
<1>6. HistoryIsRecent'
  <2>1. log \in Seq(Lines)
    BY DEF SessionInv, SessionTypeOK, Lines
  <2>2. Len(Recent(log)) = Kept(Len(log))
    BY <2>1, RecentLines
  <2>3. pos \in 0..Kept(Len(log))
    BY <1>0, <1>1, <2>2
  <2> QED
    BY <1>0, <1>2, <2>3 DEF HistoryIsRecent, Recent, Kept
<1> QED
  BY <1>4, <1>5, <1>6 DEF SessionInv

\* Every step of the readers keeps the invariant.
LEMMA SessionStepInv == SessionInv /\ [SessionNext]_session_vars => SessionInv'
<1> SUFFICES ASSUME SessionInv, [SessionNext]_session_vars PROVE SessionInv'
  OBVIOUS
<1>1. CASE UNCHANGED session_vars
  BY <1>1, NothingChanges
<1> QED
  BY <1>1, SwitchInv, LoginInv, ShellInv, RecallInv DEF SessionNext, Read

\* What holds of the readers whatever is typed and on whichever terminal.
THEOREM SessionCorrect == SessionSpec => []SessionInv
<1> QED
  BY SessionInitInv, SessionStepInv, PTL DEF SessionSpec

-----------------------------------------------------------------------------
(* What Readers promises                                                   *)

\* Each step of the two loops of login_screen, of the shell and of switch_tty
\* is a step of Readers or none.  The line editor is none; EnterPassword is
\* Login, Welcome or none, EnterCommand is Exit, Wait or none.
LEMMA ReadersStep ==
  [SessionNext]_session_vars => [Abstract!ReadersNext]_(Abstract!readers_vars)
<1> SUFFICES ASSUME [SessionNext]_session_vars
             PROVE  [Abstract!ReadersNext]_(Abstract!readers_vars)
  OBVIOUS
<1> USE DEF Abstract!ReadersNext, Abstract!readers_vars
<1>1. CASE UNCHANGED <<current_tty, logged_in, reader>>
  BY <1>1 DEF ReaderKind
<1>2. ASSUME NEW t \in Ttys, switch_tty(t)
      PROVE  Abstract!Switch(t)
  BY <1>2 DEF switch_tty, lines, login_screen, Start, ReaderKind, Abstract!Switch
<1>3. ASSUME NEW c, EnterUser(c)
      PROVE  UNCHANGED Abstract!readers_vars
  BY <1>3 DEF EnterUser, login_vars, ReaderKind
<1>4. ASSUME NEW c, EnterPassword(c)
      PROVE  Abstract!Login \/ Abstract!Welcome \/ UNCHANGED Abstract!readers_vars
  <2>1. CASE StartsShell
    BY <1>4, <2>1
    DEF EnterPassword, StartsShell, shell, Start, ReaderKind, Abstract!Login
  <2>2. CASE ~StartsShell
    BY <1>4, <2>2
    DEF EnterPassword, login_screen, Start, ReaderKind, Abstract!Welcome
  <2> QED
    BY <2>1, <2>2
<1>5. ASSUME NEW c, EnterCommand(c)
      PROVE  Abstract!Exit \/ Abstract!Wait \/ UNCHANGED Abstract!readers_vars
  BY <1>5 DEF EnterCommand, login_screen, Start, ReaderKind, Abstract!Exit, Abstract!Wait
<1>6. ASSUME ResumeShell PROVE Abstract!Resume
  BY <1>6 DEF ResumeShell, shell, Start, ReaderKind, Abstract!Resume
<1>7. ASSUME NEW c, \/ EditUser(c) \/ EditPassword(c) \/ TypeCommand(c) \/ EraseCommand(c)
                    \/ HistoryUp(c) \/ HistoryDown(c) \/ Ignore(c)
      PROVE  UNCHANGED <<current_tty, logged_in, reader>>
  BY <1>7 DEF EditUser, EditPassword, TypeCommand, EraseCommand, HistoryUp, HistoryDown,
              Recall, Ignore, login_vars, shell_vars, session_vars
<1>8. CASE UNCHANGED session_vars
  BY <1>1, <1>8 DEF session_vars
<1>9. CASE \E t \in Ttys : switch_tty(t)
  BY <1>2, <1>9
<1>10. CASE \E c \in Bytes : Read(c)
  BY <1>1, <1>3, <1>4, <1>5, <1>6, <1>7, <1>10 DEF Read
<1> QED
  BY <1>8, <1>9, <1>10 DEF SessionNext

\* Logins, shells, exits, pauses and switches, nested in one another in any
\* order, behave as Readers says.
THEOREM SessionIsReaders == SessionSpec => ImplementsReaders
<1>1. SessionInit => Abstract!ReadersInit
  BY DEF SessionInit, Abstract!ReadersInit, ReaderKind
<1> QED
  BY <1>1, ReadersStep, PTL DEF SessionSpec, ImplementsReaders, Abstract!ReadersSpec

-----------------------------------------------------------------------------
(* The keyboard in front of the readers                                    *)

\* keyboard_getchar returns bytes, never the zero of a place without one.
LEMMA ReturnedBytes ==
  ASSUME NEW k \in DirectKeys \cup MapKeys \cup BeyondKeys
  PROVE  Returned(k) \subseteq Bytes
  BY ConsoleAssumption DEF Returned, MapAt

\* Whatever the driver makes of the codes is a step of the readers or none.
THEOREM ConsoleIsSession == ConsoleSpec => ImplementsSession
<1>1. ConsoleInit => SessionInit
  BY DEF ConsoleInit
<1>2. [ConsoleNext]_console_vars => [SessionNext]_session_vars
  <2>1. ASSUME NEW k \in DirectKeys \cup MapKeys \cup BeyondKeys, keyboard_getchar(k)
        PROVE  \E c \in Bytes : Read(c)
    BY <2>1, ReturnedBytes DEF keyboard_getchar
  <2>2. ASSUME NEW t \in Ttys, FunctionKey(t)
        PROVE  switch_tty(t)
    BY <2>2 DEF FunctionKey
  <2> QED
    BY <2>1, <2>2 DEF ConsoleNext, console_vars, SessionNext
<1> QED
  BY <1>1, <1>2, PTL DEF ConsoleSpec, ImplementsSession, SessionSpec

\* A terminal is shown, and everybody reads and writes, as SessionTypeOK says.
THEOREM SessionTypeCorrect == ConsoleSpec => []SessionTypeOK
<1>1. SessionInv => SessionTypeOK
  BY DEF SessionInv
<1> QED
  BY <1>1, SessionCorrect, ConsoleIsSession, PTL DEF ImplementsSession

\* No sequence of codes gives anybody a shell, or a command that waits for a
\* key, on a terminal that is not logged in.
THEOREM ShellsCorrect == ConsoleSpec => []ShellServesLoggedIn
<1>1. SessionInv => ShellServesLoggedIn
  BY DEF SessionInv
<1> QED
  BY <1>1, SessionCorrect, ConsoleIsSession, PTL DEF ImplementsSession

\* No sequence of codes overruns cmd or an entry of command_history.
THEOREM LinesCorrect == ConsoleSpec => []LinesFit
<1>1. SessionInv => LinesFit
  BY DEF SessionInv
<1> QED
  BY <1>1, SessionCorrect, ConsoleIsSession, PTL DEF ImplementsSession

\* The ring of commands is what it is for: the last HISTORY_SIZE of them.
THEOREM HistoryCorrect == ConsoleSpec => []HistoryIsRecent
<1>1. SessionInv => HistoryIsRecent
  BY DEF SessionInv
<1> QED
  BY <1>1, SessionCorrect, ConsoleIsSession, PTL DEF ImplementsSession

\* So the keyboard and its readers together are what Readers says.
THEOREM ConsoleIsReaders == ConsoleSpec => ImplementsReaders
<1> QED
  BY SessionIsReaders, ConsoleIsSession, PTL DEF ImplementsSession

\* A flag is set only while one of its keys is down, for any number of keys and
\* whoever reads meanwhile.
THEOREM ModifiersCorrect == ConsoleSpec => []NoStuckModifier
<1>1. ConsoleInit => NoStuckModifier
  BY DEF ConsoleInit, KeyboardInit, NoStuckModifier
<1>2. NoStuckModifier /\ [ConsoleNext]_console_vars => NoStuckModifier'
  <2> SUFFICES ASSUME NoStuckModifier, [ConsoleNext]_console_vars
               PROVE  NoStuckModifier'
    OBVIOUS
  <2>1. CASE UNCHANGED keyboard_vars
    BY <2>1 DEF keyboard_vars, flags, NoStuckModifier
  <2>2. ASSUME NEW k \in ModifierKeys, PressModifier(k)
        PROVE  NoStuckModifier'
    BY <2>2 DEF PressModifier, SetFlags, SetFlag, NoStuckModifier
  <2>3. ASSUME NEW k \in ModifierKeys, ReleaseModifier(k)
        PROVE  NoStuckModifier'
    BY <2>3, KeyboardAssumption DEF ReleaseModifier, SetFlags, SetFlag, NoStuckModifier
  <2>4. CASE PressCapsLock
    BY <2>4 DEF PressCapsLock, NoStuckModifier
  <2> QED
    BY <2>1, <2>2, <2>3, <2>4
    DEF ConsoleNext, console_vars, Modifiers, FunctionKey, keyboard_getchar
<1> QED
  BY <1>1, <1>2, PTL DEF ConsoleSpec
=============================================================================
