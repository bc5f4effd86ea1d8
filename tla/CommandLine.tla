----------------------------- MODULE CommandLine -----------------------------
(***************************************************************************)
(* execute_command: a line is copied in lower case, split into words in    *)
(* place, and handed to the command that its first word names; then what   *)
(* the commands do with the words in buffers of their own: the text that   *)
(* echo puts together, the name that touch copies (StringCopy), the        *)
(* numbers that are printed (Format), and terminal_printf's message.  What *)
(* they do to files is in Shell.                                           *)
(***************************************************************************)
EXTENDS StringCopy, Format, FiniteSets

CONSTANTS
  CommandLines,  \* the lines that are entered: sequences of characters
  Lower,         \* the lower-case letter for each of the upper-case ones
  InvalidChars,  \* characters no file name has
  Handlers,      \* the commands: from a word to what handles it
  Rf, Eth0,      \* the words "-rf" and "eth0"
  MAX_CMD_LEN,   \* the size of the line and of echo's text          (256)
  ARGS,          \* the size of the array of words                    (10)
  PRINTF_SIZE,   \* the size of terminal_printf's buffer             (256)
  Pids           \* what atoi makes of a word: any int

Space == " "
End   == ""           \* the zero at the end of a string
To    == << ">" >>
Onto  == << ">", ">" >>

ASSUME CommandAssumption ==
  /\ \A l \in CommandLines : /\ l \in Seq(STRING) /\ Len(l) <= MAX_CMD_LEN - 2
                             /\ \A i \in 1..Len(l) : l[i] # End
  /\ Space \notin DOMAIN Lower
  /\ \A c \in DOMAIN Lower : Lower[c] \in STRING \ {Space, End}
  /\ MAX_CMD_LEN \in Nat
  /\ ARGS \in Nat /\ ARGS > 1
  /\ PRINTF_SIZE \in Nat \ {0}
  /\ Pids \subseteq INT_MIN..INT_MAX

VARIABLES
  line,       \* the shell's cmd
  copy,       \* cmd_copy or, for echo, cmd itself, while it is split
  token,      \* where the rest of it begins
  args,       \* where the words begin
  original,   \* has echo split the line again, as it was typed?
  text,       \* what a redirected echo or cat is given
  stage,      \* "read", "split", "run", "redirect", "copy", "number", "print";
              \* "overrun" when a buffer was too short, "stuck" when rm -rf
              \* does not return
  message,    \* the length of the message to be printed
  connected   \* net_dev.connected

split_vars   == <<line, copy, token, args, original>>
command_vars == <<split_vars, text, stage, message, connected>>
vars         == <<command_vars, copy_vars, format_vars>>

\* Memory as after a call of strncpy with an empty string.
EmptyName == [i \in Cells |-> IF i < N THEN Nul ELSE Other]

CommandInit ==
  /\ line = << >> /\ copy = << >> /\ token = 1 /\ args = << >>
  /\ original = FALSE /\ text = << >> /\ stage = "read" /\ message = 0
  /\ connected = FALSE
  /\ len = 0 /\ n = 0 /\ pos = N /\ mem = EmptyName /\ pc = "done"
  /\ FormatInit

-----------------------------------------------------------------------------
(* Splitting                                                               *)

LowerCase(c)    == IF c \in DOMAIN Lower THEN Lower[c] ELSE c
LowerCaseOf(s)  == [i \in DOMAIN s |-> LowerCase(s[i])]

\* Split the characters s from the start.
StartSplit(s) ==
  copy' = Append(s, End) /\ token' = 1 /\ args' = << >> /\ stage' = "split"

EnterLine(l) ==
  /\ stage = "read"
  /\ line' = l
  /\ StartSplit(LowerCaseOf(l))
  /\ original' = FALSE
  /\ UNCHANGED <<text, message, connected, copy_vars, format_vars>>

\* The first place from i on that is not among the given characters.
Skip(i, chars) == CHOOSE j \in i..Len(copy) :
  copy[j] \notin chars /\ \A m \in i..(j - 1) : copy[m] \in chars

\* ... and that is.
Find(i, chars) == CHOOSE j \in i..Len(copy) :
  copy[j] \in chars /\ \A m \in i..(j - 1) : copy[m] \notin chars

MoreWords_All == copy[token] # End

MoreWords == copy[token] # End /\ Len(args) < ARGS - 1

\* The word that ends at e gets a zero there.
Cut(e) == [copy EXCEPT ![e] = End]

\* One pass of the loop that looks for words.
SplitWord ==
  /\ stage = "split"
  /\ LET first == Skip(token, {Space})
         after == Find(first, {Space, End})
     IN  IF ~MoreWords \/ copy[first] = End
         THEN stage' = "run" /\ UNCHANGED <<copy, token, args>>
         ELSE /\ args' = Append(args, first)
              /\ copy' = Cut(after)
              /\ token' = IF copy[after] = End THEN after ELSE after + 1
              /\ UNCHANGED stage
  /\ UNCHANGED <<line, original, text, message, connected, copy_vars, format_vars>>

\* The i-th word, read to its zero.
Word(i) == SubSeq(copy, args[i], Find(args[i], {End}) - 1)

-----------------------------------------------------------------------------
(* Running                                                                 *)

\* The first operator after the command, if a word follows it; else 0.
redirect_pos ==
  LET ops == {i \in 2..Len(args) : Word(i) \in {To, Onto}}
      i   == CHOOSE j \in ops : \A m \in ops : j <= m
  IN  IF ops # {} /\ i < Len(args) THEN i ELSE 0

\* The words compared are in lower case, and so are the names of the commands.
Handler == IF args = << >> THEN "none"
           ELSE IF Word(1) \in DOMAIN Handlers THEN Handlers[Word(1)] ELSE "unknown"

\* The words are there, in lower case, and none of the commands was called yet.
Dispatches == stage = "run" /\ ~original

\* The command of that name runs, not redirected.
Runs(command) ==
  /\ Dispatches /\ Handler = command
  /\ command \in {"echo", "cat"} => redirect_pos = 0

Ready == line' = << >> /\ copy' = << >> /\ token' = 1 /\ args' = << >>
         /\ original' = FALSE /\ text' = << >> /\ message' = 0 /\ stage' = "read"

\* Go on to terminal_printf with a format of that many characters and words.
terminal_printf(characters, words) ==
  stage' = "print" /\ message' = characters + words

\* The words from 2 to the operator, put together by strcat.
Joined_NoSpaces[i \in Nat] ==
  IF i < 2 THEN << >> ELSE Joined_NoSpaces[i - 1] \o Word(i)

Joined[i \in 0..Len(args)] ==
  IF i < 2 THEN << >>
  ELSE IF i = 2 THEN Word(2)
  ELSE Append(Joined[i - 1], Space) \o Word(i)

EchoText_NoSpaces == Joined_NoSpaces[redirect_pos - 1]

EchoText == Joined[redirect_pos - 1]

RedirectEcho ==
  /\ Dispatches /\ Handler = "echo" /\ redirect_pos # 0
  /\ text' = EchoText
  /\ stage' = "redirect"
  /\ UNCHANGED <<split_vars, message, connected, copy_vars, format_vars>>

\* The usage is printed unless the operator is the second of three words, and
\* then the file to be copied is the one that the operator names.
RedirectCat ==
  /\ Dispatches /\ Handler = "cat" /\ redirect_pos # 0
  /\ IF redirect_pos = 2 /\ Len(args) = 3
     THEN text' = Word(2) /\ stage' = "redirect" /\ UNCHANGED <<split_vars, message>>
     ELSE Ready
  /\ UNCHANGED <<connected, copy_vars, format_vars>>

ValidName(name) == \A i \in DOMAIN name : name[i] \notin InvalidChars

\* fs_create_file copies a name that is valid, and free.
CopyName(name) ==
  /\ ValidName(name)
  /\ NextCall /\ len' = Len(name)
  /\ stage' = "copy"
  /\ UNCHANGED <<split_vars, text, message>>

\* The command does not return.
Ends(how) == stage' = how /\ UNCHANGED <<split_vars, text, message>>

\* execute_redirect_output and execute_append_output write a file that is there,
\* or create it; what is in a file and the text appended to it may be too long
\* for the buffer of execute_append_output.
WriteText ==
  \/ Ready /\ UNCHANGED copy_vars
  \/ CopyName(Word(redirect_pos + 1))
  \/ Word(redirect_pos) = Onto /\ Ends("overrun") /\ UNCHANGED copy_vars

\* execute_cat_redirect finds no file of an operator's name.
Redirected ==
  /\ stage = "redirect"
  /\ \/ Handler = "echo" /\ WriteText
     \/ /\ Handler = "cat" /\ terminal_printf(33, Len(text))
        /\ UNCHANGED <<split_vars, text, copy_vars>>
  /\ UNCHANGED <<connected, format_vars>>

\* echo splits the line once more, and then writes its words.
execute_echo ==
  /\ \/ /\ Runs("echo")
        /\ StartSplit(line) /\ original' = TRUE /\ UNCHANGED <<line, text, message>>
     \/ /\ stage = "run" /\ original
        /\ Ready
  /\ UNCHANGED <<connected, copy_vars, format_vars>>

\* cat and rm print the file, or its name; without one, how they are used.
ShowFile(name) ==
  \/ Ready
  \/ /\ terminal_printf(17, Len(name))
     /\ UNCHANGED <<split_vars, text>>

execute_cat ==
  /\ Runs("cat")
  /\ IF Len(args) > 1 THEN ShowFile(Word(2)) ELSE Ready
  /\ UNCHANGED <<connected, copy_vars, format_vars>>

\* The loop over the entries of a directory, and the calls it makes of itself,
\* may not end (see Shell).
execute_rm ==
  /\ Runs("rm")
  /\ LET recursive == Len(args) > 1 /\ Word(2) = Rf
         i == IF recursive THEN 3 ELSE 2
     IN  \/ Len(args) < i /\ Ready
         \/ Len(args) >= i /\ ShowFile(Word(i))
         \/ Len(args) >= i /\ recursive /\ Ends("stuck")
  /\ UNCHANGED <<connected, copy_vars, format_vars>>

\* touch and mkdir.
execute_mkfile ==
  /\ Runs("touch")
  /\ \/ Ready /\ UNCHANGED copy_vars
     \/ Len(args) > 1 /\ CopyName(Word(2))
  /\ UNCHANGED <<connected, format_vars>>

\* One pass of a loop of strncpy or, when it has returned, on to the message: the
\* redirections have no name in theirs.
CopyStep ==
  /\ stage = "copy"
  /\ \/ (CopyLoop \/ PadLoop) /\ UNCHANGED <<split_vars, text, stage, message>>
     \/ /\ pc = "done"
        /\ \/ /\ Handler = "touch" /\ terminal_printf(16, len)
              /\ UNCHANGED <<split_vars, text>>
           \/ Handler = "echo" /\ Ready
        /\ len' = 0 /\ n' = 0 /\ pos' = N /\ mem' = EmptyName /\ UNCHANGED pc
  /\ UNCHANGED <<connected, format_vars>>

\* Numbers are printed one after the other.
Prints(numbers) ==
  /\ pending' = numbers /\ stage' = "number"
  /\ UNCHANGED <<split_vars, text, message, copy_vars, number_vars>>

execute_clock ==
  /\ \/ Runs("date") /\ Prints(execute_date)
     \/ Runs("time") /\ Prints(execute_time)
  /\ UNCHANGED connected

\* No process is ever found.
execute_kill ==
  /\ Runs("kill")
  /\ IF Len(args) < 3 THEN Ready /\ UNCHANGED <<copy_vars, format_vars>>
     ELSE Prints(<< Number(Pids, 16) >>)
  /\ UNCHANGED connected

execute_dhcpcd ==
  /\ Runs("dhcpcd")
  /\ \/ /\ Len(args) = 1
        /\ Ready /\ UNCHANGED <<connected, copy_vars, format_vars>>
     \/ /\ Len(args) > 1 /\ Word(2) # Eth0
        /\ terminal_printf(21, Len(Word(2)))
        /\ UNCHANGED <<split_vars, text, connected, copy_vars, format_vars>>
     \/ /\ Len(args) > 1 /\ Word(2) = Eth0
        /\ connected' = TRUE
        /\ Prints(<< Address(net_dev[1]) >>)

execute_ifconfig ==
  /\ Runs("ifconfig")
  /\ IF connected THEN Prints([i \in 1..3 |-> Address(net_dev[i])])
     ELSE Ready /\ UNCHANGED <<copy_vars, format_vars>>
  /\ UNCHANGED connected

execute_ping ==
  /\ Runs("ping")
  /\ IF Len(args) > 1 /\ connected
     THEN terminal_printf(16, Len(Word(2))) /\ UNCHANGED <<split_vars, text>>
     ELSE Ready
  /\ UNCHANGED <<connected, copy_vars, format_vars>>

\* No word at all, no command of that name, or one that only shows something.
RunNothing ==
  /\ Dispatches /\ Handler \in {"none", "unknown"}
  /\ Ready
  /\ UNCHANGED <<connected, copy_vars, format_vars>>

NumberStep ==
  /\ stage = "number"
  /\ \/ FormatStep /\ UNCHANGED command_vars
     \/ /\ phase = "idle" /\ pending = << >> /\ Ready
        /\ UNCHANGED <<connected, format_vars>>
  /\ UNCHANGED copy_vars

TooLong_OneLess == message >= PRINTF_SIZE - 1

\* The message and the zero at its end do not fit.
TooLong == message >= PRINTF_SIZE

\* The buffer is on the stack: a message too long for it is written all the
\* same or stops the machine.
PrintMessage ==
  /\ stage = "print"
  /\ \/ Ready
     \/ TooLong /\ Ends("overrun")
  /\ UNCHANGED <<connected, copy_vars, format_vars>>

Step ==
  \/ SplitWord \/ RedirectEcho \/ RedirectCat \/ Redirected
  \/ execute_echo \/ execute_cat \/ execute_rm \/ execute_mkfile \/ CopyStep
  \/ execute_clock \/ execute_kill \/ NumberStep
  \/ execute_dhcpcd \/ execute_ifconfig \/ execute_ping
  \/ RunNothing \/ PrintMessage

CommandNext == (\E l \in CommandLines : EnterLine(l)) \/ Step

\* The processor goes on executing.
CommandSpec == CommandInit /\ [][CommandNext]_vars /\ WF_vars(Step)

-----------------------------------------------------------------------------
(* Properties                                                              *)

\* The words of s, found without taking it apart: the places where they begin,
\* the one that begins at b, and the i-th of them.
Begins(s) == {i \in DOMAIN s : s[i] # Space /\ (i = 1 \/ s[i - 1] = Space)}

WordAt(s, b) ==
  LET e == CHOOSE j \in b..Len(s) : /\ \A m \in b..j : s[m] # Space
                                    /\ j = Len(s) \/ s[j + 1] = Space
  IN  SubSeq(s, b, e)

TypedWord(s, i) ==
  WordAt(s, CHOOSE b \in Begins(s) : Cardinality({m \in Begins(s) : m < b}) = i - 1)

\* A command is given the words that were typed, each of them whole, in their
\* order and in lower case, or as they were typed if it is echo, and as many of
\* them as there is room for, however many spaces are around them.
WordsAreTyped ==
  stage = "run" =>
    /\ Len(args) < ARGS
    /\ \A i \in 1..Len(args) :
         /\ args[i] \in Begins(line)
         /\ \A j \in 1..(i - 1) : args[j] < args[i]
         /\ Word(i) = IF original THEN WordAt(line, args[i])
                      ELSE LowerCaseOf(WordAt(line, args[i]))
    /\ \A b \in Begins(line) :
         \/ \E i \in 1..Len(args) : args[i] = b
         \/ Len(args) = ARGS - 1 /\ args[ARGS - 1] < b

\* What Shell takes for granted of a redirected command: the text of echo fits
\* its buffer and consists of the words between, with one space after each but
\* the last, and the file cat copies is the one that its operator names.
RedirectsGiven ==
  stage = "redirect" =>
    \/ Handler = "cat" /\ text \in {To, Onto}
    \/ /\ Handler = "echo" /\ Len(text) < MAX_CMD_LEN
       /\ \A i \in DOMAIN text : text[i] = Space =>
            i \in 2..(Len(text) - 1) /\ text[i - 1] # Space
       /\ Cardinality(Begins(text)) = redirect_pos - 2
       /\ \A i \in 2..(redirect_pos - 1) :
            TypedWord(text, i - 1) = LowerCaseOf(TypedWord(line, i))

\* The lines that need not come back, by the words on them: rm -rf of something,
\* text appended to a file that may be full, a name too long for an entry of
\* files[], and a word too long for the longest of the messages, dhcpcd's, which
\* has 21 characters of its own.
MayNotReturn ==
  LET last    == Cardinality(Begins(line))
      w(i)    == LowerCaseOf(TypedWord(line, i))
      command == IF last > 0 /\ w(1) \in DOMAIN Handlers THEN Handlers[w(1)] ELSE "none"
  IN  \/ command = "rm" /\ last > 2 /\ w(2) = Rf
      \/ /\ command = "echo"
         /\ \E i \in 2..(last - 1) : \/ w(i) = Onto
                                     \/ w(i) = To /\ Len(w(i + 1)) >= N
      \/ command = "touch" /\ last > 1 /\ Len(w(2)) >= N
      \/ /\ command \in {"cat", "rm", "dhcpcd", "ping"}
         /\ \E i \in 2..last : Len(w(i)) > PRINTF_SIZE - 1 - 21

\* Every other line is answered in the end, whichever of the commands above it
\* names: the loops that split it, copy names and convert numbers end, the
\* message fits terminal_printf's buffer, with words of up to 234 characters,
\* and the shell reads on.
LinesAnswered == stage = "split" /\ ~MayNotReturn ~> stage = "read"
=============================================================================
