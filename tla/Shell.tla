-------------------------------- MODULE Shell --------------------------------
(***************************************************************************)
(* The shell of Srunix86 on top of bkFS: the boot sequence that fills the  *)
(* tables, the commands that use them, the walk from a directory to the    *)
(* root that the prompt and pwd make, rm -rf as the recursion it is, and   *)
(* the terminals, each with a working directory of its own.                *)
(*                                                                         *)
(* There is one thread.  A command runs to its end before the next key is  *)
(* read, so terminals are switched only while a login prompt, the shell or *)
(* a command that waits for a key is reading; but a loop in a command may  *)
(* never end, so the loops take a step at a time.  Each step makes at most *)
(* one call of a fs_* function.                                            *)
(***************************************************************************)
EXTENDS BkFS


CONSTANTS
  Ttys,        \* the terminals, tty 0 among them
  Commands,    \* the commands users type
  BootCalls,   \* kernel_main's calls of fs_create_file, in order
  TextSizes,   \* lengths of the texts echo writes, below MAX_CMD_LEN
  Lines,       \* the texts, among Data, that end in a newline
  MAX_FILE_SIZE,  \* the buffers of execute_append_output       (4096)
  SureNames,   \* names that fit a path: 8 of 30 characters in MAX_PATH_LEN
  MaxNames,    \* and the most that do: 127 of one character
  MaxFrames    \* nested calls of execute_rm that fit the kernel stack

ASSUME ShellAssumption ==
  /\ 0 \in Ttys /\ MaxFrames \in Nat \ {0}
  /\ SureNames \in Nat /\ MaxNames \in Nat /\ SureNames <= MaxNames
  /\ TextSizes \subseteq Nat /\ Lines \subseteq Data
  /\ \E longest \in TextSizes : \A size \in TextSizes : size <= longest
  /\ MAX_FILE_SIZE \in Nat \ {0}

(* What commands pass to fs_write_file: a text, alone or after a file that *)
(* has been read into a buffer.                                            *)
ASSUME SizesAssumption ==
  \A size \in TextSizes : 0..(MAX_FILE_SIZE + size) \subseteq Sizes

(* is_valid_filename refuses names with the character of the operators.    *)
ASSUME OperatorAssumption == {">", ">>"} \cap Names \subseteq InvalidNames

(* The calls that make BootTable.  The first calls create its rows, each   *)
(* in inode 1 or in the first directory of the name given, under names     *)
(* that inode 1 does not have yet; the names of the others it has.         *)
ASSUME BootAssumption ==
  LET InRoot(b, rows) ==
        \E i \in rows : /\ BootTable[i].name = BootCalls[b].name
                        /\ BootTable[i].parent_inode = 1
  IN  /\ BootCalls \in Seq([name : Names, under : Names \cup {""}, type : Types])
      /\ BootSize <= Len(BootCalls)
      /\ \A b \in 1..BootSize :
           LET parent == BootTable[b].parent_inode IN
             /\ BootCalls[b].name = BootTable[b].name
             /\ BootCalls[b].type = BootTable[b].type
             /\ BootCalls[b].name \notin InvalidNames /\ ~InRoot(b, 1..(b - 1))
             /\ IF BootCalls[b].under = "" THEN parent = 1
                ELSE /\ parent < b /\ BootTable[parent].name = BootCalls[b].under
                     /\ \A i \in 1..(parent - 1) :
                          BootTable[i].name # BootCalls[b].under
      /\ \A b \in (BootSize + 1)..Len(BootCalls) : InRoot(b, 1..BootSize)

VARIABLES
  boot,         \* the number of the next of BootCalls
  mode,         \* what the kernel is doing
  walk, path,   \* the variables inode and path of print_prompt and execute_pwd
  stack,        \* the calls of execute_rm inside their loop, outermost first
  pending,      \* what is still to be written to a file just created
  current_tty, saved, logged_in,
  tree_cut      \* history: rm -rf has been given a directory that had entries
                \* or that another terminal was in

tty_vars   == <<current_tty, saved, logged_in>>
walk_vars  == <<walk, path>>
shell_vars == <<fs_vars, boot, mode, walk_vars, stack, pending, tty_vars, tree_cut>>

Idle == [data |-> "none", size |-> 0]

ShellTypeOK ==
  /\ TypeOK
  /\ boot \in 1..(Len(BootCalls) + 1)
  /\ mode \in {"boot", "login", "prompt", "read", "key", "pwd", "fill", "rm",
               "overrun"}
  /\ walk \in Inodes /\ path \in Seq(Names)
  /\ stack \in Seq([i : Slots, dir : Inodes, j : Slots])
  /\ Len(stack) <= MaxFrames
  /\ pending \in [data : Data, size : Sizes] \cup {Idle}
  /\ current_tty \in Ttys /\ logged_in \in SUBSET Ttys
  /\ saved \in [Ttys -> Inodes]
  /\ tree_cut \in BOOLEAN

\* The tables as they are loaded: zeroes, except that file_count is 5.
PowerOn ==
  /\ files = [k \in Slots |-> EmptyEntry] /\ file_count = InitFileCount
  /\ inodes = [n \in Inodes |-> EmptyInode] /\ free_inodes = MAX_INODES
  /\ blocks = [b \in Blocks |-> NoData]
  /\ block_used = [b \in Blocks |-> FALSE] /\ free_blocks = MAX_BLOCKS
  /\ current_inode = 1 /\ ret = FS_SUCCESS /\ write_failed = FALSE

ShellInit ==
  /\ PowerOn
  /\ boot = 1 /\ mode = "boot" /\ walk = 1 /\ path = << >>
  /\ stack = << >> /\ pending = Idle
  /\ current_tty = 0 /\ logged_in = {} /\ saved = [t \in Ttys |-> 1]
  /\ tree_cut = FALSE

-----------------------------------------------------------------------------
(* Steps that commands share                                               *)

\* execute_command has found the handler of what was typed.
Typed(command) == mode = "read" /\ command \in Commands

\* A walk to the root begins, to be printed by the prompt or by pwd.
StartWalk(m) == mode' = m /\ walk' = current_inode' /\ path' = << >>

\* The command ends; the shell's loop prints the next prompt.
Done == StartWalk("prompt") /\ UNCHANGED pending

First(S) == CHOOSE k \in S : \A l \in S : k <= l

RegularIn_Anywhere(dir, name) ==
  {k \in 1..file_count : files[k].name = name /\ files[k].type = FILE_REGULAR}

RegularIn(dir, name) == {k \in InDir(dir, name) : files[k].type = FILE_REGULAR}

-----------------------------------------------------------------------------
(* Boot                                                                    *)

BootParent_Last(call) ==
  LET hits == {k \in 1..file_count : files[k].name = call.under}
  IN  IF call.under = "" THEN 1
      ELSE IF hits = {} THEN 0 ELSE files[file_count].inode

\* The directory a call of kernel_main names: inode 1, or the first entry of
\* that name anywhere.
BootParent(call) ==
  LET hits == {k \in 1..file_count : files[k].name = call.under}
  IN  IF call.under = "" THEN 1
      ELSE IF hits = {} THEN 0 ELSE files[First(hits)].inode

\* kernel_main ignores what fs_create_file returns.
kernel_main ==
  /\ mode = "boot" /\ boot <= Len(BootCalls)
  /\ LET call == BootCalls[boot] IN
       IF BootParent(call) = 0 THEN UNCHANGED fs_vars
       ELSE fs_create_file(call.name, BootParent(call), call.type)
  /\ boot' = boot + 1
  /\ UNCHANGED <<mode, walk_vars, stack, pending, tty_vars, tree_cut>>

\* The contents of /bin/fetch, if that entry is there: a text of 9 characters.
WriteFetch(data, size) ==
  LET bin  == BootParent([name |-> "fetch", under |-> "bin", type |-> FILE_REGULAR])
      hits == InDir(bin, "fetch")
  IN  IF bin = 0 \/ hits = {} THEN UNCHANGED fs_vars
      ELSE fs_write_file(files[First(hits)].inode, data, size)

\* The last of kernel_main: login_screen, on tty 0.
FirstLogin ==
  /\ mode = "boot" /\ boot = Len(BootCalls) + 1
  /\ \E data \in Data, size \in TextSizes : WriteFetch(data, size)
  /\ mode' = "login"
  /\ UNCHANGED <<boot, walk_vars, stack, pending, tty_vars, tree_cut>>

-----------------------------------------------------------------------------
(* The prompt and pwd: while (inode != 1), take the parent of the first    *)
(* entry with that inode; a pass that finds none changes nothing.          *)

ParentOf_SlotBefore(n) ==
  LET hits == {k \in 1..file_count : files[k].inode = n}
  IN  IF hits = {} THEN n ELSE files[First(hits) - 1].parent_inode

ParentOf_OfChild(n) ==
  LET hits == {k \in 1..file_count : files[k].parent_inode = n}
  IN  IF hits = {} THEN n ELSE files[First(hits)].parent_inode

ParentOf(n) ==
  LET hits == {k \in 1..file_count : files[k].inode = n}
  IN  IF hits = {} THEN n ELSE files[First(hits)].parent_inode

NameOf(n) == files[First({k \in 1..file_count : files[k].inode = n})].name

Prepend_AtEnd(name) == Append(path, name)

\* The path after a pass that has found the entry of that name.
Prepend(name) == << name >> \o path

\* One pass.  The path may overrun its buffer, on the stack; if the parents form
\* a cycle it does so in the end.
WalkUp ==
  /\ walk # 1
  /\ walk' = ParentOf(walk)
  /\ \/ /\ walk \notin LiveInodes
        /\ UNCHANGED <<path, mode>>
     \/ /\ walk \in LiveInodes /\ Len(path) < MaxNames
        /\ path' = Prepend(NameOf(walk))
        /\ UNCHANGED mode
     \/ /\ walk \in LiveInodes /\ Len(path) >= SureNames
        /\ mode' = "overrun"
        /\ UNCHANGED path

print_prompt ==
  /\ mode = "prompt"
  /\ \/ WalkUp
     \/ /\ walk = 1
        /\ mode' = "read" /\ path' = << >>
        /\ UNCHANGED walk
  /\ UNCHANGED <<fs_vars, boot, stack, pending, tty_vars, tree_cut>>

execute_pwd ==
  /\ UNCHANGED <<fs_vars, boot, stack, pending, tty_vars, tree_cut>>
  /\ \/ Typed("pwd") /\ StartWalk("pwd")
     \/ mode = "pwd" /\ WalkUp
     \/ mode = "pwd" /\ walk = 1 /\ StartWalk("prompt")

-----------------------------------------------------------------------------
(* Directories and files                                                   *)

\* "" stands for no argument, ".." for the parent.
execute_cd(name) ==
  /\ Typed("cd")
  /\ LET dirs == {k \in InDir(current_inode, name) : files[k].type = FILE_DIR}
     IN  current_inode' = CASE name = ""   -> 1
                            [] name = ".." -> ParentOf(current_inode)
                            [] OTHER       -> IF dirs = {} THEN current_inode
                                              ELSE files[First(dirs)].inode
  /\ Done
  /\ UNCHANGED <<tables, ret, write_failed, boot, stack, tty_vars, tree_cut>>

\* execute_mkfile and execute_mkdir check the name before fs_create_file
\* checks it again.
MakeEntry(command, name, type) ==
  /\ Typed(command)
  /\ IF is_valid_filename(name) /\ ~file_exists_in_current_dir(name)
     THEN fs_create_file(name, current_inode, type)
     ELSE UNCHANGED fs_vars
  /\ Done
  /\ UNCHANGED <<boot, stack, tty_vars, tree_cut>>

execute_mkfile(name) == MakeEntry("touch", name, FILE_REGULAR)
execute_mkdir(name)  == MakeEntry("mkdir", name, FILE_DIR)

\* There is no such file: create one, whose entry is the last, and write it.
CreateAndFill(name, data, size) ==
  /\ fs_create_file(name, current_inode, FILE_REGULAR)
  /\ IF CanCreate(name)
     THEN /\ mode' = "fill" /\ pending' = [data |-> data, size |-> size]
          /\ UNCHANGED walk_vars
     ELSE Done

\* echo text > name.  No text that is typed has a newline in it.
execute_redirect_output(name, data, size) ==
  /\ Typed("echo >")
  /\ data \notin Lines
  /\ LET hits == RegularIn(current_inode, name) IN
       IF hits # {}
       THEN fs_write_file(files[First(hits)].inode, data, size) /\ Done
       ELSE CreateAndFill(name, data, size)
  /\ UNCHANGED <<boot, stack, tty_vars, tree_cut>>

\* May the last of the characters read of inode n be a newline, and any other?
\* Both, of a file cut off by the buffer or left behind by a failed write.
EndsInNewline(n, old) ==
  IF write_failed \/ old.size < inodes[n].size THEN BOOLEAN
  ELSE {blocks[inodes[n].block[BlocksNeeded(old.size)]].data \in Lines}

\* What strlen makes of it: texts have no zeroes in them, blocks that a failed
\* write has left in a file may.
Lengths(old) == IF write_failed THEN 0..old.size ELSE {old.size}

\* A newline goes between what was read and the text, unless it ends in one.
Separators(n, old) ==
  IF old.size = 0 THEN {0}
  ELSE {IF ends THEN 0 ELSE 1 : ends \in EndsInNewline(n, old)}

\* Read, extend and write back, in buffers of MAX_FILE_SIZE bytes on the stack:
\* a text too long for them is written all the same or stops the machine.
AppendTo(n, data, size) ==
  LET old == fs_read_file(n, MAX_FILE_SIZE - 1) IN
  \E length \in Lengths(old), sep \in Separators(n, old) :
    LET total == length + sep + size IN
    \/ fs_write_file(n, data, total) /\ Done
    \/ /\ total >= MAX_FILE_SIZE
       /\ mode' = "overrun"
       /\ UNCHANGED <<fs_vars, walk_vars, pending>>

\* echo text >> name.  The result, `data', ends in a newline if the text is
\* empty and there was something to add it to.
execute_append_output(name, data, size) ==
  /\ Typed("echo >>")
  /\ LET hits == RegularIn(current_inode, name)
         n    == files[First(hits)].inode
     IN  /\ \/ write_failed
            \/ data \in Lines <=> size = 0 /\ hits # {} /\ inodes[n].size > 0
         /\ IF hits # {} THEN AppendTo(n, data, size)
            ELSE CreateAndFill(name, data, size)
  /\ UNCHANGED <<boot, stack, tty_vars, tree_cut>>

\* cat > name and cat >> name: what is copied, as `data', is the file that the
\* second word of the line names, and that word is the operator.
execute_cat_redirect(name, data, append) ==
  /\ Typed(IF append THEN "cat >>" ELSE "cat >")
  /\ LET sources == RegularIn(current_inode, IF append THEN ">>" ELSE ">")
         src     == files[First(sources)].inode
         text    == fs_read_file(src, MAX_FILE_SIZE - 1)
         dests   == RegularIn(current_inode, name)
         dest    == files[First(dests)].inode
     IN  IF sources = {} \/ text.size = 0
         THEN UNCHANGED fs_vars /\ Done
         ELSE /\ (data \in Lines) \in EndsInNewline(src, text)
              /\ \E size \in Lengths(text) :
                   IF dests = {} THEN CreateAndFill(name, data, size)
                   ELSE IF append THEN AppendTo(dest, data, size)
                   ELSE fs_write_file(dest, data, size) /\ Done
  /\ UNCHANGED <<boot, stack, tty_vars, tree_cut>>

FillNewFile ==
  /\ mode = "fill"
  /\ fs_write_file(files[file_count].inode, pending.data, pending.size)
  /\ StartWalk("prompt")
  /\ pending' = Idle
  /\ UNCHANGED <<boot, stack, tty_vars, tree_cut>>

\* cat and ls, and every command that does not touch the file system: it
\* shows something and comes back.
OtherCommand ==
  /\ Typed("other")
  /\ UNCHANGED <<fs_vars, boot, stack, tty_vars, tree_cut>>
  /\ Done

-----------------------------------------------------------------------------
(* rm                                                                      *)

RefusesDirectory(k, recursive) == files[k].type = FILE_DIR /\ ~recursive

\* The body of execute_rm up to its loop, called with frames S already on
\* the stack and with `Return' as what the caller does next.  The name is
\* looked up in the working directory.
EnterRm(name, recursive, S, Return) ==
  LET hits == InDir(current_inode, name)
      i    == First(hits)
  IN  IF hits = {} \/ RefusesDirectory(i, recursive)
      THEN UNCHANGED fs_vars /\ stack' = S /\ Return
      ELSE IF files[i].type = FILE_DIR /\ recursive
           THEN /\ UNCHANGED <<fs_vars, walk_vars>>
                /\ IF Len(S) < MaxFrames
                   THEN /\ mode' = "rm"
                        /\ stack' = Append(S, [i |-> i, dir |-> files[i].inode,
                                               j |-> 1])
                   ELSE mode' = "overrun" /\ stack' = S
           ELSE fs_delete_file(files[i].inode) /\ stack' = S /\ Return

execute_rm(name, recursive) ==
  /\ Typed(IF recursive THEN "rm -rf" ELSE "rm")
  /\ EnterRm(name, recursive, << >>, StartWalk("prompt"))
  /\ UNCHANGED <<boot, pending, tty_vars, tree_cut>>

EntriesFrom_NotSelf(j, dir) ==
  {k \in j..file_count : files[k].parent_inode = dir /\ files[k].inode # dir}

EntriesFrom(j, dir) == {k \in j..file_count : files[k].parent_inode = dir}

\* The loop of the innermost call: on the first entry of the directory from
\* slot j on, call execute_rm with its name and look at the same slot again;
\* when none is left, delete what is in slot i now.
RmLoop ==
  /\ mode = "rm"
  /\ LET top      == stack[Len(stack)]
         outer    == SubSeq(stack, 1, Len(stack) - 1)
         children == EntriesFrom(top.j, top.dir)
     IN  /\ IF children # {}
            THEN EnterRm(files[First(children)].name, TRUE,
                         Append(outer, [top EXCEPT !.j = First(children)]),
                         UNCHANGED <<mode, walk_vars>>)
            ELSE /\ fs_delete_file(files[top.i].inode)
                 /\ stack' = outer
                 /\ IF outer = << >>
                    THEN StartWalk("prompt") ELSE UNCHANGED <<mode, walk_vars>>
         /\ tree_cut' = (\/ tree_cut
                         \/ children # {}
                         \/ \E t \in Ttys \ {current_tty} : saved[t] = top.dir)
  /\ UNCHANGED <<boot, pending, tty_vars>>

-----------------------------------------------------------------------------
(* Logins and terminals.  A login prompt on a terminal that somebody has   *)
(* logged in to stays there until it is answered.                          *)

\* login_screen has been given root and the password: the shell.
Login ==
  /\ mode = "login"
  /\ logged_in' = logged_in \cup {current_tty}
  /\ UNCHANGED <<fs_vars, boot, stack, pending, current_tty, saved, tree_cut>>
  /\ StartWalk("prompt")

\* It has been given the other user, whom it logs in and asks again.
Welcome ==
  /\ mode = "login"
  /\ logged_in' = logged_in \cup {current_tty}
  /\ UNCHANGED <<fs_vars, boot, mode, walk_vars, stack, pending, current_tty,
                 saved, tree_cut>>

execute_exit_KeepsLogin ==
  /\ Typed("exit") /\ mode' = "login"
  /\ UNCHANGED <<fs_vars, boot, walk_vars, stack, pending, tty_vars, tree_cut>>

\* The working directory stays for whoever logs in next.
execute_exit ==
  /\ Typed("exit") /\ mode' = "login"
  /\ logged_in' = logged_in \ {current_tty}
  /\ UNCHANGED <<fs_vars, boot, walk_vars, stack, pending, current_tty, saved,
                 tree_cut>>

\* pause, info and Z wait for a key.
execute_pause ==
  /\ UNCHANGED <<fs_vars, boot, stack, pending, tty_vars, tree_cut>>
  /\ \/ Typed("pause") /\ mode' = "key" /\ UNCHANGED walk_vars
     \/ mode = "key" /\ StartWalk("prompt")

switch_tty(t) ==
  /\ mode \in {"login", "read", "key"}
  /\ saved' = [saved EXCEPT ![current_tty] = current_inode]
  /\ current_tty' = t
  /\ current_inode' = saved'[t]
  /\ mode' = IF t \in logged_in THEN mode ELSE "login"
  /\ UNCHANGED <<tables, ret, write_failed, boot, walk_vars, stack, pending,
                 logged_in, tree_cut>>

ShellNext ==
  \/ kernel_main \/ FirstLogin
  \/ print_prompt \/ execute_pwd
  \/ \E name \in Names \cup {"", ".."} : execute_cd(name)
  \/ \E name \in Names : execute_mkfile(name) \/ execute_mkdir(name)
  \/ \E name \in Names, data \in Data, size \in TextSizes :
       \/ execute_redirect_output(name, data, size)
       \/ execute_append_output(name, data, size)
  \/ \E name \in Names, data \in Data, append \in BOOLEAN :
       execute_cat_redirect(name, data, append)
  \/ FillNewFile \/ OtherCommand
  \/ \E name \in Names, recursive \in BOOLEAN : execute_rm(name, recursive)
  \/ RmLoop
  \/ Login \/ Welcome \/ execute_exit \/ execute_pause
  \/ \E t \in Ttys : switch_tty(t)

\* The processor goes on executing: every step that waits for no key is
\* taken in the end.
ShellFairness ==
  /\ WF_shell_vars(kernel_main) /\ WF_shell_vars(FirstLogin)
  /\ WF_shell_vars(print_prompt) /\ WF_shell_vars(mode = "pwd" /\ execute_pwd)
  /\ WF_shell_vars(FillNewFile) /\ WF_shell_vars(RmLoop)

ShellSpec == ShellInit /\ [][ShellNext]_shell_vars /\ ShellFairness

-----------------------------------------------------------------------------
(* Properties                                                              *)

\* The boot sequence ends in the table BkFS starts from: the entry that
\* kernel_main asks for last, /bin/fetch, is refused because the working
\* directory has a "fetch", and nothing is written.
BootEndsInInit == mode = "boot" /\ boot = Len(BootCalls) + 1 => Init

\* Until rm -rf takes away a directory that has entries or that another
\* terminal is in, every command, on every terminal, is a sequence of the
\* calls BkFS describes: names are looked up where they are created, no
\* directory in use is deleted, and a switch leads to a live directory.
CommandsAreCalls ==
  [][mode # "boot" /\ ~tree_cut' =>
       \/ Next
       \/ /\ inodes[current_inode'].mode = FILE_DIR
          /\ UNCHANGED <<tables, ret, write_failed>>]_fs_vars

\* Whatever directories the terminals are in, live or deleted, and whatever
\* rm -rf takes away: the root entry stays in its place, entries and inodes
\* correspond, and no directory has two entries of one name.  free_inodes never
\* falls below the number of free inodes; it may rise above it, because the slot
\* that rm -rf deletes last may be one that is not in use any more.
TablesSurvive ==
  mode # "boot" =>
    /\ SlotsMatchInodes
    /\ free_inodes >= MAX_INODES - (file_count - InitFileCount)
    /\ NamesUnique
    /\ files[InitFileCount + 1].inode = 1

\* The path may be longer than its buffer: there are more directories below the
\* root than names that are sure to fit.
MayOverrun ==
  Cardinality({n \in LiveInodes \ {1} : inodes[n].mode = FILE_DIR}) > SureNames

\* As long as no directory in use is taken away, the walk to the root ends:
\* the prompt is printed and the shell reads the next command, and pwd comes
\* back to the prompt, whatever the terminals have done before.  No walk is
\* longer than there are directories, so its path overruns its buffer only if
\* there are more of them than fit.
WalkEnds ==
  /\ mode = "prompt" /\ ~tree_cut ~> mode = "read" \/ (mode = "overrun" /\ MayOverrun)
  /\ mode = "pwd" /\ ~tree_cut ~> mode = "prompt" \/ (mode = "overrun" /\ MayOverrun)

\* Until then each pass of the walk goes to a directory in a lower slot, the
\* parent, or overruns the path because there are more directories than fit.
WalksDescend ==
  [][~tree_cut /\ mode \in {"prompt", "pwd"} /\ walk # 1 =>
       /\ mode' = mode \/ (mode' = "overrun" /\ MayOverrun)
       /\ walk' \in LiveInodes
       /\ SlotOf(walk') < SlotOf(walk)]_shell_vars

\* The directory that cd leads to from d with a name.
Below(d, name) ==
  LET dirs == {k \in InDir(d, name) : files[k].type = FILE_DIR}
  IN  IF dirs = {} THEN 0 ELSE files[First(dirs)].inode

\* With one name after the other, cd leads from directory d to n.
LeadsTo(d, names, n) ==
  \E via \in [1..(Len(names) + 1) -> Inodes] :
    /\ via[1] = d /\ via[Len(names) + 1] = n
    /\ \A i \in 1..Len(names) : via[i + 1] = Below(via[i], names[i])

\* What the prompt and pwd have put together so far is the way back from where
\* they have got to, so the path they print is the one by which cd comes to the
\* working directory, on every terminal.
PathLeadsBack ==
  mode \in {"prompt", "pwd"} /\ ~tree_cut => LeadsTo(walk, path, current_inode)

ReaderOf == CASE mode \in {"boot", "login"} -> "login"
              [] mode = "key"              -> "key"
              [] OTHER                     -> "shell"

Abstract == INSTANCE Readers WITH reader <- ReaderOf

\* Logins, exits, commands that wait and changes of terminal behave as Readers
\* says, while commands change and remove the terminals' directories.
ImplementsReaders == Abstract!ReadersSpec

\* rm -rf d removes nothing else from the working directory than d.
RmRemovesOnlyIt ==
  [][mode = "rm" =>
       \A k \in Live : files[k].parent_inode = current_inode =>
         \/ files[k].inode = stack[1].dir
         \/ files[k].inode \in LiveInodes']_shell_vars

\* The shell's own commands never run out of blocks: a file is never longer
\* than one buffer and one text, which is less than what an inode can hold,
\* and for the sizes in pring.h blocks are enough for as many files of that
\* length as there are entries, with one block to lose.  cat would make longer
\* ones, but what it looks for is a file with the name of its operator.
CommandsFit ==
  (\A s \in TextSizes : (MAX_FILES - InitFileCount - 1)
                         * BlocksNeeded(MAX_FILE_SIZE + s) + 1 <= MAX_BLOCKS)
    => ~write_failed
=============================================================================
