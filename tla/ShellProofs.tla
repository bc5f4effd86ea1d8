----------------------------- MODULE ShellProofs -----------------------------
(***************************************************************************)
(* The shell, for any boot sequence that makes its table, any number of    *)
(* terminals and tables of any size.                                       *)
(*                                                                         *)
(* Once rm -rf has taken a directory away from under a terminal, neither   *)
(* the tree nor the agreement of free_inodes with the tables is left.  What*)
(* is left, Rooted, has to say more than TablesSurvive: the slots behind   *)
(* the last entry matter too, because the slot that a call of execute_rm   *)
(* remembers may be one of them when the call comes to delete it.          *)
(***************************************************************************)
EXTENDS Shell, StoreProofs, SequenceTheorems, WellFoundedInduction

-----------------------------------------------------------------------------
(* Readers                                                                 *)

\* What a command does that is run and does not wait: it stays with the shell.
Busy == {"prompt", "read", "pwd", "fill", "rm", "overrun"}

Runs == mode \in Busy /\ mode' \in Busy /\ UNCHANGED tty_vars

\* The commands that use the file system stay with the shell,
LEMMA CommandsRun ==
  ASSUME NEW name, NEW data, NEW size, NEW type, NEW command, NEW append, NEW recursive,
         \/ execute_cd(name) \/ MakeEntry(command, name, type)
         \/ execute_redirect_output(name, data, size)
         \/ execute_append_output(name, data, size)
         \/ execute_cat_redirect(name, data, append)
         \/ FillNewFile \/ OtherCommand \/ print_prompt \/ execute_pwd
  PROVE  Runs
<1>1. ASSUME NEW n, CreateAndFill(n, data, size) PROVE mode' \in Busy
  BY <1>1 DEF CreateAndFill, Done, StartWalk, Busy
<1>2. ASSUME NEW n, NEW s, AppendTo(n, data, s) PROVE mode' \in Busy
  BY <1>2 DEF AppendTo, Done, StartWalk, Busy
<1>3. Done => mode' \in Busy
  BY DEF Done, StartWalk, Busy
<1>4. CASE execute_cd(name) \/ MakeEntry(command, name, type) \/ OtherCommand \/ FillNewFile
  BY <1>4, <1>3 DEF execute_cd, MakeEntry, OtherCommand, FillNewFile, StartWalk, Typed, Busy,
     Runs, tty_vars
<1>5. CASE print_prompt \/ execute_pwd
  BY <1>5 DEF print_prompt, execute_pwd, WalkUp, StartWalk, Typed, Busy, Runs, tty_vars
<1>6. CASE execute_redirect_output(name, data, size)
  <2>1. mode' \in Busy
    BY <1>1, <1>3, <1>6 DEF execute_redirect_output
  <2> QED
    BY <1>6, <2>1 DEF execute_redirect_output, Typed, Busy, Runs
<1>7. CASE execute_append_output(name, data, size)
  <2>1. mode' \in Busy
    BY <1>1, <1>2, <1>7 DEF execute_append_output
  <2> QED
    BY <1>7, <2>1 DEF execute_append_output, Typed, Busy, Runs
<1>8. CASE execute_cat_redirect(name, data, append)
  <2>1. mode' \in Busy
    <3>1. ASSUME NEW s, CreateAndFill(name, data, s) PROVE mode' \in Busy
      BY <3>1 DEF CreateAndFill, Done, StartWalk, Busy
    <3> QED
      BY <1>2, <1>3, <1>8, <3>1 DEF execute_cat_redirect
  <2> QED
    BY <1>8, <2>1 DEF execute_cat_redirect, Typed, Busy, Runs
<1> QED
  BY <1>4, <1>5, <1>6, <1>7, <1>8

\* and so does rm, whatever the depth of its recursion.
LEMMA RmRuns ==
  ASSUME NEW name, NEW recursive, execute_rm(name, recursive) \/ RmLoop
  PROVE  Runs
<1>1. CASE execute_rm(name, recursive)
  BY <1>1, ZenonT(40) DEF execute_rm, EnterRm, StartWalk, Typed, Busy, Runs
<1>2. CASE RmLoop
  BY <1>2 DEF RmLoop, EnterRm, StartWalk, Busy, Runs
<1> QED
  BY <1>1, <1>2

\* Readers cannot see them.
LEMMA RunsHidden == Runs => UNCHANGED Abstract!readers_vars
  BY DEF Runs, Busy, tty_vars, Abstract!readers_vars, ReaderOf

\* Each step of the shell is one of Readers' or changes nothing it knows of.
LEMMA ReadersStep ==
  ASSUME [ShellNext]_shell_vars
  PROVE  [Abstract!ReadersNext]_Abstract!readers_vars
<1>1. CASE kernel_main \/ FirstLogin
  BY <1>1 DEF kernel_main, FirstLogin, tty_vars, Abstract!readers_vars, ReaderOf
<1>2. CASE Login
  BY <1>2 DEF Login, StartWalk, Abstract!ReadersNext, Abstract!Login, ReaderOf
<1>3. CASE Welcome
  BY <1>3 DEF Welcome, Abstract!ReadersNext, Abstract!Welcome, ReaderOf
<1>4. CASE execute_exit
  BY <1>4 DEF execute_exit, Typed, Abstract!ReadersNext, Abstract!Exit, ReaderOf
<1>5. CASE execute_pause
  BY <1>5 DEF execute_pause, Typed, StartWalk, tty_vars,
              Abstract!ReadersNext, Abstract!Wait, Abstract!Resume, ReaderOf
<1>6. ASSUME NEW t \in Ttys, switch_tty(t)
      PROVE  Abstract!Switch(t)
  BY <1>6 DEF switch_tty, Abstract!Switch, ReaderOf
<1>7. CASE Runs
  BY <1>7, RunsHidden
<1>8. CASE UNCHANGED shell_vars
  BY <1>8 DEF shell_vars, tty_vars, Abstract!readers_vars, ReaderOf
<1>9. ASSUME NEW name, execute_mkfile(name) \/ execute_mkdir(name)
      PROVE  Runs
  BY <1>9, CommandsRun DEF execute_mkfile, execute_mkdir
<1> QED
  BY <1>1, <1>2, <1>3, <1>4, <1>5, <1>6, <1>7, <1>8, <1>9, CommandsRun, RmRuns
     DEF ShellNext, Abstract!ReadersNext

\* Logins, exits, commands that wait and changes of terminal behave as Readers
\* says, whatever the commands do to the file system in between.
THEOREM ShellIsReaders == ShellSpec => ImplementsReaders
<1>1. ShellInit => Abstract!ReadersInit
  BY DEF ShellInit, Abstract!ReadersInit, ReaderOf
<1> QED
  BY <1>1, ReadersStep, PTL DEF ShellSpec, ImplementsReaders, Abstract!ReadersSpec

-----------------------------------------------------------------------------
(* The inductive invariant                                                 *)

\* The tables after kernel_main has made the first r rows of BootTable,
Booted(r) ==
  /\ files = [k \in Slots |->
                IF k \in (InitFileCount + 1)..(InitFileCount + r)
                THEN LET i == k - InitFileCount
                     IN  [inode        |-> i,
                          name         |-> BootTable[i].name,
                          parent_inode |-> BootTable[i].parent_inode,
                          type         |-> BootTable[i].type]
                ELSE EmptyEntry]
  /\ file_count = InitFileCount + r
  /\ inodes = [n \in Inodes |-> IF n <= r THEN NewInode(BootTable[n].type)
                                ELSE EmptyInode]
  /\ free_inodes = MAX_INODES - r
  /\ blocks = [b \in Blocks |-> NoData]
  /\ block_used = [b \in Blocks |-> FALSE]
  /\ free_blocks = MAX_BLOCKS
  /\ current_inode = 1
  /\ ret \in {FS_SUCCESS, FS_ERROR}
  /\ write_failed = FALSE

\* and the number of rows it has made before the next call.
Rows == IF boot <= BootSize THEN boot - 1 ELSE BootSize

BootInv == mode = "boot" => Booted(Rows) /\ saved = [t \in Ttys |-> 1]

\* What no command can destroy.
Rooted ==
  /\ SlotsMatchInodes /\ NamesUnique
  /\ free_inodes >= MAX_INODES - (file_count - InitFileCount)
  /\ files[InitFileCount + 1].inode = 1
  /\ files[InitFileCount + 1].parent_inode = 1
  /\ files[InitFileCount + 1].type = FILE_DIR
  /\ \A k \in Live : /\ files[k].name \in Names \ InvalidNames
                     /\ files[k].parent_inode \in Inodes
  /\ \A k \in Slots : files[k].inode = 1 => k = InitFileCount + 1

\* The longest text, the longest file that a command can write, and its blocks.
Longest     == CHOOSE longest \in TextSizes : \A size \in TextSizes : size <= longest
LongestFile == MAX_FILE_SIZE + Longest
MostBlocks  == BlocksNeeded(LongestFile)

\* What the commands leave of the blocks: none is lost or shared, the root has
\* none, no file has too many, and with room for that many no write has failed.
Stored ==
  /\ Storage /\ BlockAccounting
  /\ inodes[1].blocks = 0
  /\ \A n \in Inodes : inodes[n].blocks <= MostBlocks
  /\ (MAX_FILES - InitFileCount - 1) * MostBlocks + 1 <= MAX_BLOCKS => ~write_failed

\* A call of execute_rm that has the root's slot never leaves its loop: the
\* root is its own first entry.
Frame(f) ==
  /\ f.i > InitFileCount
  /\ f.i = InitFileCount + 1 => f.dir = 1 /\ f.j <= InitFileCount + 1

\* What is not in the file system's tables.
Control ==
  /\ boot \in 1..(Len(BootCalls) + 1)
  /\ mode \in {"boot", "login", "prompt", "read", "key", "pwd", "fill", "rm",
               "overrun"}
  /\ walk \in Inodes /\ path \in Seq(Names)
  /\ stack \in Seq([i : Slots, dir : Inodes, j : Slots])
  /\ Len(stack) <= MaxFrames
  /\ \A d \in 1..Len(stack) : Frame(stack[d])
  /\ mode = "rm" => stack # << >>
  /\ pending \in [data : Data, size : Sizes] \cup {Idle}
  /\ mode = "fill" => /\ pending \in [data : Data, size : Sizes]
                      /\ pending.size <= LongestFile
  /\ current_tty \in Ttys /\ logged_in \in SUBSET Ttys
  /\ saved \in [Ttys -> Inodes]
  /\ tree_cut \in BOOLEAN

ShellInv ==
  /\ TypeOK /\ Control /\ BootInv
  /\ mode # "boot" => Rooted /\ Stored
  /\ mode = "fill" => files[file_count].type = FILE_REGULAR

\* The other terminals are in directories.
InUse == \A t \in Ttys \ {current_tty} : inodes[saved[t]].mode = FILE_DIR

\* What a call of execute_rm and a file just created stand for.
Remembered ==
  /\ mode = "rm" => /\ Len(stack) = 1 /\ stack[1].j = 1 /\ stack[1].i \in Live
                    /\ files[stack[1].i].inode = stack[1].dir
                    /\ files[stack[1].i].parent_inode = current_inode
  /\ mode = "fill" => /\ files[file_count].type = FILE_REGULAR
                      /\ files[file_count].parent_inode = current_inode

\* What holds as long as no directory in use has been taken away.
UncutInv == mode # "boot" /\ ~tree_cut => Tree /\ InUse /\ Remembered

-----------------------------------------------------------------------------
(* What the calls of fs_* leave of the tables                              *)

\* The first of some slots is the lowest of them.
LEMMA FirstIs ==
  ASSUME NEW S, S \subseteq Nat, S # {}
  PROVE  First(S) \in S /\ \A l \in S : First(S) <= l
<1> DEFINE R == {ss \in Nat \X Nat : ss[1] < ss[2]}
<1>1. OpToRel(<, Nat) = R
  BY DEF OpToRel
<1>2. IsWellFoundedOn(R, Nat)
  BY <1>1, NatLessThanWellFounded
<1> HIDE DEF R
<1>3. PICK x \in S : \A y \in S : ~(<<y, x>> \in R)
  BY <1>2, WFMin
<1>4. ASSUME NEW y \in S PROVE x <= y
  <2>1. x \in Nat /\ y \in Nat
    OBVIOUS
  <2>2. y < x => <<y, x>> \in R
    BY <2>1 DEF R
  <2> QED
    BY <1>3, <2>1, <2>2
<1> QED
  BY <1>4 DEF First

\* The root's slot is in use.
LEMMA RootSlot ==
  ASSUME TypeOK, Rooted
  PROVE  InitFileCount + 1 \in Live /\ InitFileCount + 1 \in Slots /\ 1 \in Inodes
  BY TableSizes DEF TypeOK, Rooted, SlotsMatchInodes, Live, Slots, Inodes

\* Creating keeps what Rooted says, in a deleted directory as well.
LEMMA CreateRooted ==
  ASSUME TypeOK, Rooted, NEW name \in Names, NEW type \in Types, Create(name, type)
  PROVE  Rooted'
<1>1. CASE ~CanCreate(name)
  BY <1>1 DEF Create, fs_create_file, tables, Rooted, SlotsMatchInodes, NamesUnique, Live
<1>2. CASE CanCreate(name)
  <2> SlotsMatchInodes /\ NamesUnique
    BY DEF Rooted
  <2> DEFINE new == file_count + 1
  <2>1. PICK n \in Inodes :
           /\ inodes[n].mode = "free"
           /\ inodes' = [inodes EXCEPT ![n] = NewInode(type)]
           /\ file_count' = file_count + 1
           /\ free_inodes' = free_inodes - 1
           /\ current_inode' = current_inode
           /\ Live' = Live \cup {new}
           /\ new \in Slots /\ new \notin Live
           /\ files'[new] = [inode |-> n, name |-> name,
                          parent_inode |-> current_inode, type |-> type]
           /\ \A k \in Slots : k # new => files'[k] = files[k]
           /\ \A k \in Live : files[k].inode # n
    BY <1>2, CreateSlots
  <2>2. \A k \in Live : k \in Slots /\ k \in 1..file_count /\ files'[k] = files[k]
    BY <2>1, LiveInSlots
  <2>3. NewInode(type).mode = type
    BY DEF NewInode, EmptyInode
  <2>4. \A m \in Inodes : inodes'[m].mode = IF m = n THEN type ELSE inodes[m].mode
    BY <2>1, <2>3 DEF TypeOK
  <2>5. SlotsMatchInodes'
    <3>1. InitFileCount < file_count'
      BY <2>1, TableSizes DEF SlotsMatchInodes, TypeOK
    <3>2. \A k \in 1..InitFileCount : files'[k] = EmptyEntry
      BY <2>1, TableSizes DEF SlotsMatchInodes, TypeOK, Slots
    <3>3. \A k \in Live' : /\ files'[k].inode \in Inodes
                           /\ inodes'[files'[k].inode].mode = files'[k].type
      BY <2>1, <2>2, <2>4 DEF SlotsMatchInodes
    <3>4. \A k, l \in Live' : files'[k].inode = files'[l].inode => k = l
      BY <2>1, <2>2 DEF SlotsMatchInodes
    <3>5. \A m \in Inodes : inodes'[m].mode # "free" =>
                              \E k \in Live' : files'[k].inode = m
      BY <2>1, <2>2, <2>4 DEF SlotsMatchInodes
    <3> QED
      BY <3>1, <3>2, <3>3, <3>4, <3>5 DEF SlotsMatchInodes
  <2>6. NamesUnique'
    <3>1. \A k \in Live : files[k].name = name =>
                            files[k].parent_inode # current_inode
      BY <1>2, <2>2 DEF CanCreate, file_exists_in_current_dir, InDir
    <3> QED
      BY <2>1, <2>2, <3>1 DEF NamesUnique
  <2>7. free_inodes' >= MAX_INODES - (file_count' - InitFileCount)
    BY <2>1, TableSizes DEF Rooted, TypeOK
  <2>8. InitFileCount + 1 \in Live /\ n # 1
    BY <2>1, RootSlot DEF Rooted
  <2>9. files'[InitFileCount + 1] = files[InitFileCount + 1]
    BY <2>2, <2>8
  <2>10. \A k \in Live' : /\ files'[k].name \in Names \ InvalidNames
                          /\ files'[k].parent_inode \in Inodes
    BY <1>2, <2>1, <2>2 DEF Rooted, TypeOK, CanCreate, is_valid_filename
  <2>11. \A k \in Slots : files'[k].inode = 1 => k = InitFileCount + 1
    BY <2>1, <2>8 DEF Rooted
  <2> QED
    BY <2>5, <2>6, <2>7, <2>9, <2>10, <2>11 DEF Rooted
<1> QED
  BY <1>1, <1>2

\* What fs_delete_file does to the slots: if a slot has the inode, it goes and
\* the later ones move down by one.
LEMMA DeleteSlots ==
  ASSUME TypeOK, Rooted, NEW n \in Inodes, n # 1, fs_delete_file(n)
  PROVE  \/ UNCHANGED <<files, file_count>> /\ \A k \in Live : files[k].inode # n
         \/ \E k \in Live :
              /\ files[k].inode = n /\ k > InitFileCount + 1
              /\ file_count' = file_count - 1
              /\ files' = [j \in Slots |-> IF j \in k..(file_count - 1)
                                           THEN files[j + 1] ELSE files[j]]
<1> DEFINE hits == {k \in 1..file_count : files[k].inode = n}
<1>1. RemoveEntry(n) /\ n # 0
  BY TableSizes DEF fs_delete_file, Inodes
<1>2. CASE hits = {}
  BY <1>1, <1>2, LiveInSlots DEF RemoveEntry
<1>3. CASE hits # {}
  <2>1. PICK k \in hits :
          /\ files' = [j \in Slots |-> IF j \in k..(file_count - 1)
                                       THEN files[j + 1] ELSE files[j]]
          /\ file_count' = file_count - 1
    BY <1>1, <1>3 DEF RemoveEntry
  <2>2. k \in Live
    BY <1>1, <2>1, LiveSlot DEF Rooted
  <2>3. k # InitFileCount + 1
    BY <2>1 DEF Rooted
  <2>4. k > InitFileCount + 1
    BY <2>2, <2>3, TableSizes DEF Live, TypeOK
  <2> QED
    BY <2>1, <2>2, <2>4
<1> QED
  BY <1>2, <1>3

\* Deleting keeps it too, whether or not the inode is in use.
LEMMA DeleteRooted ==
  ASSUME TypeOK, Rooted, NEW n \in {0} \cup Inodes, n # 1, fs_delete_file(n)
  PROVE  Rooted'
<1>1. CASE n \notin Inodes
  BY <1>1 DEF fs_delete_file, tables, Rooted, SlotsMatchInodes, NamesUnique, Live
<1>2. CASE n \in Inodes
  <2> SlotsMatchInodes /\ NamesUnique
    BY DEF Rooted
  <2>1. /\ inodes' = [inodes EXCEPT ![n] = EmptyInode]
        /\ free_inodes' = free_inodes + 1
        /\ current_inode' = current_inode
    BY <1>2 DEF fs_delete_file
  <2>2. \A m \in Inodes : inodes'[m].mode = IF m = n THEN "free" ELSE inodes[m].mode
    <3>1. EmptyInode.mode = "free"
      BY DEF EmptyInode
    <3> QED
      BY <2>1, <3>1 DEF TypeOK
  <2>3. CASE UNCHANGED <<files, file_count>> /\ \A k \in Live : files[k].inode # n
    <3>1. Live' = Live
      BY <2>3 DEF Live
    <3>2. SlotsMatchInodes'
      BY <2>2, <2>3, <3>1 DEF SlotsMatchInodes
    <3> QED
      BY <2>1, <2>3, <3>1, <3>2, TableSizes DEF Rooted, NamesUnique, TypeOK
  <2>4. ASSUME NEW k \in Live, files[k].inode = n, k > InitFileCount + 1,
               file_count' = file_count - 1,
               files' = [j \in Slots |-> IF j \in k..(file_count - 1)
                                         THEN files[j + 1] ELSE files[j]]
        PROVE  Rooted'
    <3>0. Live' = Live \ {file_count} /\ k \in Nat /\ k <= file_count
      BY <2>4, TableSizes DEF Live, TypeOK
    \* from(j) is the slot whose entry is in slot j after the deletion.
    <3> DEFINE from(j) == IF j < k THEN j ELSE j + 1
               to(l)   == IF l < k THEN l ELSE l - 1
    <3>1. \A j \in Live' : /\ from(j) \in Live /\ from(j) # k
                           /\ files'[j] = files[from(j)]
      BY <2>4, <3>0, TableSizes DEF Live, TypeOK, Slots
    <3>2. \A i, j \in Live' : from(i) = from(j) => i = j
      BY <3>0, LiveInSlots
    <3>3. \A l \in Live : l # k => to(l) \in Live' /\ from(to(l)) = l
      BY <2>4, <3>0, TableSizes DEF Live, TypeOK
    <3> HIDE DEF from, to
    <3>4. SlotsMatchInodes'
      <4>1. InitFileCount < file_count'
        BY <2>4, <3>0, TableSizes DEF TypeOK
      <4>2. \A j \in 1..InitFileCount : files'[j] = EmptyEntry
        BY <2>4, <3>0, TableSizes DEF SlotsMatchInodes, Slots, TypeOK
      <4>3. \A j \in Live' : /\ files'[j].inode \in Inodes
                             /\ inodes'[files'[j].inode].mode = files'[j].type
        BY <2>2, <2>4, <3>1 DEF SlotsMatchInodes
      <4>4. \A i, j \in Live' : files'[i].inode = files'[j].inode => i = j
        BY <3>1, <3>2 DEF SlotsMatchInodes
      <4>5. \A m \in Inodes : inodes'[m].mode # "free" =>
                                \E j \in Live' : files'[j].inode = m
        <5> SUFFICES ASSUME NEW m \in Inodes, inodes'[m].mode # "free"
                     PROVE  \E j \in Live' : files'[j].inode = m
          OBVIOUS
        <5>1. m # n /\ inodes[m].mode # "free"
          BY <2>2
        <5>2. PICK l \in Live : files[l].inode = m
          BY <5>1 DEF SlotsMatchInodes
        <5> QED
          BY <2>4, <3>1, <3>3, <5>1, <5>2
      <4> QED
        BY <4>1, <4>2, <4>3, <4>4, <4>5 DEF SlotsMatchInodes
    <3>5. NamesUnique'
      BY <3>1, <3>2 DEF NamesUnique
    <3>6. free_inodes' >= MAX_INODES - (file_count' - InitFileCount)
      BY <2>1, <2>4, TableSizes DEF Rooted, TypeOK
    <3>7. files'[InitFileCount + 1] = files[InitFileCount + 1]
      BY <2>4, <3>0, RootSlot, TableSizes
    <3>8. \A j \in Live' : /\ files'[j].name \in Names \ InvalidNames
                           /\ files'[j].parent_inode \in Inodes
      BY <3>1 DEF Rooted
    <3>9. \A j \in Slots : files'[j].inode = 1 => j = InitFileCount + 1
      <4> SUFFICES ASSUME NEW j \in Slots, files'[j].inode = 1
                   PROVE  j = InitFileCount + 1
        OBVIOUS
      <4>1. CASE j \in k..(file_count - 1)
        <5>1. j + 1 \in Slots /\ j + 1 > InitFileCount + 1
          BY <2>4, <3>0, <4>1, TableSizes DEF Slots, TypeOK
        <5> QED
          BY <2>4, <4>1, <5>1, TableSizes DEF Rooted
      <4>2. CASE j \notin k..(file_count - 1)
        BY <2>4, <4>2 DEF Rooted
      <4> QED
        BY <4>1, <4>2
    <3> QED
      BY <3>4, <3>5, <3>6, <3>7, <3>8, <3>9 DEF Rooted
  <2> QED
    BY <1>2, <2>3, <2>4, DeleteSlots
<1> QED
  BY <1>1, <1>2

\* A write to a file in use, of a text or of a file and a text.
WriteCall ==
  \E n \in Inodes, data \in Data, size \in Sizes :
    /\ n # 1 /\ inodes[n].mode # "free" /\ size <= LongestFile
    /\ fs_write_file(n, data, size)

\* What a step of the shell may do to the file system, after the boot.
Calling ==
  \/ UNCHANGED fs_vars
  \/ \E name \in Names, type \in Types : Create(name, type)
  \/ \E n \in ({0} \cup Inodes) \ {1} : fs_delete_file(n)
  \/ WriteCall
  \/ current_inode' \in Inodes /\ UNCHANGED <<tables, ret, write_failed>>

\* None of it breaks the types or what Rooted says.
LEMMA CallStep ==
  ASSUME TypeOK, Rooted, Calling
  PROVE  TypeOK' /\ Rooted'
<1>0. current_inode \in Inodes
  BY DEF TypeOK
<1>1. CASE UNCHANGED fs_vars
  BY <1>1 DEF fs_vars, tables, TypeOK, Rooted, SlotsMatchInodes, NamesUnique, Live
<1>2. ASSUME NEW name \in Names, NEW type \in Types, Create(name, type)
      PROVE  TypeOK' /\ Rooted'
  BY <1>0, <1>2, CreateType, CreateRooted DEF Create
<1>3. ASSUME NEW n \in ({0} \cup Inodes) \ {1}, fs_delete_file(n)
      PROVE  TypeOK' /\ Rooted'
  BY <1>3, RemoveType, DeleteRooted
<1>4. ASSUME NEW n \in Inodes, NEW data \in Data, NEW size \in Sizes,
             fs_write_file(n, data, size)
      PROVE  TypeOK' /\ Rooted'
  <2>1. TypeOK'
    BY <1>4, WriteType
  <2>2. /\ UNCHANGED <<free_inodes, files, file_count, current_inode>>
        /\ \A m \in Inodes : inodes'[m].mode = inodes[m].mode
    BY <1>4, WriteModes
  <2> QED
    BY <2>1, <2>2 DEF Rooted, SlotsMatchInodes, NamesUnique, Live
<1>5. CASE current_inode' \in Inodes /\ UNCHANGED <<tables, ret, write_failed>>
  BY <1>5 DEF tables, TypeOK, Rooted, SlotsMatchInodes, NamesUnique, Live
<1> QED
  BY <1>1, <1>2, <1>3, <1>4, <1>5 DEF Calling, WriteCall

\* A longer file needs no fewer blocks.
LEMMA BlocksMonotone ==
  ASSUME NEW x \in Nat, NEW y \in Nat, x <= y
  PROVE  BlocksNeeded(x) <= BlocksNeeded(y)
<1> DEFINE B == BLOCK_SIZE
           p == (x + B - 1) \div B
           q == (y + B - 1) \div B
<1>1. B \in Nat /\ B > 0 /\ p \in Int /\ q \in Int
  BY TableSizes
<1>2. B * p <= x + B - 1 /\ y + B - 1 < B * q + B
  BY <1>1
<1> HIDE DEF p, q, B
<1>3. B * p < B * q + B
  BY <1>1, <1>2
<1>4. B * p < B * (q + 1)
  BY <1>1, <1>3
<1>5. ASSUME p >= q + 1 PROVE B * p >= B * (q + 1)
  BY <1>1, <1>5
<1>6. p < q + 1
  BY <1>1, <1>4, <1>5
<1> QED
  BY <1>1, <1>6 DEF BlocksNeeded, p, q, B

\* The longest file has a size.
LEMMA LongestIs ==
  /\ Longest \in TextSizes /\ \A size \in TextSizes : size \in Nat /\ size <= Longest
  /\ LongestFile \in Nat /\ MostBlocks \in Nat
<1>1. /\ Longest \in TextSizes /\ \A size \in TextSizes : size \in Nat /\ size <= Longest
  BY ShellAssumption DEF Longest
<1>2. LongestFile \in Nat
  BY <1>1, ShellAssumption DEF LongestFile
<1> QED
  BY <1>1, <1>2, BlocksNeededType DEF MostBlocks

\* A write keeps Stored: there is room for it, or there never was.
LEMMA WriteStored ==
  ASSUME TypeOK, Rooted, Stored, NEW n \in Inodes, NEW data \in Data, NEW size \in Sizes,
         n # 1, inodes[n].mode # "free", size <= LongestFile, fs_write_file(n, data, size)
  PROVE  Stored'
<1>1. Storage' /\ BlockAccounting'
  BY WriteStorage, WriteCount DEF Stored
<1>2. size \in Nat /\ BlocksNeeded(size) <= MostBlocks
  BY InputAssumption, LongestIs, BlocksMonotone DEF MostBlocks
<1>3. /\ \A m \in Inodes : m # n => inodes'[m] = inodes[m]
      /\ inodes'[n].blocks = inodes[n].blocks \/ inodes'[n].blocks = BlocksNeeded(size)
  <2>1. UNCHANGED inodes \/ \E g : WriteBlocks(n, data, size, g) \/ WriteRollback(n, g)
    BY DEF fs_write_file
  <2> QED
    BY <2>1, InodeType DEF WriteBlocks, WriteRollback, TypeOK, Inode
<1>4. inodes'[1].blocks = 0
  BY <1>3, RootSlot DEF Stored
<1>5. \A m \in Inodes : inodes'[m].blocks <= MostBlocks
  BY <1>2, <1>3 DEF Stored
<1>6. (MAX_FILES - InitFileCount - 1) * MostBlocks + 1 <= MAX_BLOCKS => ~write_failed'
  <2> SUFFICES ASSUME (MAX_FILES - InitFileCount - 1) * MostBlocks + 1 <= MAX_BLOCKS,
                      write_failed'
               PROVE  FALSE
    OBVIOUS
  <2>1. ~write_failed
    BY DEF Stored
  <2>2. /\ BlocksNeeded(size) \in 0..INODE_DIRECT_BLOCKS
        /\ Cardinality(UnusedAfterFree(n)) < BlocksNeeded(size)
    BY <2>1, FailedWrite DEF Stored
  <2>3. inodes[1].mode # "free"
    BY RootSlot DEF Rooted, SlotsMatchInodes, FILE_DIR
  <2>4. Cardinality(UnusedAfterFree(n)) >= MostBlocks
    BY <2>3, LongestIs, RoomForWrite DEF Stored, Rooted
  <2>5. Cardinality(UnusedAfterFree(n)) \in Nat
    BY BlocksCount
  <2> QED
    BY <1>2, <2>2, <2>4, <2>5, LongestIs, TableSizes
<1> QED
  BY <1>1, <1>4, <1>5, <1>6 DEF Stored

\* Every call keeps Stored.
LEMMA CallStored ==
  ASSUME TypeOK, Rooted, Stored, Calling
  PROVE  Stored'
<1>0. MostBlocks \in Nat
  BY LongestIs
<1>1. CASE UNCHANGED <<inodes, block_used, free_blocks, write_failed>>
  BY <1>1 DEF Stored, Storage, LeakOnlyBlockZero, SoundUntilFailure, NoSharedBlocks, Lists,
              BlockAccounting
<1>2. ASSUME NEW name \in Names, NEW type \in Types, Create(name, type)
      PROVE  Stored'
  <2>1. CASE ~CanCreate(name)
    BY <1>1, <1>2, <2>1 DEF Create, fs_create_file, tables
  <2>2. CASE CanCreate(name)
    <3>1. Storage'
      BY <1>2, CreateStorage DEF Stored, Rooted
    <3>2. UNCHANGED <<block_used, free_blocks, write_failed>>
      BY <1>2, <2>2 DEF Create, fs_create_file
    <3>3. BlockAccounting'
      BY <3>2 DEF Stored, BlockAccounting
    <3>4. PICK n \in Inodes : /\ inodes[n].mode = "free"
                              /\ inodes' = [inodes EXCEPT ![n] = NewInode(type)]
      BY <1>2, <2>2, CreateSlots DEF Rooted
    <3>5. NewInode(type).blocks = 0
      BY DEF NewInode, EmptyInode
    <3>6. \A m \in Inodes : inodes'[m].blocks = 0 \/ inodes'[m] = inodes[m]
      BY <3>4, <3>5 DEF TypeOK
    <3> QED
      BY <1>0, <3>1, <3>2, <3>3, <3>6, RootSlot DEF Stored
  <2> QED
    BY <2>1, <2>2
<1>3. ASSUME NEW n \in ({0} \cup Inodes) \ {1}, fs_delete_file(n)
      PROVE  Stored'
  <2>1. CASE n \notin Inodes
    BY <1>1, <1>3, <2>1 DEF fs_delete_file, tables
  <2>2. CASE n \in Inodes
    <3>1. Storage' /\ BlockAccounting'
      BY <1>3, RemoveStorage, RemoveCount DEF Stored
    <3>2. inodes' = [inodes EXCEPT ![n] = EmptyInode] /\ UNCHANGED write_failed
      BY <1>3, <2>2 DEF fs_delete_file
    <3>3. EmptyInode.blocks = 0
      BY DEF EmptyInode
    <3>4. \A m \in Inodes : inodes'[m].blocks = 0 \/ inodes'[m] = inodes[m]
      BY <3>2, <3>3 DEF TypeOK
    <3> QED
      BY <1>0, <3>1, <3>2, <3>4, RootSlot DEF Stored
  <2> QED
    BY <2>1, <2>2
<1>4. CASE WriteCall
  BY <1>4, WriteStored DEF WriteCall
<1> QED
  BY <1>1, <1>2, <1>3, <1>4 DEF Calling, fs_vars, tables

\* The tables that kernel_main leaves are rooted.
LEMMA InitRooted == Init => Rooted
<1> SUFFICES ASSUME Init PROVE Rooted
  OBVIOUS
<1>1. TypeOK /\ EntriesMatchInodes /\ NamesUnique /\ ParentsFirst
  BY InitType, InitTree DEF Tree
<1>2. /\ BootSize \in Nat /\ BootSize >= 1
      /\ Live = (InitFileCount + 1)..(InitFileCount + BootSize)
      /\ \A i \in 1..BootSize : /\ BootTable[i].name \in Names \ InvalidNames
                                /\ BootTable[i].parent_inode \in Inodes
  <2> DEFINE R == [name : Names, parent_inode : Inodes, type : Types]
  <2>1. BootTable \in Seq(R)
    BY BootTableAssumption
  <2>2. BootSize \in Nat /\ \A i \in 1..BootSize : BootTable[i] \in R
    <3> HIDE DEF R
    <3> QED
      BY <2>1 DEF BootSize
  <2>3. \A i \in 1..BootSize : BootTable[i].name \notin InvalidNames
    BY BootAssumption
  <2> QED
    BY <2>2, <2>3, BootTableAssumption DEF Init, Live
<1>3. ASSUME NEW k \in Slots
      PROVE  /\ k \in Live =>
                  /\ files[k].inode = k - InitFileCount
                  /\ files[k].name = BootTable[k - InitFileCount].name
                  /\ files[k].parent_inode = BootTable[k - InitFileCount].parent_inode
             /\ k \notin Live => files[k].inode = 0
  <2> DEFINE i == k - InitFileCount
  <2>1. k \in Live => files[k] = [inode |-> i, name |-> BootTable[i].name,
                                  parent_inode |-> BootTable[i].parent_inode,
                                  type |-> BootTable[i].type]
    BY <1>2 DEF Init
  <2>2. k \notin Live => files[k] = EmptyEntry
    BY <1>2 DEF Init
  <2>3. k \in Live => /\ files[k].inode = i /\ files[k].name = BootTable[i].name
                      /\ files[k].parent_inode = BootTable[i].parent_inode
    <3> HIDE DEF i
    <3> QED
      BY <2>1
  <2>4. k \notin Live => files[k].inode = 0
    <3>1. EmptyEntry.inode = 0
      BY DEF EmptyEntry
    <3> QED
      BY <2>2, <3>1
  <2> QED
    BY <2>3, <2>4
<1>4. \A k \in Live : /\ files[k].name \in Names \ InvalidNames
                      /\ files[k].parent_inode \in Inodes
  <2> SUFFICES ASSUME NEW k \in Live
               PROVE  /\ files[k].name \in Names \ InvalidNames
                      /\ files[k].parent_inode \in Inodes
    OBVIOUS
  <2>1. k - InitFileCount \in 1..BootSize /\ k \in Slots
    BY <1>1, <1>2, LiveInSlots, TableSizes
  <2> DEFINE i == k - InitFileCount
  <2>2. /\ files[k].name = BootTable[i].name
        /\ files[k].parent_inode = BootTable[i].parent_inode
    BY <1>3, <2>1
  <2> HIDE DEF i
  <2> QED
    BY <1>2, <2>1, <2>2 DEF i
<1>5. ASSUME NEW k \in Slots, files[k].inode = 1
      PROVE  k = InitFileCount + 1
  <2>1. k \in Live
    BY <1>3, <1>5
  <2>2. files[k].inode = k - InitFileCount
    BY <1>3, <2>1
  <2> QED
    BY <1>5, <2>2, TableSizes DEF Slots
<1>6. files[InitFileCount + 1].type = FILE_DIR
  <2>1. InitFileCount + 1 \in Live
    BY <1>2, TableSizes
  <2> QED
    BY <1>1, <2>1 DEF EntriesMatchInodes, SlotsMatchInodes, ParentsFirst
<1> QED
  BY <1>1, <1>4, <1>5, <1>6, TableSizes
     DEF Rooted, EntriesMatchInodes, ParentsFirst, TypeOK

-----------------------------------------------------------------------------
(* Boot                                                                    *)

\* The sizes of the table and of the list of calls.
LEMMA BootSizes ==
  /\ BootSize \in Nat /\ BootSize >= 1 /\ InitFileCount + BootSize <= MAX_FILES
  /\ BootSize <= MAX_INODES
  /\ Len(BootCalls) \in Nat /\ BootSize <= Len(BootCalls)
  /\ InitFileCount \in Nat \ {0} /\ MAX_FILES \in Nat /\ MAX_INODES \in Nat
<1> DEFINE R == [name : Names, parent_inode : Inodes, type : Types]
           C == [name : Names, under : Names \cup {""}, type : Types]
<1>1. BootTable \in Seq(R) /\ InitFileCount + BootSize <= MAX_FILES /\ BootSize >= 1
  BY BootTableAssumption
<1>2. BootCalls \in Seq(C) /\ BootSize <= Len(BootCalls)
  BY BootAssumption
<1> HIDE DEF R, C
<1>3. BootSize \in Nat /\ Len(BootCalls) \in Nat
  BY <1>1, <1>2 DEF BootSize
<1> QED
  BY <1>1, <1>2, <1>3, TableSizes

\* The fields of a row.
LEMMA BootRow ==
  ASSUME NEW i \in 1..BootSize
  PROVE  /\ BootTable[i].name \in Names
         /\ BootTable[i].parent_inode \in Inodes
         /\ BootTable[i].type \in Types
<1> DEFINE R == [name : Names, parent_inode : Inodes, type : Types]
<1>1. BootTable \in Seq(R)
  BY BootTableAssumption
<1>2. BootTable[i] \in R
  <2> HIDE DEF R
  <2> QED
    BY <1>1 DEF BootSize
<1> QED
  BY <1>2

\* The slots after r rows.
LEMMA BootedSlots ==
  ASSUME NEW r \in 0..BootSize, Booted(r)
  PROVE  /\ \A k \in 1..InitFileCount : /\ k \in Slots /\ files[k].name = ""
                                        /\ files[k].parent_inode = 0
         /\ \A i \in 1..r :
              /\ InitFileCount + i \in Slots /\ InitFileCount + i \in 1..file_count
              /\ files[InitFileCount + i].inode = i
              /\ files[InitFileCount + i].name = BootTable[i].name
              /\ files[InitFileCount + i].parent_inode = BootTable[i].parent_inode
         /\ \A k \in 1..file_count :
              k \in 1..InitFileCount \/ \E i \in 1..r : k = InitFileCount + i
<1>1. file_count = InitFileCount + r /\ r \in Nat /\ InitFileCount \in Nat
  BY BootSizes DEF Booted
<1>2. ASSUME NEW k \in 1..InitFileCount
      PROVE  k \in Slots /\ files[k].name = "" /\ files[k].parent_inode = 0
  <2>1. k \in Slots /\ k \notin (InitFileCount + 1)..(InitFileCount + r)
    BY <1>1, BootSizes DEF Slots
  <2>2. files[k] = EmptyEntry
    BY <2>1 DEF Booted
  <2>3. EmptyEntry.name = "" /\ EmptyEntry.parent_inode = 0
    BY DEF EmptyEntry
  <2> QED
    BY <2>1, <2>2, <2>3
<1>3. ASSUME NEW i \in 1..r
      PROVE  /\ InitFileCount + i \in Slots /\ InitFileCount + i \in 1..file_count
             /\ files[InitFileCount + i].inode = i
             /\ files[InitFileCount + i].name = BootTable[i].name
             /\ files[InitFileCount + i].parent_inode = BootTable[i].parent_inode
  <2> DEFINE k == InitFileCount + i
  <2>1. /\ k \in Slots /\ k \in (InitFileCount + 1)..(InitFileCount + r)
        /\ k - InitFileCount = i /\ k \in 1..file_count
    BY <1>1, BootSizes DEF Slots
  <2> HIDE DEF k
  <2>2. files[k] = [inode |-> i, name |-> BootTable[i].name,
                    parent_inode |-> BootTable[i].parent_inode,
                    type |-> BootTable[i].type]
    BY <2>1 DEF Booted
  <2> QED
    BY <2>1, <2>2 DEF k
<1>4. ASSUME NEW k \in 1..file_count, k \notin 1..InitFileCount
      PROVE  \E i \in 1..r : k = InitFileCount + i
  <2>1. k - InitFileCount \in 1..r /\ k = InitFileCount + (k - InitFileCount)
    BY <1>1, <1>4
  <2> QED
    BY <2>1
<1> QED
  BY <1>2, <1>3, <1>4

\* What kernel_main takes for a directory is an inode, if it finds it.
LEMMA BootParentType ==
  ASSUME NEW r \in 0..BootSize, Booted(r), NEW call
  PROVE  BootParent(call) \in {0} \cup Inodes
<1> DEFINE under == call.under
           hits  == {k \in 1..file_count : files[k].name = under}
<1>1. CASE under = "" \/ hits = {}
  <2>1. 1 \in Inodes
    BY BootSizes DEF Inodes
  <2> QED
    BY <1>1, <2>1 DEF BootParent
<1>2. CASE under # "" /\ hits # {}
  <2>1. hits \subseteq Nat
    OBVIOUS
  <2> HIDE DEF under
  <2>2. First(hits) \in hits
    BY <1>2, <2>1, FirstIs
  <2>3. PICK i \in 1..r : First(hits) = InitFileCount + i
    BY <1>2, <2>2, BootedSlots
  <2>4. files[First(hits)].inode = i
    BY <2>3, BootedSlots
  <2>5. i \in Inodes
    BY BootSizes DEF Inodes
  <2> QED
    BY <1>2, <2>4, <2>5 DEF BootParent, under
<1> QED
  BY <1>1, <1>2

\* Each of the calls that make a row finds the row's parent,
LEMMA BootParentIs ==
  ASSUME NEW b \in 1..BootSize, Booted(b - 1)
  PROVE  BootParent(BootCalls[b]) = BootTable[b].parent_inode
<1> DEFINE under == BootCalls[b].under
           p     == BootTable[b].parent_inode
           hits  == {k \in 1..file_count : files[k].name = under}
<1>0. b - 1 \in 0..BootSize
  BY BootSizes
<1>1. CASE under = ""
  BY <1>1, BootAssumption DEF BootParent
<1>2. CASE under # ""
  <2>1. /\ p < b /\ BootTable[p].name = under
        /\ \A i \in 1..(p - 1) : BootTable[i].name # under
    BY <1>2, BootAssumption
  <2>2. p \in 1..(b - 1)
    BY <2>1, BootRow, BootSizes DEF Inodes
  <2>3. InitFileCount + p \in hits
    BY <1>0, <2>1, <2>2, BootedSlots
  <2>4. hits \subseteq Nat /\ hits # {}
    BY <2>3
  <2> HIDE DEF under
  <2>5. First(hits) \in hits /\ First(hits) <= InitFileCount + p
    BY <2>3, <2>4, FirstIs
  <2>6. PICK i \in 1..(b - 1) : First(hits) = InitFileCount + i
    BY <1>0, <1>2, <2>5, BootedSlots
  <2>7. BootTable[i].name = under
    BY <1>0, <2>5, <2>6, BootedSlots
  <2>8. i = p
    BY <2>1, <2>2, <2>5, <2>6, <2>7, TableSizes
  <2>9. files[First(hits)].inode = p
    BY <1>0, <2>2, <2>6, <2>8, BootedSlots
  <2> QED
    BY <1>2, <2>4, <2>9 DEF BootParent, under
<1> QED
  BY <1>1, <1>2

\* and makes it.
LEMMA BootCreate ==
  ASSUME NEW b \in 1..BootSize, Booted(b - 1), NEW type, type = BootTable[b].type,
         NEW name, name = BootTable[b].name, name = BootCalls[b].name,
         NEW parent, parent = BootTable[b].parent_inode,
         fs_create_file(name, parent, type)
  PROVE  Booted(b)'
<1>0. /\ b - 1 \in 0..BootSize /\ b \in Nat /\ InitFileCount \in Nat
      /\ file_count = InitFileCount + (b - 1) /\ free_inodes = MAX_INODES - (b - 1)
      /\ b \in Inodes /\ file_count + 1 \in Slots /\ MAX_INODES \in Nat /\ current_inode = 1
  <2>1. /\ b - 1 \in 0..BootSize /\ b \in Nat /\ b >= 1 /\ b <= BootSize
        /\ InitFileCount \in Nat /\ MAX_INODES \in Nat /\ MAX_FILES \in Nat
        /\ BootSize \in Nat /\ BootSize <= MAX_INODES
        /\ InitFileCount + BootSize <= MAX_FILES
    BY BootSizes
  <2>2. /\ file_count = InitFileCount + (b - 1) /\ free_inodes = MAX_INODES - (b - 1)
        /\ current_inode = 1
    BY DEF Booted
  <2>3. b \in Inodes
    BY <2>1 DEF Inodes
  <2>4. file_count + 1 \in Slots
    BY <2>1, <2>2 DEF Slots
  <2> QED
    BY <2>1, <2>2, <2>3, <2>4
<1>1. \A n \in Inodes : inodes[n].mode = "free" <=> n >= b
  <2> SUFFICES ASSUME NEW n \in Inodes PROVE inodes[n].mode = "free" <=> n >= b
    OBVIOUS
  <2>1. n \in Nat /\ inodes[n] = IF n <= b - 1 THEN NewInode(BootTable[n].type) ELSE EmptyInode
    BY DEF Booted, Inodes
  <2>2. CASE n <= b - 1
    <3>1. BootTable[n].type \in Types
      BY <1>0, <2>1, <2>2, BootRow, BootSizes DEF Inodes
    <3>2. NewInode(BootTable[n].type).mode = BootTable[n].type
      BY DEF NewInode, EmptyInode
    <3> QED
      BY <1>0, <2>1, <2>2, <3>1, <3>2 DEF Types, FILE_REGULAR, FILE_DIR
  <2>3. CASE ~(n <= b - 1)
    <3>1. EmptyInode.mode = "free"
      BY DEF EmptyInode
    <3> QED
      BY <1>0, <2>1, <2>3, <3>1
  <2> QED
    BY <2>2, <2>3
<1>2. \A n \in Inodes : fs_alloc_inode(n) <=> n = b
  <2>1. free_inodes # 0
    BY <1>0, BootSizes
  <2>2. \A n \in Inodes : n \in Nat
    BY DEF Inodes
  <2> QED
    BY <1>0, <1>1, <2>1, <2>2 DEF fs_alloc_inode, IsLowest, FreeInodes
<1>3. CanCreate(name)
  <2>1. is_valid_filename(name)
    BY BootAssumption DEF is_valid_filename
  <2>2. InDir(1, name) = {}
    <3> SUFFICES ASSUME NEW k \in 1..file_count, files[k].parent_inode = 1,
                        files[k].name = name
                 PROVE  FALSE
      BY DEF InDir
    <3>0. k \notin 1..InitFileCount
      <4>1. b - 1 \in 0..BootSize
        BY <1>0
      <4>2. \A j \in 1..InitFileCount : files[j].parent_inode = 0
        BY <4>1, BootedSlots
      <4> QED
        BY <4>2
    <3>1. PICK i \in 1..(b - 1) : k = InitFileCount + i
      BY <1>0, <3>0, BootedSlots
    <3>2. BootTable[i].name = name /\ BootTable[i].parent_inode = 1
      BY <1>0, <3>1, BootedSlots
    <3> QED
      BY <3>2, BootAssumption
  <2>3. file_count < MAX_FILES
    BY <1>0, BootSizes
  <2> QED
    BY <1>0, <1>2, <2>1, <2>2, <2>3 DEF CanCreate, file_exists_in_current_dir
<1> DEFINE row == [inode |-> b, name |-> name, parent_inode |-> parent, type |-> type]
<1>4. /\ files' = [files EXCEPT ![file_count + 1] = row]
      /\ inodes' = [inodes EXCEPT ![b] = NewInode(type)]
      /\ file_count' = file_count + 1
      /\ free_inodes' = free_inodes - 1
      /\ ret' = FS_SUCCESS
      /\ UNCHANGED <<blocks, block_used, free_blocks, current_inode, write_failed>>
  BY <1>2, <1>3 DEF fs_create_file
<1>5. files' = [k \in Slots |->
                  IF k \in (InitFileCount + 1)..(InitFileCount + b)
                  THEN LET i == k - InitFileCount
                       IN  [inode        |-> i,
                            name         |-> BootTable[i].name,
                            parent_inode |-> BootTable[i].parent_inode,
                            type         |-> BootTable[i].type]
                  ELSE EmptyEntry]
  <2> DEFINE Row(i) == [inode |-> i, name |-> BootTable[i].name,
                        parent_inode |-> BootTable[i].parent_inode,
                        type |-> BootTable[i].type]
  <2>1. row = Row(b)
    OBVIOUS
  <2>2. files = [k \in Slots |->
                   IF k \in (InitFileCount + 1)..(InitFileCount + (b - 1))
                   THEN Row(k - InitFileCount) ELSE EmptyEntry]
    BY DEF Booted
  <2> HIDE DEF row, Row
  <2>3. files' = [k \in Slots |->
                   IF k \in (InitFileCount + 1)..(InitFileCount + b)
                   THEN Row(k - InitFileCount) ELSE EmptyEntry]
    <3>1. files' = [k \in Slots |-> IF k = InitFileCount + b THEN Row(b) ELSE files[k]]
      <4>1. file_count + 1 = InitFileCount + b
        BY <1>0
      <4> QED
        BY <1>0, <1>4, <2>1, <2>2, <4>1
    <3>2. \A k \in Slots : k \in Nat
      BY DEF Slots
    <3>3. ASSUME NEW k \in Slots
          PROVE  files'[k] = IF k \in (InitFileCount + 1)..(InitFileCount + b)
                             THEN Row(k - InitFileCount) ELSE EmptyEntry
      <4>1. CASE k = InitFileCount + b
        <5>1. k - InitFileCount = b /\ k \in (InitFileCount + 1)..(InitFileCount + b)
          BY <1>0, <4>1
        <5> QED
          BY <3>1, <4>1, <5>1
      <4>2. CASE k # InitFileCount + b
        <5>1. k \in (InitFileCount + 1)..(InitFileCount + b)
                <=> k \in (InitFileCount + 1)..(InitFileCount + (b - 1))
          BY <1>0, <3>2, <4>2
        <5> QED
          BY <2>2, <3>1, <4>2, <5>1
      <4> QED
        BY <4>1, <4>2
    <3> QED
      BY <3>1, <3>3
  <2> QED
    BY <2>3 DEF Row
<1>6. inodes' = [n \in Inodes |-> IF n <= b THEN NewInode(BootTable[n].type) ELSE EmptyInode]
  <2>1. inodes = [n \in Inodes |-> IF n <= b - 1 THEN NewInode(BootTable[n].type)
                                   ELSE EmptyInode]
    BY DEF Booted
  <2>2. \A n \in Inodes : n \in Nat /\ (n <= b <=> n = b \/ n <= b - 1)
    BY <1>0 DEF Inodes
  <2> QED
    BY <1>0, <1>4, <2>1, <2>2
<1>7. file_count' = InitFileCount + b /\ free_inodes' = MAX_INODES - b
  BY <1>0, <1>4
<1> QED
  BY <1>4, <1>5, <1>6, <1>7 DEF Booted

\* A call of kernel_main makes the next row or, after the last, changes nothing.
LEMMA KernelMainStep ==
  ASSUME BootInv, boot \in 1..(Len(BootCalls) + 1), kernel_main
  PROVE  BootInv' /\ boot' \in 1..(Len(BootCalls) + 1)
<1> DEFINE call == BootCalls[boot]
<1>0. /\ Booted(Rows) /\ saved = [t \in Ttys |-> 1] /\ boot \in 1..Len(BootCalls)
      /\ boot' = boot + 1 /\ UNCHANGED <<mode, saved>>
      /\ boot' \in 1..(Len(BootCalls) + 1)
  BY BootSizes DEF BootInv, kernel_main, tty_vars
<1>1. CASE boot <= BootSize
  <2>1. Rows = boot - 1 /\ Rows' = boot /\ boot \in 1..BootSize
    BY <1>0, <1>1, BootSizes DEF Rows
  <2>2. BootParent(call) = BootTable[boot].parent_inode
    BY <1>0, <2>1, BootParentIs
  <2>3. BootParent(call) # 0
    BY <2>1, <2>2, BootRow DEF Inodes
  <2>4. fs_create_file(call.name, BootParent(call), call.type)
    BY <2>3 DEF kernel_main
  <2>5. call.name = BootTable[boot].name /\ call.type = BootTable[boot].type
    BY <2>1, BootAssumption
  <2>6. PICK b \in 1..BootSize : b = boot
    BY <2>1
  <2>7. PICK name, parent, type : /\ name = call.name /\ parent = BootParent(call)
                                  /\ type = call.type
    OBVIOUS
  <2>8. /\ Booted(b - 1) /\ type = BootTable[b].type
        /\ name = BootTable[b].name /\ name = BootCalls[b].name
        /\ parent = BootTable[b].parent_inode
        /\ fs_create_file(name, parent, type)
    BY <1>0, <2>1, <2>2, <2>4, <2>5, <2>6, <2>7
  <2>9. Booted(b)'
    BY <2>8, BootCreate
  <2>10. Rows' = b
    BY <2>1, <2>6
  <2> QED
    BY <1>0, <2>9, <2>10 DEF BootInv
<1>2. CASE boot > BootSize
  <2>1. Rows = BootSize /\ Rows' = BootSize /\ boot \in (BootSize + 1)..Len(BootCalls)
    BY <1>0, <1>2, BootSizes DEF Rows
  <2>2. ~CanCreate(call.name)
    <3>1. PICK i \in 1..BootSize : /\ BootTable[i].name = call.name
                                   /\ BootTable[i].parent_inode = 1
      BY <2>1, BootAssumption
    <3>2. Booted(BootSize) /\ BootSize \in 0..BootSize
      BY <1>0, <2>1, BootSizes
    <3>3. InitFileCount + i \in InDir(1, call.name)
      BY <3>1, <3>2, BootedSlots DEF InDir
    <3>4. current_inode = 1
      BY <3>2 DEF Booted
    <3> QED
      BY <3>3, <3>4 DEF CanCreate, file_exists_in_current_dir
  <2>3. UNCHANGED <<tables, current_inode, write_failed>> /\ ret' \in {ret, FS_ERROR}
    BY <2>2 DEF kernel_main, fs_create_file, fs_vars
  <2>4. Booted(BootSize)
    BY <1>0, <2>1
  <2>5. Booted(BootSize)'
    BY <2>3, <2>4 DEF Booted, tables
  <2> QED
    BY <1>0, <2>1, <2>5 DEF BootInv
<1> QED
  BY <1>0, <1>1, <1>2, BootSizes

\* When all the calls are made, the tables are those BkFS starts from.
LEMMA BootEnds ==
  ASSUME BootInv, mode = "boot", boot = Len(BootCalls) + 1
  PROVE  Init
<1>1. Rows = BootSize
  BY BootSizes DEF Rows
<1>2. Booted(BootSize)
  BY <1>1 DEF BootInv
<1> QED
  BY <1>2 DEF Booted, Init

-----------------------------------------------------------------------------
(* Commands                                                                *)

\* After the boot, a command that calls as it should leaves the invariant to
\* what it does besides.
LEMMA AfterCall ==
  ASSUME ShellInv, mode # "boot", Calling, mode' # "boot", TypeOK' => Control',
         mode' = "fill" => files'[file_count'].type = FILE_REGULAR
  PROVE  ShellInv'
<1>1. TypeOK' /\ Rooted' /\ Stored'
  BY CallStep, CallStored DEF ShellInv
<1> QED
  BY <1>1 DEF ShellInv, BootInv

\* A command that is done, or waits, leaves the stack and the terminals alone.
LEMMA DoneControl ==
  ASSUME Control, TypeOK', StartWalk("prompt") \/ StartWalk("pwd"),
         pending' = pending \/ pending' = Idle,
         UNCHANGED <<boot, stack, tty_vars, tree_cut>>
  PROVE  Control' /\ mode' \notin {"boot", "fill"}
<1>1. walk' = current_inode' /\ path' = << >> /\ mode' \in {"prompt", "pwd"}
  BY DEF StartWalk
<1>2. current_inode' \in Inodes
  BY DEF TypeOK
<1>3. << >> \in Seq(Names)
  OBVIOUS
<1> QED
  BY <1>1, <1>2, <1>3 DEF Control, tty_vars, Frame

\* The first of some entries of a directory is one of its live entries.
LEMMA FirstHit ==
  ASSUME TypeOK, Rooted, NEW dir \in Inodes, NEW name,
         NEW S, S \subseteq InDir(dir, name), S # {}
  PROVE  /\ First(S) \in S /\ First(S) \in Live /\ First(S) \in Slots
         /\ files[First(S)].inode \in Inodes
         /\ files[First(S)].parent_inode = dir /\ files[First(S)].name = name
<1>1. S \subseteq Nat
  BY DEF InDir
<1>2. First(S) \in S /\ First(S) \in 1..file_count
      /\ files[First(S)].parent_inode = dir /\ files[First(S)].name = name
  BY <1>1, FirstIs DEF InDir
<1>3. files[First(S)].parent_inode # 0
  BY <1>2 DEF Inodes
<1>4. First(S) \in Live
  BY <1>2, <1>3, LiveSlot DEF Rooted
<1> QED
  BY <1>2, <1>4, LiveInSlots DEF Rooted, SlotsMatchInodes

\* The parent of a directory is a directory's number, or its own.
LEMMA ParentType ==
  ASSUME TypeOK, Rooted, NEW n \in Inodes
  PROVE  ParentOf(n) \in Inodes
<1> DEFINE hits == {k \in 1..file_count : files[k].inode = n}
<1>1. CASE hits = {}
  BY <1>1 DEF ParentOf
<1>2. CASE hits # {}
  <2>1. hits \subseteq Nat
    OBVIOUS
  <2>2. First(hits) \in hits
    BY <1>2, <2>1, FirstIs
  <2>3. n # 0
    BY DEF Inodes
  <2>4. First(hits) \in Live
    BY <2>2, <2>3, LiveSlot DEF Rooted
  <2> QED
    BY <1>2, <2>4 DEF ParentOf, Rooted
<1> QED
  BY <1>1, <1>2

\* The walk to the root passes through inodes and collects names.
LEMMA WalkStep ==
  ASSUME ShellInv, mode # "boot", print_prompt \/ execute_pwd
  PROVE  ShellInv'
<1> TypeOK /\ Rooted /\ Control
  BY DEF ShellInv
<1>1. /\ UNCHANGED <<fs_vars, boot, stack, pending, tty_vars, tree_cut>>
      /\ Calling
  BY DEF print_prompt, execute_pwd, Calling
<1>2. ASSUME WalkUp, mode \in {"prompt", "pwd"} PROVE Control' /\ mode' \notin {"boot", "fill"}
  <2>1. walk' \in Inodes
    BY <1>2, ParentType DEF WalkUp, Control
  <2>2. walk \in LiveInodes => NameOf(walk) \in Names
    <3> SUFFICES ASSUME walk \in LiveInodes PROVE NameOf(walk) \in Names
      OBVIOUS
    <3> DEFINE hits == {k \in 1..file_count : files[k].inode = walk}
    <3>1. PICK k \in Live : files[k].inode = walk
      BY DEF LiveInodes
    <3>2. k \in hits /\ hits \subseteq Nat
      BY <3>1, LiveInSlots
    <3>3. First(hits) \in hits
      BY <3>2, FirstIs
    <3>4. files[First(hits)].inode # 0
      BY <3>3 DEF Control, Inodes
    <3>5. First(hits) \in Live
      BY <3>3, <3>4, LiveSlot DEF Rooted
    <3> QED
      BY <3>5 DEF NameOf, Rooted
  <2>3. path' \in Seq(Names)
    <3>1. ASSUME NEW name \in Names PROVE << name >> \o path \in Seq(Names)
      <4>1. << name >> \in Seq(Names) /\ path \in Seq(Names)
        BY DEF Control
      <4> QED
        BY <4>1, ConcatProperties
    <3> QED
      BY <1>2, <2>2, <3>1 DEF WalkUp, Prepend, Control
  <2>4. mode' \in {"prompt", "pwd", "overrun"}
    BY <1>2 DEF WalkUp
  <2> QED
    BY <1>1, <2>1, <2>3, <2>4 DEF Control, tty_vars, Frame
<1>3. ASSUME TypeOK' PROVE Control' /\ mode' \notin {"boot", "fill"}
  <2>1. CASE print_prompt
    <3>1. CASE walk = 1 /\ mode' = "read" /\ path' = << >> /\ UNCHANGED walk
      <4>1. path' \in Seq(Names)
        BY <3>1
      <4> QED
        BY <1>1, <3>1, <4>1 DEF Control, tty_vars, Frame
    <3> QED
      BY <1>2, <2>1, <3>1 DEF print_prompt
  <2>2. CASE execute_pwd
    <3>1. CASE StartWalk("pwd") \/ StartWalk("prompt")
      BY <1>1, <1>3, <3>1, DoneControl
    <3> QED
      BY <1>2, <2>2, <3>1 DEF execute_pwd
  <2> QED
    BY <2>1, <2>2
<1>4. TypeOK'
  BY <1>1, CallStep
<1> QED
  BY <1>1, <1>3, <1>4, AfterCall

\* cd leads to the root, to a parent or to an entry of the directory.
LEMMA CdStep ==
  ASSUME ShellInv, mode # "boot", NEW name, execute_cd(name)
  PROVE  ShellInv'
<1> TypeOK /\ Rooted /\ Control
  BY DEF ShellInv
<1> DEFINE dirs == {k \in InDir(current_inode, name) : files[k].type = FILE_DIR}
<1>1. current_inode \in Inodes /\ 1 \in Inodes
  BY RootSlot DEF TypeOK
<1>2. dirs # {} => files[First(dirs)].inode \in Inodes
  <2>1. dirs \subseteq InDir(current_inode, name)
    OBVIOUS
  <2> QED
    BY <1>1, <2>1, FirstHit
<1>3. current_inode' \in Inodes
  <2>1. CASE name = ""
    BY <1>1, <2>1 DEF execute_cd
  <2>2. CASE name = ".." /\ name # ""
    BY <1>1, <2>2, ParentType DEF execute_cd
  <2>3. CASE name # "" /\ name # ".."
    BY <1>1, <1>2, <2>3 DEF execute_cd
  <2> QED
    BY <2>1, <2>2, <2>3
<1>4. Calling
  BY <1>3 DEF execute_cd, Calling
<1>5. ASSUME TypeOK' PROVE Control' /\ mode' \notin {"boot", "fill"}
  BY <1>5, DoneControl DEF execute_cd, Done
<1>6. TypeOK'
  BY <1>4, CallStep
<1> QED
  BY <1>4, <1>5, <1>6, AfterCall

\* touch and mkdir.
LEMMA MakeStep ==
  ASSUME ShellInv, mode # "boot", NEW command, NEW name \in Names, NEW type \in Types,
         MakeEntry(command, name, type)
  PROVE  ShellInv'
<1> TypeOK /\ Rooted /\ Control
  BY DEF ShellInv
<1>1. Calling
  BY DEF MakeEntry, Calling, Create
<1>2. ASSUME TypeOK' PROVE Control' /\ mode' \notin {"boot", "fill"}
  BY <1>2, DoneControl DEF MakeEntry, Done
<1>3. TypeOK'
  BY <1>1, CallStep
<1> QED
  BY <1>1, <1>2, <1>3, AfterCall

\* A file just created has the last slot.
LEMMA CreatedLast ==
  ASSUME TypeOK, Rooted, NEW name \in Names, CanCreate(name),
         fs_create_file(name, current_inode, FILE_REGULAR)
  PROVE  /\ files'[file_count'].type = FILE_REGULAR
         /\ files'[file_count'].parent_inode = current_inode'
<1>1. /\ file_count' = file_count + 1
      /\ current_inode' = current_inode
      /\ \E n \in Inodes : files' = [files EXCEPT ![file_count + 1] =
                               [inode |-> n, name |-> name,
                                parent_inode |-> current_inode, type |-> FILE_REGULAR]]
  BY DEF fs_create_file
<1>2. file_count + 1 \in Slots
  BY TableSizes DEF CanCreate, TypeOK, Slots
<1> QED
  BY <1>1, <1>2 DEF TypeOK

\* A file that is not there is created, to be written next.
LEMMA CreateAndFillStep ==
  ASSUME ShellInv, mode # "boot", NEW name \in Names, NEW data \in Data,
         NEW size \in Sizes, size <= LongestFile, CreateAndFill(name, data, size),
         UNCHANGED <<boot, stack, tty_vars, tree_cut>>
  PROVE  ShellInv'
<1> TypeOK /\ Rooted /\ Control
  BY DEF ShellInv
<1>1. Calling
  BY DEF CreateAndFill, Calling, Create, Types
<1>2. TypeOK'
  BY <1>1, CallStep
<1>3. CASE CanCreate(name)
  <2>1. /\ mode' = "fill" /\ pending' = [data |-> data, size |-> size]
        /\ UNCHANGED walk_vars
    BY <1>3 DEF CreateAndFill
  <2>2. pending' \in [data : Data, size : Sizes] /\ pending'.size = size
    BY <2>1
  <2>3. Control'
    BY <2>1, <2>2 DEF Control, tty_vars, walk_vars, Frame
  <2>4. files'[file_count'].type = FILE_REGULAR
    BY <1>3, CreatedLast DEF CreateAndFill
  <2> QED
    BY <1>1, <2>1, <2>3, <2>4, AfterCall
<1>4. CASE ~CanCreate(name)
  <2>1. Control' /\ mode' \notin {"boot", "fill"}
    BY <1>2, <1>4, DoneControl DEF CreateAndFill, Done
  <2> QED
    BY <1>1, <2>1, AfterCall
<1> QED
  BY <1>3, <1>4

\* A write to a live file, after which the command is done.
LEMMA WriteDone ==
  ASSUME ShellInv, mode # "boot", NEW n \in Inodes, NEW data \in Data,
         NEW size \in Sizes, n # 1, inodes[n].mode # "free", size <= LongestFile,
         fs_write_file(n, data, size), StartWalk("prompt"),
         pending' = pending \/ pending' = Idle,
         UNCHANGED <<boot, stack, tty_vars, tree_cut>>
  PROVE  ShellInv'
<1> TypeOK /\ Rooted /\ Control
  BY DEF ShellInv
<1>1. Calling
  BY DEF Calling, WriteCall
<1>2. TypeOK'
  BY <1>1, CallStep
<1>3. Control' /\ mode' \notin {"boot", "fill"}
  BY <1>2, DoneControl
<1> QED
  BY <1>1, <1>3, AfterCall

\* A text, alone or after what is read of a file, has a size that BkFS knows of
\* and is no longer than the longest file.
LEMMA TextSize ==
  ASSUME NEW size \in TextSizes, NEW length \in 0..(MAX_FILE_SIZE - 1), NEW sep \in {0, 1}
  PROVE  /\ size \in Sizes /\ size <= LongestFile
         /\ length + sep + size \in Sizes /\ length + sep + size <= LongestFile
<1>1. MAX_FILE_SIZE \in Nat \ {0} /\ size \in Nat /\ Longest \in Nat /\ size <= Longest
  BY ShellAssumption, LongestIs
<1>2. 0..(MAX_FILE_SIZE + size) \subseteq Sizes
  BY SizesAssumption
<1>3. /\ size \in 0..(MAX_FILE_SIZE + size)
      /\ length + sep + size \in 0..(MAX_FILE_SIZE + size)
  BY <1>1
<1> QED
  BY <1>1, <1>2, <1>3 DEF LongestFile

\* What is read of a file fits the buffer.
LEMMA LengthRead ==
  ASSUME TypeOK, NEW n \in Inodes,
         NEW length \in Lengths(fs_read_file(n, MAX_FILE_SIZE - 1))
  PROVE  length \in 0..(MAX_FILE_SIZE - 1)
<1> DEFINE old == fs_read_file(n, MAX_FILE_SIZE - 1)
<1>1. MAX_FILE_SIZE \in Nat \ {0} /\ inodes[n].size \in Nat
  BY ShellAssumption, InodeType
<1>2. old.size = IF MAX_FILE_SIZE - 1 > inodes[n].size THEN inodes[n].size
                 ELSE MAX_FILE_SIZE - 1
  BY DEF fs_read_file
<1>3. old.size \in 0..(MAX_FILE_SIZE - 1)
  BY <1>1, <1>2
<1> HIDE DEF old
<1>4. length \in 0..old.size \/ length = old.size
  BY DEF Lengths, old
<1> QED
  BY <1>1, <1>3, <1>4

\* Appending writes the file, or overruns the buffers.
LEMMA AppendToStep ==
  ASSUME ShellInv, mode # "boot", NEW n \in Inodes, NEW data \in Data,
         n # 1, inodes[n].mode # "free", NEW size \in TextSizes, AppendTo(n, data, size),
         UNCHANGED <<boot, stack, tty_vars, tree_cut>>
  PROVE  ShellInv'
<1> TypeOK /\ Rooted /\ Control
  BY DEF ShellInv
<1> DEFINE old == fs_read_file(n, MAX_FILE_SIZE - 1)
<1>1. PICK length \in Lengths(old), sep \in Separators(n, old) :
        \/ fs_write_file(n, data, length + sep + size) /\ Done
        \/ mode' = "overrun" /\ UNCHANGED <<fs_vars, walk_vars, pending>>
  BY DEF AppendTo
<1>2. sep \in {0, 1}
  BY DEF Separators
<1>3. length \in 0..(MAX_FILE_SIZE - 1)
  BY LengthRead
<1>4. length + sep + size \in Sizes /\ length + sep + size <= LongestFile
  BY <1>2, <1>3, TextSize
<1>5. CASE fs_write_file(n, data, length + sep + size) /\ Done
  BY <1>4, <1>5, WriteDone DEF Done
<1>6. CASE mode' = "overrun" /\ UNCHANGED <<fs_vars, walk_vars, pending>>
  <2>1. Calling
    BY <1>6 DEF Calling
  <2>2. Control'
    BY <1>6 DEF Control, tty_vars, walk_vars, Frame
  <2> QED
    BY <1>6, <2>1, <2>2, AfterCall
<1> QED
  BY <1>1, <1>5, <1>6

\* The inode that a redirection writes to is a file of the working directory.
LEMMA RegularHit ==
  ASSUME TypeOK, Rooted, NEW name, RegularIn(current_inode, name) # {}
  PROVE  /\ files[First(RegularIn(current_inode, name))].inode \in Inodes \ {1}
         /\ First(RegularIn(current_inode, name)) \in RegularIn(current_inode, name)
         /\ inodes[files[First(RegularIn(current_inode, name))].inode].mode # "free"
         /\ name \in Names \ InvalidNames
<1>1. RegularIn(current_inode, name) \subseteq InDir(current_inode, name)
  BY DEF RegularIn
<1>2. current_inode \in Inodes
  BY DEF TypeOK
<1> DEFINE k == First(RegularIn(current_inode, name))
<1>3. /\ k \in RegularIn(current_inode, name) /\ k \in Live /\ k \in Slots
      /\ files[k].inode \in Inodes /\ files[k].name = name
  BY <1>1, <1>2, FirstHit
<1> HIDE DEF k
<1>4. files[k].type = FILE_REGULAR
  BY <1>3 DEF RegularIn
<1>5. files[k].inode # 1
  BY <1>3, <1>4 DEF Rooted, FILE_REGULAR, FILE_DIR
<1>6. inodes[files[k].inode].mode # "free"
  BY <1>3, <1>4 DEF Rooted, SlotsMatchInodes, FILE_REGULAR
<1> QED
  BY <1>3, <1>5, <1>6 DEF Rooted, k

\* echo > and echo >>.
LEMMA EchoStep ==
  ASSUME ShellInv, mode # "boot", NEW name \in Names, NEW data \in Data,
         NEW size \in TextSizes,
         \/ execute_redirect_output(name, data, size)
         \/ execute_append_output(name, data, size)
  PROVE  ShellInv'
<1> TypeOK /\ Rooted
  BY DEF ShellInv
<1>0. size \in Sizes /\ size <= LongestFile
  <2>1. 0 \in 0..(MAX_FILE_SIZE - 1)
    BY ShellAssumption
  <2> QED
    BY <2>1, TextSize
<1> DEFINE hits == RegularIn(current_inode, name)
           n    == files[First(hits)].inode
<1>1. UNCHANGED <<boot, stack, tty_vars, tree_cut>>
  BY DEF execute_redirect_output, execute_append_output
<1>2. CASE CreateAndFill(name, data, size)
  BY <1>0, <1>1, <1>2, CreateAndFillStep
<1>3. CASE hits # {} /\ fs_write_file(n, data, size) /\ Done
  <2>1. n \in Inodes /\ n # 1 /\ inodes[n].mode # "free"
    BY <1>3, RegularHit
  <2> HIDE DEF n
  <2> QED
    BY <1>0, <1>1, <1>3, <2>1, WriteDone DEF Done
<1>4. CASE hits # {} /\ AppendTo(n, data, size)
  <2>1. n \in Inodes /\ n # 1 /\ inodes[n].mode # "free"
    BY <1>4, RegularHit
  <2> HIDE DEF n
  <2> QED
    BY <1>1, <1>4, <2>1, AppendToStep
<1> QED
  BY <1>2, <1>3, <1>4 DEF execute_redirect_output, execute_append_output

\* What a redirected cat looks for has a name that no file can have.
LEMMA CatFindsNothing ==
  ASSUME TypeOK, Rooted, NEW name, NEW data, NEW append,
         execute_cat_redirect(name, data, append)
  PROVE  UNCHANGED fs_vars /\ Done
<1> DEFINE op == IF append THEN ">>" ELSE ">"
<1>1. op \notin Names \ InvalidNames
  BY OperatorAssumption
<1>2. RegularIn(current_inode, op) = {}
  <2> HIDE DEF op
  <2> QED
    BY <1>1, RegularHit
<1> QED
  BY <1>2 DEF execute_cat_redirect

\* So cat > and cat >> write nothing.
LEMMA CatStep ==
  ASSUME ShellInv, mode # "boot", NEW name, NEW data, NEW append,
         execute_cat_redirect(name, data, append)
  PROVE  ShellInv'
<1> TypeOK /\ Rooted /\ Control
  BY DEF ShellInv
<1>1. UNCHANGED <<boot, stack, tty_vars, tree_cut>>
  BY DEF execute_cat_redirect
<1>2. UNCHANGED fs_vars /\ Done
  BY CatFindsNothing
<1>3. Calling
  BY <1>2 DEF Calling
<1>4. TypeOK'
  BY <1>3, CallStep
<1>5. Control' /\ mode' \notin {"boot", "fill"}
  BY <1>1, <1>2, <1>4, DoneControl DEF Done
<1> QED
  BY <1>3, <1>5, AfterCall

\* The file just created is written.
LEMMA FillStep ==
  ASSUME ShellInv, mode # "boot", FillNewFile
  PROVE  ShellInv'
<1> TypeOK /\ Rooted /\ Control
  BY DEF ShellInv
<1>1. file_count \in Live
  BY TableSizes DEF Rooted, SlotsMatchInodes, Live, TypeOK
<1>2. files[file_count].inode \in Inodes /\ files[file_count].type = FILE_REGULAR
  BY <1>1 DEF Rooted, SlotsMatchInodes, ShellInv, FillNewFile
<1>3. /\ files[file_count].inode # 1
      /\ inodes[files[file_count].inode].mode # "free"
  BY <1>1, <1>2, LiveInSlots DEF Rooted, SlotsMatchInodes, FILE_DIR, FILE_REGULAR
<1>4. pending \in [data : Data, size : Sizes] /\ pending.size <= LongestFile
  BY DEF FillNewFile, Control
<1>5. pending.data \in Data /\ pending.size \in Sizes
  BY <1>4
<1>6. PICK n \in Inodes, data \in Data, size \in Sizes :
        /\ n # 1 /\ inodes[n].mode # "free" /\ size <= LongestFile
        /\ fs_write_file(n, data, size)
  BY <1>2, <1>3, <1>4, <1>5 DEF FillNewFile
<1> QED
  BY <1>6, WriteDone DEF FillNewFile

-----------------------------------------------------------------------------
(* rm                                                                      *)

FrameType == [i : Slots, dir : Inodes, j : Slots]

\* A stack that Control allows.
StackOK(S) == /\ S \in Seq(FrameType) /\ Len(S) <= MaxFrames
              /\ \A d \in 1..Len(S) : Frame(S[d])

\* Putting a call on the stack.
LEMMA PushStack ==
  ASSUME NEW S, StackOK(S), NEW f \in FrameType, Frame(f), Len(S) < MaxFrames
  PROVE  StackOK(Append(S, f)) /\ Append(S, f) # << >>
<1>1. S \in Seq(FrameType) /\ Len(S) \in Nat /\ MaxFrames \in Nat
  BY ShellAssumption DEF StackOK
<1> HIDE DEF FrameType
<1>2. /\ Append(S, f) \in Seq(FrameType) /\ Len(Append(S, f)) = Len(S) + 1
      /\ \A d \in 1..Len(S) : Append(S, f)[d] = S[d]
      /\ Append(S, f)[Len(S) + 1] = f
  BY <1>1, AppendProperties
<1>3. ASSUME NEW d \in 1..(Len(S) + 1) PROVE Frame(Append(S, f)[d])
  <2>1. CASE d = Len(S) + 1
    BY <1>2, <2>1
  <2>2. CASE d # Len(S) + 1
    <3>1. d \in 1..Len(S)
      BY <1>1, <2>2
    <3> QED
      BY <1>2, <3>1 DEF StackOK
  <2> QED
    BY <2>1, <2>2
<1>4. Append(S, f) # << >>
  BY <1>1, <1>2, EmptySeq
<1>5. Len(Append(S, f)) <= MaxFrames
  BY <1>1, <1>2
<1> QED
  BY <1>2, <1>3, <1>4, <1>5 DEF StackOK

\* Taking the last call off leaves the calls below it, with room for one.
LEMMA PopStack ==
  ASSUME NEW S, StackOK(S), S # << >>
  PROVE  /\ Len(S) \in Nat \ {0} /\ S[Len(S)] \in FrameType /\ Frame(S[Len(S)])
         /\ StackOK(SubSeq(S, 1, Len(S) - 1))
         /\ Len(SubSeq(S, 1, Len(S) - 1)) < MaxFrames
<1> HIDE DEF FrameType
<1>1. S \in Seq(FrameType) /\ Len(S) \in Nat \ {0} /\ MaxFrames \in Nat
      /\ Len(S) <= MaxFrames
  BY EmptySeq, ShellAssumption DEF StackOK
<1>2. \A d \in 1..(Len(S) - 1) : S[d] \in FrameType /\ Frame(S[d])
  BY <1>1 DEF StackOK
<1>3. S[Len(S)] \in FrameType /\ Frame(S[Len(S)])
  BY <1>1 DEF StackOK
<1> DEFINE P == SubSeq(S, 1, Len(S) - 1)
<1>4. /\ P \in Seq(FrameType)
      /\ Len(P) = IF 1 <= Len(S) - 1 THEN (Len(S) - 1) - 1 + 1 ELSE 0
      /\ \A d \in 1..((Len(S) - 1) - 1 + 1) : P[d] = S[1 + d - 1]
  <2>1. 1 \in Int /\ Len(S) - 1 \in Int
    BY <1>1
  <2> QED
    BY <1>1, <1>2, <2>1, SubSeqProperties
<1> DEFINE n == Len(S)
<1> HIDE DEF P, n
<1>5. Len(P) = n - 1
  <2>1. n \in Nat \ {0} /\ Len(P) = IF 1 <= n - 1 THEN (n - 1) - 1 + 1 ELSE 0
    BY <1>1, <1>4 DEF n
  <2> QED
    BY <2>1
<1>6. \A d \in 1..Len(P) : P[d] = S[d]
  <2>1. n \in Nat /\ \A d \in 1..((n - 1) - 1 + 1) : P[d] = S[1 + d - 1]
    BY <1>1, <1>4 DEF n
  <2> QED
    BY <1>5, <2>1
<1> USE DEF n
<1>7. StackOK(P) /\ Len(P) < MaxFrames
  BY <1>1, <1>2, <1>4, <1>5, <1>6 DEF StackOK
<1> QED
  BY <1>1, <1>3, <1>7 DEF P

\* What EnterRm does, whatever the caller does next.
Entered(S) ==
  \/ UNCHANGED fs_vars /\ stack' = S
  \/ \E i \in Live :
       /\ files[i].type = FILE_DIR /\ Len(S) < MaxFrames /\ mode' = "rm"
       /\ files[i].parent_inode = current_inode
       /\ UNCHANGED <<fs_vars, walk_vars>>
       /\ stack' = Append(S, [i |-> i, dir |-> files[i].inode, j |-> 1])
  \/ \E i \in Live : /\ files[i].type # FILE_DIR
                     /\ files[i].parent_inode = current_inode
                     /\ fs_delete_file(files[i].inode) /\ stack' = S

\* It calls as it should and leaves a stack that is allowed.
LEMMA EnteredStep ==
  ASSUME TypeOK, Rooted, NEW S, StackOK(S), Entered(S)
  PROVE  Calling /\ StackOK(stack')
<1>1. CASE UNCHANGED fs_vars /\ stack' = S
  BY <1>1 DEF Calling
<1>2. ASSUME NEW i \in Live, files[i].type = FILE_DIR, Len(S) < MaxFrames,
             UNCHANGED fs_vars,
             stack' = Append(S, [i |-> i, dir |-> files[i].inode, j |-> 1])
      PROVE  Calling /\ StackOK(stack')
  <2> DEFINE f == [i |-> i, dir |-> files[i].inode, j |-> 1]
  <2>1. f \in FrameType
    <3>1. i \in Slots /\ 1 \in Slots /\ files[i].inode \in Inodes
      BY LiveInSlots, TableSizes DEF Rooted, SlotsMatchInodes, TypeOK, Slots
    <3> QED
      BY <3>1 DEF FrameType
  <2>2. Frame(f)
    <3>1. i > InitFileCount /\ 1 <= InitFileCount + 1
      BY TableSizes DEF Live, TypeOK
    <3>2. i = InitFileCount + 1 => files[i].inode = 1
      BY DEF Rooted
    <3> QED
      BY <3>1, <3>2 DEF Frame
  <2> HIDE DEF f
  <2>3. StackOK(Append(S, f))
    BY <1>2, <2>1, <2>2, PushStack
  <2> QED
    BY <1>2, <2>3 DEF Calling, f
<1>3. ASSUME NEW i \in Live, files[i].type # FILE_DIR,
             fs_delete_file(files[i].inode), stack' = S
      PROVE  Calling /\ StackOK(stack')
  <2>1. files[i].inode \in Inodes /\ files[i].inode # 1
    BY <1>3, LiveInSlots DEF Rooted, SlotsMatchInodes
  <2> QED
    BY <1>3, <2>1 DEF Calling
<1> QED
  BY <1>1, <1>2, <1>3 DEF Entered, fs_vars

\* The call that the user makes.
LEMMA RmStep ==
  ASSUME ShellInv, mode # "boot", NEW name, NEW recursive, execute_rm(name, recursive)
  PROVE  ShellInv'
<1> TypeOK /\ Rooted /\ Control
  BY DEF ShellInv
<1> DEFINE hits == InDir(current_inode, name)
           i    == First(hits)
<1>0. current_inode \in Inodes
  BY DEF TypeOK
<1>1. hits # {} => /\ i \in Live /\ files[i].parent_inode = current_inode
  BY <1>0, FirstHit
<1>2. StackOK(<< >>)
  BY ShellAssumption DEF StackOK
<1>3. /\ Entered(<< >>)
      /\ mode' = "rm" => stack' # << >>
      /\ mode' \in {"rm", "overrun", "prompt"}
      /\ UNCHANGED walk_vars \/ (walk' = current_inode' /\ path' = << >>)
      /\ mode' = "prompt" => StartWalk("prompt")
  <2>1. EnterRm(name, recursive, << >>, StartWalk("prompt"))
    BY DEF execute_rm
  <2>2. CASE hits = {} \/ RefusesDirectory(i, recursive)
    BY <2>1, <2>2 DEF EnterRm, Entered, StartWalk
  <2>3. CASE ~(hits = {} \/ RefusesDirectory(i, recursive)) /\ files[i].type = FILE_DIR
    <3>1. recursive
      BY <2>3 DEF RefusesDirectory
    <3>2. /\ UNCHANGED <<fs_vars, walk_vars>>
          /\ \/ /\ Len(<< >>) < MaxFrames /\ mode' = "rm"
                /\ stack' = Append(<< >>, [i |-> i, dir |-> files[i].inode, j |-> 1])
             \/ mode' = "overrun" /\ stack' = << >>
      BY <2>1, <2>3, <3>1 DEF EnterRm
    <3>3. Append(<< >>, [i |-> i, dir |-> files[i].inode, j |-> 1]) # << >>
      OBVIOUS
    <3> HIDE DEF hits, i
    <3> QED
      BY <1>1, <2>3, <3>2, <3>3 DEF Entered
  <2>4. CASE ~(hits = {} \/ RefusesDirectory(i, recursive)) /\ files[i].type # FILE_DIR
    <3>1. fs_delete_file(files[i].inode) /\ stack' = << >> /\ StartWalk("prompt")
      BY <2>1, <2>4 DEF EnterRm
    <3> HIDE DEF hits, i
    <3> QED
      BY <1>1, <2>4, <3>1 DEF Entered, StartWalk
  <2> QED
    BY <2>2, <2>3, <2>4
<1>4. Calling /\ StackOK(stack')
  BY <1>2, <1>3, EnteredStep
<1>5. TypeOK'
  BY <1>4, CallStep
<1>6. current_inode' \in Inodes /\ << >> \in Seq(Names)
  BY <1>5 DEF TypeOK
<1>7. UNCHANGED <<boot, pending, tty_vars, tree_cut>>
  BY DEF execute_rm
<1>8. Control'
  BY <1>3, <1>4, <1>6, <1>7 DEF Control, StackOK, FrameType, walk_vars, tty_vars
<1> QED
  BY <1>3, <1>4, <1>8, AfterCall

\* A pass of the loop, or the deletion after it.
LEMMA RmLoopStep ==
  ASSUME ShellInv, mode # "boot", RmLoop
  PROVE  ShellInv'
<1> TypeOK /\ Rooted /\ Control
  BY DEF ShellInv
<1> DEFINE top      == stack[Len(stack)]
           outer    == SubSeq(stack, 1, Len(stack) - 1)
           children == EntriesFrom(top.j, top.dir)
           first    == First(children)
           S        == Append(outer, [top EXCEPT !.j = first])
<1>0. mode = "rm" /\ stack # << >> /\ StackOK(stack)
  BY DEF RmLoop, Control, StackOK, FrameType
<1>1. /\ Len(stack) \in Nat \ {0} /\ top \in FrameType /\ Frame(top)
      /\ StackOK(outer) /\ Len(outer) < MaxFrames
  BY <1>0, PopStack
<1>2. /\ top.i \in Slots /\ top.dir \in Inodes /\ top.j \in Slots
      /\ top.i = InitFileCount + 1 => top.dir = 1 /\ top.j <= InitFileCount + 1
      /\ top.i > InitFileCount
  BY <1>1 DEF FrameType, Frame
<1>3. top.i = InitFileCount + 1 => InitFileCount + 1 \in children
  <2>1. InitFileCount + 1 \in 1..file_count /\ InitFileCount + 1 \in Nat /\ file_count \in Nat
    BY RootSlot, LiveInSlots DEF TypeOK
  <2>2. top.j \in Nat
    BY <1>2 DEF Slots
  <2> HIDE DEF top
  <2>3. top.i = InitFileCount + 1 => InitFileCount + 1 \in top.j..file_count
    BY <1>2, <2>1, <2>2
  <2> QED
    BY <1>2, <2>3 DEF EntriesFrom, Rooted
<1>4. UNCHANGED <<boot, pending, tty_vars>> /\ tree_cut' \in BOOLEAN
  BY DEF RmLoop
<1>5. ASSUME Calling, StackOK(stack'), mode' = "rm" => stack' # << >>,
             \/ mode' \in {"rm", "overrun"} /\ UNCHANGED walk_vars
             \/ StartWalk("prompt")
      PROVE  ShellInv'
  <2>1. TypeOK'
    BY <1>5, CallStep
  <2>2. current_inode' \in Inodes /\ << >> \in Seq(Names)
    BY <2>1 DEF TypeOK
  <2>3. mode' \in {"rm", "overrun", "prompt"}
        /\ (UNCHANGED walk_vars \/ (walk' = current_inode' /\ path' = << >>))
    BY <1>5 DEF StartWalk
  <2>4. Control'
    BY <1>4, <1>5, <2>2, <2>3 DEF Control, StackOK, FrameType, walk_vars, tty_vars
  <2> QED
    BY <1>5, <2>3, <2>4, AfterCall
<1>6. CASE children # {}
  <2>1. first \in children /\ \A k \in children : first <= k
    <3>1. children \subseteq Nat
      BY <1>2 DEF EntriesFrom, Slots
    <3> QED
      BY <1>6, <3>1, FirstIs
  <2>2. first \in Slots /\ first \in 1..file_count /\ files[first].parent_inode = top.dir
    <3>1. first \in top.j..file_count /\ top.j \in 1..MAX_FILES /\ file_count \in 0..MAX_FILES
          /\ files[first].parent_inode = top.dir /\ MAX_FILES \in Nat
      BY <1>2, <2>1, TableSizes DEF EntriesFrom, Slots, TypeOK
    <3> HIDE DEF first
    <3> QED
      BY <3>1 DEF Slots
  <2> DEFINE f == [top EXCEPT !.j = first]
  <2>3. f \in FrameType /\ f.i = top.i /\ f.dir = top.dir /\ f.j = first
    <3> HIDE DEF top, first
    <3> QED
      BY <1>1, <2>2 DEF FrameType
  <2>4. Frame(f)
    BY <1>2, <1>3, <2>1, <2>3 DEF Frame
  <2>5. StackOK(S) /\ S # << >>
    <3> HIDE DEF f, outer
    <3>1. StackOK(Append(outer, f)) /\ Append(outer, f) # << >>
      BY <1>1, <2>3, <2>4, PushStack
    <3> QED
      BY <3>1 DEF f
  <2> DEFINE name == files[first].name
             hits == InDir(current_inode, name)
             i    == First(hits)
  <2>6. EnterRm(name, TRUE, S, UNCHANGED <<mode, walk_vars>>)
    BY <1>6 DEF RmLoop
  <2>7. hits # {} => i \in Live /\ files[i].parent_inode = current_inode
    <3>1. current_inode \in Inodes
      BY DEF TypeOK
    <3> QED
      BY <3>1, FirstHit
  <2> HIDE DEF S, name
  <2>8. /\ Entered(S)
        /\ mode' \in {"rm", "overrun"} /\ UNCHANGED walk_vars
        /\ stack' # << >>
    <3>1. CASE hits = {}
      BY <1>0, <2>5, <2>6, <3>1 DEF EnterRm, Entered
    <3>2. CASE hits # {} /\ files[i].type = FILE_DIR
      <4>1. ~RefusesDirectory(i, TRUE)
        BY DEF RefusesDirectory
      <4>2. /\ UNCHANGED <<fs_vars, walk_vars>>
            /\ \/ /\ Len(S) < MaxFrames /\ mode' = "rm"
                  /\ stack' = Append(S, [i |-> i, dir |-> files[i].inode, j |-> 1])
               \/ mode' = "overrun" /\ stack' = S
        BY <2>6, <3>2, <4>1 DEF EnterRm
      <4> HIDE DEF hits, i
      <4>3. Append(S, [i |-> i, dir |-> files[i].inode, j |-> 1]) # << >>
        <5>1. S \in Seq(FrameType)
          BY <2>5 DEF StackOK
        <5>2. [i |-> i, dir |-> files[i].inode, j |-> 1] \in FrameType
          <6>1. i \in Slots /\ 1 \in Slots /\ files[i].inode \in Inodes
            BY <2>7, <3>2, LiveInSlots, TableSizes
               DEF Rooted, SlotsMatchInodes, TypeOK, Slots
          <6> QED
            BY <6>1 DEF FrameType
        <5> QED
          BY <5>1, <5>2, AppendProperties
      <4> QED
        BY <2>5, <2>7, <3>2, <4>2, <4>3 DEF Entered
    <3>3. CASE hits # {} /\ files[i].type # FILE_DIR
      <4>1. ~RefusesDirectory(i, TRUE)
        BY DEF RefusesDirectory
      <4>2. /\ fs_delete_file(files[i].inode) /\ stack' = S
            /\ UNCHANGED <<mode, walk_vars>>
        BY <2>6, <3>3, <4>1 DEF EnterRm
      <4> HIDE DEF hits, i
      <4> QED
        BY <1>0, <2>5, <2>7, <3>3, <4>2 DEF Entered
    <3> QED
      BY <3>1, <3>2, <3>3
  <2>9. Calling /\ StackOK(stack')
    BY <2>5, <2>8, EnteredStep
  <2> QED
    BY <1>5, <2>8, <2>9
<1>7. CASE children = {}
  <2>1. /\ fs_delete_file(files[top.i].inode) /\ stack' = outer
        /\ IF outer = << >> THEN StartWalk("prompt") ELSE UNCHANGED <<mode, walk_vars>>
    BY <1>7 DEF RmLoop
  <2>2. files[top.i].inode \in ({0} \cup Inodes) \ {1}
    <3>1. files[top.i].inode # 1
      BY <1>2, <1>3, <1>7 DEF Rooted
    <3>2. files[top.i].inode \in 0..MAX_INODES
      BY <1>2, FileType
    <3> QED
      BY <3>1, <3>2, TableSizes DEF Inodes
  <2>3. Calling
    BY <2>1, <2>2 DEF Calling
  <2> HIDE DEF outer, top, children
  <2>4. /\ mode' = "rm" => stack' # << >>
        /\ \/ mode' \in {"rm", "overrun"} /\ UNCHANGED walk_vars
           \/ StartWalk("prompt")
    BY <1>0, <2>1 DEF StartWalk
  <2>5. StackOK(stack')
    BY <1>1, <2>1
  <2> QED
    BY <1>5, <2>3, <2>4, <2>5
<1> QED
  BY <1>6, <1>7

-----------------------------------------------------------------------------
(* Boot, logins and terminals                                              *)

\* Before the first call the tables have no rows.
LEMMA ShellInitInv == ShellInit => ShellInv
<1> SUFFICES ASSUME ShellInit PROVE ShellInv
  OBVIOUS
<1>1. PowerOn /\ boot = 1 /\ mode = "boot" /\ 1 \in Inodes
  BY BootSizes DEF ShellInit, Inodes
<1>2. Booted(0)
  <2>1. \A n \in Inodes : ~(n <= 0)
    BY DEF Inodes
  <2>2. (InitFileCount + 1)..(InitFileCount + 0) = {}
    BY BootSizes
  <2>3. /\ InitFileCount + 0 = InitFileCount /\ MAX_INODES - 0 = MAX_INODES
    BY BootSizes
  <2> QED
    BY <1>1, <2>1, <2>2, <2>3 DEF PowerOn, Booted
<1>3. TypeOK
  <2>1. EmptyEntry \in File
    BY TableSizes DEF EmptyEntry, File, Types
  <2>2. EmptyInode \in Inode
    BY TableSizes DEF EmptyInode, Inode, Blocks
  <2>3. NoData \in Block
    BY DEF Block
  <2>4. /\ file_count \in 0..MAX_FILES /\ free_blocks \in Nat /\ free_inodes \in Nat
        /\ current_inode \in Inodes
    BY <1>1, BootSizes, TableSizes DEF PowerOn
  <2> QED
    BY <1>1, <2>1, <2>2, <2>3, <2>4 DEF PowerOn, TypeOK
<1>4. Rows = 0
  BY <1>1, BootSizes DEF Rows
<1>5. Control
  <2>1. << >> \in Seq(Names) /\ << >> \in Seq([i : Slots, dir : Inodes, j : Slots])
    OBVIOUS
  <2>2. /\ Len(stack) = 0 /\ 0 <= MaxFrames /\ 1..Len(stack) = {}
        /\ boot \in 1..(Len(BootCalls) + 1)
    BY <1>1, BootSizes, ShellAssumption DEF ShellInit
  <2>3. current_tty \in Ttys /\ saved \in [Ttys -> Inodes]
    BY <1>1, ShellAssumption DEF ShellInit
  <2> QED
    BY <1>1, <2>1, <2>2, <2>3 DEF ShellInit, Control
<1>6. BootInv
  BY <1>2, <1>4 DEF BootInv, ShellInit
<1> QED
  BY <1>1, <1>3, <1>5, <1>6 DEF ShellInv

\* A call of kernel_main.
LEMMA BootStep ==
  ASSUME ShellInv, kernel_main
  PROVE  ShellInv'
<1> TypeOK /\ Control /\ BootInv
  BY DEF ShellInv
<1> DEFINE call == BootCalls[boot]
<1>1. mode = "boot" /\ mode' = "boot" /\ boot \in 1..Len(BootCalls)
  BY BootSizes DEF kernel_main, Control
<1>2. BootInv' /\ boot' \in 1..(Len(BootCalls) + 1)
  BY KernelMainStep DEF Control
<1>3. call.name \in Names /\ call.type \in Types
  <2> DEFINE C == [name : Names, under : Names \cup {""}, type : Types]
  <2>1. BootCalls \in Seq(C)
    BY BootAssumption
  <2>2. call \in C
    <3> HIDE DEF C
    <3> QED
      BY <1>1, <2>1
  <2> QED
    BY <2>2
<1>4. TypeOK'
  <2>1. CASE BootParent(call) = 0
    BY <2>1 DEF kernel_main, fs_vars, tables, TypeOK
  <2>2. CASE BootParent(call) # 0
    <3>1. fs_create_file(call.name, BootParent(call), call.type)
      BY <2>2 DEF kernel_main
    <3>2. Rows \in 0..BootSize /\ Booted(Rows)
      BY <1>1, BootSizes DEF Rows, BootInv
    <3>3. BootParent(call) \in Inodes
      BY <2>2, <3>2, BootParentType
    <3>4. PICK name \in Names, parent \in Inodes, type \in Types :
            fs_create_file(name, parent, type)
      BY <1>3, <3>1, <3>3
    <3> QED
      BY <3>4, CreateType
  <2> QED
    BY <2>1, <2>2
<1>5. Control'
  BY <1>1, <1>2 DEF kernel_main, Control, walk_vars, tty_vars, Frame
<1> QED
  BY <1>1, <1>2, <1>4, <1>5 DEF ShellInv

\* The boot writes no block.
LEMMA InitStored == Init => Stored
<1> SUFFICES ASSUME Init PROVE Stored
  OBVIOUS
<1>1. \A n \in Inodes : inodes[n].blocks = 0
  BY DEF Init, NewInode, EmptyInode
<1>2. 1 \in Inodes /\ MostBlocks \in Nat /\ ~write_failed
  BY BootSizes, LongestIs DEF Inodes, Init
<1> QED
  BY <1>1, <1>2, InitStorage, InitCount DEF Stored

\* The end of kernel_main: what it may write is an entry of a directory.
LEMMA FetchWritten ==
  ASSUME TypeOK, BootInv, Rooted, FirstLogin
  PROVE  UNCHANGED fs_vars \/ WriteCall
<1>1. mode = "boot" /\ boot = Len(BootCalls) + 1
  BY DEF FirstLogin
<1>2. PICK data \in Data, size \in TextSizes : WriteFetch(data, size)
  BY DEF FirstLogin
<1> DEFINE call == [name |-> "fetch", under |-> "bin", type |-> FILE_REGULAR]
           bin  == BootParent(call)
           hits == InDir(bin, "fetch")
<1>3. CASE bin = 0 \/ hits = {}
  BY <1>2, <1>3 DEF WriteFetch
<1>4. CASE bin # 0 /\ hits # {}
  <2>1. Rows = BootSize /\ BootSize \in 0..BootSize
    BY <1>1, BootSizes DEF Rows
  <2>2. Booted(BootSize)
    BY <1>1, <2>1 DEF BootInv
  <2>3. bin \in Inodes
    <3> HIDE DEF call
    <3> QED
      BY <1>4, <2>1, <2>2, BootParentType
  <2>4. fs_write_file(files[First(hits)].inode, data, size)
    BY <1>2, <1>4 DEF WriteFetch
  <2>5. \E k \in Slots : files[k].inode = bin /\ files[k].name = "bin"
    <3> DEFINE bins == {k \in 1..file_count : files[k].name = "bin"}
    <3>1. call.under = "bin"
      OBVIOUS
    <3>2. bins # {} /\ bin = files[First(bins)].inode /\ bins \subseteq Nat
      BY <1>4, <3>1 DEF BootParent
    <3>3. First(bins) \in bins
      BY <3>2, FirstIs
    <3>4. First(bins) \in Slots
      BY <3>3, TableSizes DEF TypeOK, Slots
    <3> QED
      BY <3>2, <3>3, <3>4
  <2> HIDE DEF bin
  <2> DEFINE k == First(hits)
  <2>6. /\ files[k].inode \in Inodes /\ k \in Live /\ k \in Slots
        /\ files[k].parent_inode = bin /\ files[k].name = "fetch"
    BY <1>4, <2>3, FirstHit
  <2> HIDE DEF k
  <2>7. files[k].inode # 1
    BY <2>5, <2>6 DEF Rooted
  <2>8. inodes[files[k].inode].mode # "free"
    BY <2>6, FileType DEF Rooted, SlotsMatchInodes, Types, FILE_REGULAR, FILE_DIR
  <2>9. size \in Sizes /\ size <= LongestFile
    <3>1. 0 \in 0..(MAX_FILE_SIZE - 1)
      BY ShellAssumption
    <3> QED
      BY <3>1, TextSize
  <2> QED
    BY <2>4, <2>6, <2>7, <2>8, <2>9 DEF WriteCall, k
<1> QED
  BY <1>3, <1>4

\* After it the first login prompt is shown.
LEMMA FirstLoginStep ==
  ASSUME ShellInv, FirstLogin
  PROVE  ShellInv'
<1> TypeOK /\ Control /\ BootInv
  BY DEF ShellInv
<1>1. mode = "boot" /\ mode' = "login" /\ boot = Len(BootCalls) + 1
  BY DEF FirstLogin
<1>2. Rooted /\ Stored
  BY <1>1, BootEnds, InitRooted, InitStored
<1>3. Calling
  BY <1>2, FetchWritten DEF Calling
<1>4. TypeOK' /\ Rooted' /\ Stored'
  BY <1>2, <1>3, CallStep, CallStored
<1>5. Control'
  BY <1>1 DEF FirstLogin, Control, walk_vars, tty_vars, Frame
<1> QED
  BY <1>1, <1>4, <1>5 DEF ShellInv, BootInv

\* Logins, exits, commands that only show something, and those that wait.
LEMMA LoginStep ==
  ASSUME ShellInv, mode # "boot",
         Login \/ Welcome \/ execute_exit \/ execute_pause \/ OtherCommand
  PROVE  ShellInv'
<1> TypeOK /\ Control
  BY DEF ShellInv
<1>1. /\ UNCHANGED <<fs_vars, boot, stack, pending, current_tty, saved, tree_cut>>
      /\ Calling
  BY DEF Login, Welcome, execute_exit, execute_pause, OtherCommand, Done, Calling, tty_vars
<1>2. logged_in' \in SUBSET Ttys
  BY DEF Login, Welcome, execute_exit, execute_pause, OtherCommand, tty_vars, Control
<1>3. /\ mode' \in {"login", "prompt", "key"}
      /\ UNCHANGED walk_vars \/ (walk' = current_inode' /\ path' = << >>)
  BY DEF Login, Welcome, execute_exit, execute_pause, OtherCommand, Done, StartWalk, Typed
<1>4. current_inode' \in Inodes /\ << >> \in Seq(Names)
  BY <1>1 DEF TypeOK, fs_vars
<1>5. Control'
  BY <1>1, <1>2, <1>3, <1>4 DEF Control, walk_vars, Frame
<1> QED
  BY <1>1, <1>3, <1>5, AfterCall

\* A switch leads to the directory that the terminal was left in.
LEMMA SwitchStep ==
  ASSUME ShellInv, mode # "boot", NEW t \in Ttys, switch_tty(t)
  PROVE  ShellInv'
<1> TypeOK /\ Control
  BY DEF ShellInv
<1>1. /\ UNCHANGED <<tables, ret, write_failed, boot, walk_vars, stack, pending,
                     logged_in, tree_cut>>
      /\ current_tty' = t /\ mode' \in {"login", "read", "key"}
      /\ saved' = [saved EXCEPT ![current_tty] = current_inode]
      /\ current_inode' = saved'[t]
  BY DEF switch_tty
<1>2. saved' \in [Ttys -> Inodes] /\ current_inode' \in Inodes
  BY <1>1 DEF TypeOK, Control
<1>3. Calling
  BY <1>1, <1>2 DEF Calling
<1>4. Control'
  BY <1>1, <1>2 DEF Control, walk_vars, Frame
<1> QED
  BY <1>1, <1>3, <1>4, AfterCall

\* Every step of the shell keeps the invariant.
LEMMA ShellStep ==
  ASSUME ShellInv, [ShellNext]_shell_vars
  PROVE  ShellInv'
<1>1. CASE kernel_main \/ FirstLogin
  BY <1>1, BootStep, FirstLoginStep
<1>2. CASE UNCHANGED shell_vars
  BY <1>2 DEF shell_vars, fs_vars, tables, walk_vars, tty_vars, ShellInv, TypeOK, Control,
     Frame, BootInv, Booted, Rows, Rooted, SlotsMatchInodes, NamesUnique, Live, Stored,
     Storage, LeakOnlyBlockZero, SoundUntilFailure, NoSharedBlocks, Lists, BlockAccounting
<1>3. CASE ~kernel_main /\ ~FirstLogin /\ ShellNext
  <2>1. mode # "boot"
    BY <1>3 DEF ShellNext, print_prompt, execute_pwd, execute_cd, execute_mkfile,
       execute_mkdir, MakeEntry, execute_redirect_output, execute_append_output,
       execute_cat_redirect, FillNewFile, OtherCommand, execute_rm, RmLoop, Login,
       Welcome, execute_exit, execute_pause, switch_tty, Typed
  <2>2. ASSUME NEW name \in Names, execute_mkfile(name) \/ execute_mkdir(name)
        PROVE  ShellInv'
    BY <2>1, <2>2, MakeStep DEF execute_mkfile, execute_mkdir, Types
  <2> QED
    BY <1>3, <2>1, <2>2, WalkStep, CdStep, EchoStep, CatStep, FillStep, RmStep, RmLoopStep,
       LoginStep, SwitchStep
       DEF ShellNext
<1> QED
  BY <1>1, <1>2, <1>3

\* The invariant holds in every state the shell reaches.
THEOREM ShellCorrect == ShellSpec => []ShellInv
  BY ShellInitInv, ShellStep, PTL DEF ShellSpec

\* Every value the shell keeps has the type it should have: slots and inode
\* numbers stay within their tables, and calls of execute_rm within the stack.
THEOREM ShellTypeCorrect == ShellSpec => []ShellTypeOK
<1>1. ShellInv => ShellTypeOK
  BY DEF ShellInv, Control, ShellTypeOK
<1> QED
  BY <1>1, ShellCorrect, PTL

\* Whatever boot sequence makes the table BkFS starts from, it ends in it.
THEOREM BootCorrect == ShellSpec => []BootEndsInInit
<1>1. ShellInv => BootEndsInInit
  BY BootEnds DEF ShellInv, BootEndsInInit
<1> QED
  BY <1>1, ShellCorrect, PTL

\* Whatever the commands do, on however many terminals, and whatever rm -rf
\* takes away from under them: the root stays in its place, entries and inodes
\* correspond, and names are unique.
THEOREM TablesCorrect == ShellSpec => []TablesSurvive
<1>1. ShellInv => TablesSurvive
  BY DEF ShellInv, Rooted, TablesSurvive
<1> QED
  BY <1>1, ShellCorrect, PTL

-----------------------------------------------------------------------------
(* While no directory in use has been taken away                           *)

Moves == inodes[current_inode'].mode = FILE_DIR /\ UNCHANGED <<tables, ret, write_failed>>

\* What CommandsAreCalls asks of a step,
AsCall == UNCHANGED fs_vars \/ Next \/ Moves

\* and such a step that takes nothing away.
Keeping ==
  \/ UNCHANGED fs_vars
  \/ \E name \in Names, type \in Types : Create(name, type)
  \/ \E n \in Inodes, data \in Data, size \in Sizes : Write(n, data, size)
  \/ Moves

Uncut == mode # "boot" /\ ~tree_cut

\* It keeps the tree, and every directory is still there.
LEMMA KeepingTree ==
  ASSUME TypeOK, Tree, Keeping
  PROVE  /\ Tree'
         /\ \A m \in Inodes : inodes[m].mode = FILE_DIR => inodes'[m].mode = FILE_DIR
<1>1. CASE UNCHANGED fs_vars
  BY <1>1 DEF fs_vars, tables, Tree, EntriesMatchInodes, SlotsMatchInodes, ParentsFirst,
              NamesUnique, Live
<1>2. ASSUME NEW name \in Names, NEW type \in Types, Create(name, type)
      PROVE  /\ Tree'
             /\ \A m \in Inodes : inodes[m].mode = FILE_DIR => inodes'[m].mode = FILE_DIR
  <2>1. Tree'
    BY <1>2, CreateTree
  <2>2. CASE ~CanCreate(name)
    BY <1>2, <2>1, <2>2 DEF Create, fs_create_file, tables
  <2>3. CASE CanCreate(name)
    <3>1. PICK n \in Inodes : /\ inodes[n].mode = "free"
                              /\ inodes' = [inodes EXCEPT ![n] = NewInode(type)]
      BY <1>2, <2>3, CreateSlots DEF Tree, EntriesMatchInodes
    <3> QED
      BY <2>1, <3>1 DEF TypeOK, FILE_DIR
  <2> QED
    BY <2>2, <2>3
<1>3. ASSUME NEW n \in Inodes, NEW data \in Data, NEW size \in Sizes, Write(n, data, size)
      PROVE  /\ Tree'
             /\ \A m \in Inodes : inodes[m].mode = FILE_DIR => inodes'[m].mode = FILE_DIR
  BY <1>3, WriteTree, WriteModes DEF Write
<1>4. CASE Moves
  BY <1>4 DEF Moves, tables, Tree, EntriesMatchInodes, SlotsMatchInodes, ParentsFirst,
              NamesUnique, Live
<1> QED
  BY <1>1, <1>2, <1>3, <1>4 DEF Keeping

\* A step that takes nothing away and leaves the terminals alone.
LEMMA KeepingUncut ==
  ASSUME ShellInv, Uncut, Tree, InUse, Keeping, UNCHANGED <<current_tty, saved>>, Remembered'
  PROVE  AsCall /\ UncutInv'
<1>1. AsCall
  BY DEF AsCall, Keeping, Next
<1>2. /\ Tree'
      /\ \A m \in Inodes : inodes[m].mode = FILE_DIR => inodes'[m].mode = FILE_DIR
  BY KeepingTree DEF ShellInv
<1>3. InUse'
  BY <1>2 DEF InUse, ShellInv, Control
<1> QED
  BY <1>1, <1>2, <1>3 DEF UncutInv

\* The first of some regular files of the working directory can be written.
LEMMA WriteHit ==
  ASSUME TypeOK, Rooted, NEW name, RegularIn(current_inode, name) # {},
         NEW data, NEW size,
         fs_write_file(files[First(RegularIn(current_inode, name))].inode, data, size)
  PROVE  Write(files[First(RegularIn(current_inode, name))].inode, data, size)
<1> DEFINE k == First(RegularIn(current_inode, name))
<1>1. k \in RegularIn(current_inode, name)
  BY RegularHit
<1>2. fs_write_file(files[k].inode, data, size)
  OBVIOUS
<1> HIDE DEF k
<1>3. Write(files[k].inode, data, size)
  BY <1>1, <1>2 DEF RegularIn, InDir, Write
<1> QED
  BY <1>3 DEF k

\* Redirections write a file of the working directory or create one there.
LEMMA RedirectCalls ==
  ASSUME ShellInv, Uncut, Tree, InUse, UNCHANGED <<current_tty, saved>>,
         NEW name \in Names, NEW data \in Data, NEW size \in Sizes,
         CreateAndFill(name, data, size)
  PROVE  AsCall /\ UncutInv'
<1> TypeOK /\ Rooted
  BY DEF ShellInv, Uncut
<1>1. Create(name, FILE_REGULAR) /\ FILE_REGULAR \in Types
  BY DEF CreateAndFill, Create, Types
<1>2. Keeping
  BY <1>1 DEF Keeping
<1>3. CASE CanCreate(name)
  <2>1. mode' = "fill"
    BY <1>3 DEF CreateAndFill
  <2>2. /\ files'[file_count'].type = FILE_REGULAR
        /\ files'[file_count'].parent_inode = current_inode'
    BY <1>3, CreatedLast DEF CreateAndFill
  <2>3. Remembered'
    BY <2>1, <2>2 DEF Remembered
  <2> QED
    BY <1>2, <2>3, KeepingUncut
<1>4. CASE ~CanCreate(name)
  <2>1. Remembered'
    BY <1>4 DEF CreateAndFill, Done, StartWalk, Remembered
  <2> QED
    BY <1>2, <2>1, KeepingUncut
<1> QED
  BY <1>3, <1>4

\* Appending writes the file it is given.
LEMMA AppendCalls ==
  ASSUME ShellInv, Uncut, Tree, InUse, UNCHANGED <<current_tty, saved>>,
         NEW name, RegularIn(current_inode, name) # {}, NEW data \in Data,
         NEW size \in TextSizes,
         AppendTo(files[First(RegularIn(current_inode, name))].inode, data, size)
  PROVE  AsCall /\ UncutInv'
<1> TypeOK /\ Rooted
  BY DEF ShellInv, Uncut
<1> DEFINE n   == files[First(RegularIn(current_inode, name))].inode
           old == fs_read_file(n, MAX_FILE_SIZE - 1)
<1>0. n \in Inodes
  BY RegularHit
<1>1. PICK length \in Lengths(old), sep \in Separators(n, old) :
        \/ fs_write_file(n, data, length + sep + size) /\ Done
        \/ mode' = "overrun" /\ UNCHANGED <<fs_vars, walk_vars, pending>>
  BY DEF AppendTo
<1>2. sep \in {0, 1}
  BY DEF Separators
<1>3. length \in 0..(MAX_FILE_SIZE - 1)
  <2> HIDE DEF n
  <2> QED
    BY <1>0, LengthRead
<1>4. length + sep + size \in Sizes
  BY <1>2, <1>3, TextSize
<1>5. Keeping
  <2>1. CASE UNCHANGED fs_vars
    BY <2>1 DEF Keeping
  <2>2. CASE fs_write_file(n, data, length + sep + size)
    <3>1. Write(n, data, length + sep + size)
      BY <2>2, WriteHit
    <3> HIDE DEF n
    <3> QED
      BY <1>0, <1>4, <3>1 DEF Keeping
  <2> QED
    BY <1>1, <2>1, <2>2
<1>6. Remembered'
  BY <1>1 DEF Done, StartWalk, Remembered
<1> QED
  BY <1>5, <1>6, KeepingUncut

\* A step that only shows, waits or walks.
LEMMA QuietCalls ==
  ASSUME ShellInv, Uncut, Tree, InUse, UNCHANGED <<fs_vars, current_tty, saved>>,
         mode' \notin {"rm", "fill"}
  PROVE  AsCall /\ UncutInv'
<1>1. Keeping /\ Remembered'
  BY DEF Keeping, Remembered
<1> QED
  BY <1>1, KeepingUncut

\* A directory's parent is a directory.
LEMMA ParentIs ==
  ASSUME TypeOK, Rooted, Tree, NEW n \in Inodes, inodes[n].mode = FILE_DIR
  PROVE  inodes[ParentOf(n)].mode = FILE_DIR
<1> DEFINE hits == {k \in 1..file_count : files[k].inode = n}
<1>1. CASE hits = {}
  BY <1>1 DEF ParentOf
<1>2. CASE hits # {}
  <2>1. hits \subseteq Nat
    OBVIOUS
  <2>2. First(hits) \in hits
    BY <1>2, <2>1, FirstIs
  <2>3. n # 0
    BY DEF Inodes
  <2>4. First(hits) \in Live
    BY <2>2, <2>3, LiveSlot DEF Rooted
  <2>5. ASSUME NEW k \in Live PROVE inodes[files[k].parent_inode].mode = FILE_DIR
    <3>1. CASE k = InitFileCount + 1
      BY <3>1 DEF Rooted, Tree, ParentsFirst
    <3>2. CASE k > InitFileCount + 1
      <4>1. PICK l \in Live : /\ files[l].inode = files[k].parent_inode
                              /\ files[l].type = FILE_DIR
        BY <3>2 DEF Tree, ParentsFirst
      <4> QED
        BY <4>1 DEF Rooted, SlotsMatchInodes
    <3> QED
      BY <3>1, <3>2, TableSizes DEF Live, TypeOK
  <2> QED
    BY <1>2, <2>4, <2>5 DEF ParentOf
<1> QED
  BY <1>1, <1>2

\* cd leads to a directory.
LEMMA CdCalls ==
  ASSUME ShellInv, Uncut, Tree, InUse, NEW name, execute_cd(name)
  PROVE  AsCall /\ UncutInv'
<1> TypeOK /\ Rooted
  BY DEF ShellInv, Uncut
<1> DEFINE dirs == {k \in InDir(current_inode, name) : files[k].type = FILE_DIR}
<1>0. /\ current_inode \in Inodes /\ inodes[current_inode].mode = FILE_DIR
      /\ inodes[1].mode = FILE_DIR
  BY DEF TypeOK, Tree, ParentsFirst
<1>1. dirs # {} => inodes[files[First(dirs)].inode].mode = FILE_DIR
  <2> SUFFICES ASSUME dirs # {} PROVE inodes[files[First(dirs)].inode].mode = FILE_DIR
    OBVIOUS
  <2>1. First(dirs) \in dirs /\ First(dirs) \in Live
    BY <1>0, FirstHit
  <2> QED
    BY <2>1 DEF Rooted, SlotsMatchInodes
<1>2. inodes[ParentOf(current_inode)].mode = FILE_DIR
  BY <1>0, ParentIs
<1>3. inodes[current_inode'].mode = FILE_DIR
  <2>1. CASE name = ""
    BY <1>0, <2>1 DEF execute_cd
  <2>2. CASE name = ".." /\ name # ""
    BY <1>2, <2>2 DEF execute_cd
  <2>3. CASE name # "" /\ name # ".."
    BY <1>0, <1>1, <2>3 DEF execute_cd
  <2> QED
    BY <2>1, <2>2, <2>3
<1>4. Keeping /\ Remembered' /\ UNCHANGED <<current_tty, saved>>
  BY <1>3 DEF execute_cd, Keeping, Moves, Remembered, Done, StartWalk, tty_vars
<1> QED
  BY <1>4, KeepingUncut

\* touch and mkdir create in the working directory.
LEMMA MakeCalls ==
  ASSUME ShellInv, Uncut, Tree, InUse, NEW command, NEW name \in Names, NEW type \in Types,
         MakeEntry(command, name, type)
  PROVE  AsCall /\ UncutInv'
<1>1. Keeping /\ Remembered' /\ UNCHANGED <<current_tty, saved>>
  BY DEF MakeEntry, Keeping, Create, Remembered, Done, StartWalk, tty_vars
<1> QED
  BY <1>1, KeepingUncut

\* echo > and echo >>.
LEMMA EchoCalls ==
  ASSUME ShellInv, Uncut, Tree, InUse, NEW name \in Names, NEW data \in Data,
         NEW size \in TextSizes,
         \/ execute_redirect_output(name, data, size)
         \/ execute_append_output(name, data, size)
  PROVE  AsCall /\ UncutInv'
<1> TypeOK /\ Rooted
  BY DEF ShellInv, Uncut
<1>0. size \in Sizes /\ size <= LongestFile
  <2>1. 0 \in 0..(MAX_FILE_SIZE - 1)
    BY ShellAssumption
  <2> QED
    BY <2>1, TextSize
<1> DEFINE hits == RegularIn(current_inode, name)
           n    == files[First(hits)].inode
<1>1. UNCHANGED <<current_tty, saved>>
  BY DEF execute_redirect_output, execute_append_output, tty_vars
<1>2. CASE CreateAndFill(name, data, size)
  BY <1>0, <1>1, <1>2, RedirectCalls
<1>3. CASE hits # {} /\ fs_write_file(n, data, size) /\ Done
  <2>1. n \in Inodes /\ Write(n, data, size)
    BY <1>3, RegularHit, WriteHit
  <2> HIDE DEF n
  <2>2. Keeping /\ Remembered'
    BY <1>0, <1>3, <2>1 DEF Keeping, Remembered, Done, StartWalk
  <2> QED
    BY <1>1, <2>2, KeepingUncut
<1>4. CASE hits # {} /\ AppendTo(n, data, size)
  BY <1>1, <1>4, AppendCalls
<1> QED
  BY <1>2, <1>3, <1>4 DEF execute_redirect_output, execute_append_output

\* cat > and cat >> call nothing.
LEMMA CatCalls ==
  ASSUME ShellInv, Uncut, Tree, InUse, NEW name, NEW data, NEW append,
         execute_cat_redirect(name, data, append)
  PROVE  AsCall /\ UncutInv'
<1>1. UNCHANGED fs_vars /\ Done
  BY CatFindsNothing DEF ShellInv, Uncut
<1>2. UNCHANGED <<fs_vars, current_tty, saved>> /\ mode' \notin {"rm", "fill"}
  BY <1>1 DEF execute_cat_redirect, tty_vars, Done, StartWalk
<1> QED
  BY <1>2, QuietCalls

\* The file just created is a regular file of the working directory.
LEMMA FillCalls ==
  ASSUME ShellInv, Uncut, Tree, InUse, Remembered, FillNewFile
  PROVE  AsCall /\ UncutInv'
<1> TypeOK /\ Rooted /\ Control
  BY DEF ShellInv, Uncut
<1>1. file_count \in Live
  BY TableSizes DEF Rooted, SlotsMatchInodes, Live, TypeOK
<1>2. files[file_count].inode \in Inodes /\ file_count \in 1..file_count
  BY <1>1, LiveInSlots DEF Rooted, SlotsMatchInodes
<1>3. pending \in [data : Data, size : Sizes]
  BY DEF FillNewFile, Control
<1>4. pending.data \in Data /\ pending.size \in Sizes
  BY <1>3
<1>5. Write(files[file_count].inode, pending.data, pending.size)
  BY <1>2 DEF FillNewFile, Write, Remembered
<1>6. Keeping
  BY <1>2, <1>4, <1>5 DEF Keeping
<1>7. Remembered' /\ UNCHANGED <<current_tty, saved>>
  BY DEF FillNewFile, Remembered, StartWalk, tty_vars
<1> QED
  BY <1>6, <1>7, KeepingUncut

\* A removal that takes no terminal's directory away.
LEMMA RemovalUncut ==
  ASSUME ShellInv, Uncut, Tree, InUse, NEW n \in Inodes, Remove(n),
         \A t \in Ttys \ {current_tty} : saved[t] # n,
         UNCHANGED <<current_tty, saved>>, mode' \notin {"rm", "fill"}
  PROVE  AsCall /\ UncutInv'
<1> TypeOK
  BY DEF ShellInv
<1>1. Tree'
  BY RemoveTree
<1>2. \A m \in Inodes : m # n => inodes'[m] = inodes[m]
  BY DEF Remove, fs_delete_file, TypeOK
<1>3. InUse'
  BY <1>2 DEF InUse, ShellInv, Control
<1>4. Remembered'
  BY DEF Remembered
<1> QED
  BY <1>1, <1>3, <1>4 DEF UncutInv, AsCall, Next

\* rm removes a regular file, which is nobody's directory; rm -rf begins.
LEMMA RmCalls ==
  ASSUME ShellInv, Uncut, Tree, InUse, NEW name, NEW recursive, execute_rm(name, recursive)
  PROVE  AsCall /\ UncutInv'
<1> TypeOK /\ Rooted /\ Control
  BY DEF ShellInv, Uncut
<1> DEFINE hits == InDir(current_inode, name)
           i    == First(hits)
           n    == files[i].inode
<1>0. current_inode \in Inodes /\ UNCHANGED <<current_tty, saved>>
  BY DEF TypeOK, execute_rm, tty_vars
<1>1. hits # {} => /\ i \in Live /\ files[i].parent_inode = current_inode
                   /\ n \in Inodes
  BY <1>0, FirstHit
<1>2. EnterRm(name, recursive, << >>, StartWalk("prompt"))
  BY DEF execute_rm
<1>3. CASE hits = {} \/ RefusesDirectory(i, recursive)
  <2>1. UNCHANGED fs_vars /\ mode' \notin {"rm", "fill"}
    BY <1>2, <1>3 DEF EnterRm, StartWalk
  <2> QED
    BY <1>0, <2>1, QuietCalls
<1>4. CASE ~(hits = {} \/ RefusesDirectory(i, recursive)) /\ files[i].type = FILE_DIR
  <2>1. recursive
    BY <1>4 DEF RefusesDirectory
  <2>2. /\ UNCHANGED fs_vars
        /\ \/ /\ mode' = "rm"
              /\ stack' = Append(<< >>, [i |-> i, dir |-> n, j |-> 1])
           \/ mode' = "overrun"
    BY <1>2, <1>4, <2>1 DEF EnterRm
  <2> HIDE DEF hits, i, n
  <2>3. mode' = "rm" => Len(stack') = 1 /\ stack'[1] = [i |-> i, dir |-> n, j |-> 1]
    BY <2>2
  <2>4. Live' = Live /\ files' = files /\ current_inode' = current_inode
    BY <2>2 DEF fs_vars, tables, Live
  <2>5. i \in Live /\ files[i].inode = n /\ files[i].parent_inode = current_inode
    BY <1>1, <1>4 DEF n
  <2>6. Remembered'
    BY <2>2, <2>3, <2>4, <2>5 DEF Remembered
  <2>7. Keeping
    BY <2>2 DEF Keeping
  <2> QED
    BY <1>0, <2>6, <2>7, KeepingUncut
<1>5. CASE ~(hits = {} \/ RefusesDirectory(i, recursive)) /\ files[i].type # FILE_DIR
  <2>1. fs_delete_file(n) /\ mode' \notin {"rm", "fill"}
    BY <1>2, <1>5 DEF EnterRm, StartWalk
  <2> HIDE DEF hits, i
  <2>2. i \in Live /\ files[i].parent_inode = current_inode /\ n \in Inodes
        /\ i \in 1..file_count
    BY <1>1, <1>5, LiveInSlots
  <2>3. inodes[n].mode # FILE_DIR
    BY <1>5, <2>2 DEF Rooted, SlotsMatchInodes
  <2>4. ~HasChild(n)
    <3> SUFFICES ASSUME NEW k \in 1..file_count, files[k].parent_inode = n PROVE FALSE
      BY DEF HasChild
    <3>1. k \in Live
      <4>1. n # 0
        BY <2>2 DEF Inodes
      <4> QED
        BY <4>1, LiveSlot DEF Rooted
    <3>2. CASE k = InitFileCount + 1
      BY <2>3, <3>2 DEF Rooted, Tree, ParentsFirst
    <3>3. CASE k > InitFileCount + 1
      <4>1. PICK l \in Live : files[l].inode = n /\ files[l].type = FILE_DIR
        BY <3>1, <3>3 DEF Tree, ParentsFirst
      <4> QED
        BY <2>3, <4>1 DEF Rooted, SlotsMatchInodes
    <3> QED
      BY <3>1, <3>2, <3>3, TableSizes DEF Live, TypeOK
  <2>5. Remove(n)
    BY <2>1, <2>2, <2>4 DEF Remove
  <2>6. \A t \in Ttys \ {current_tty} : saved[t] # n
    BY <2>3 DEF InUse
  <2> HIDE DEF n
  <2> QED
    BY <1>0, <2>1, <2>2, <2>5, <2>6, RemovalUncut
<1> QED
  BY <1>3, <1>4, <1>5

\* rm -rf deletes an empty directory that nobody is in.
LEMMA RmLoopCalls ==
  ASSUME ShellInv, Uncut, Tree, InUse, Remembered, RmLoop, ~tree_cut'
  PROVE  AsCall /\ UncutInv'
<1> TypeOK /\ Rooted /\ Control
  BY DEF ShellInv, Uncut
<1> DEFINE top   == stack[Len(stack)]
           outer == SubSeq(stack, 1, Len(stack) - 1)
           n     == top.dir
<1>0. /\ Len(stack) = 1 /\ top.j = 1 /\ top.i \in Live
      /\ files[top.i].inode = n
      /\ files[top.i].parent_inode = current_inode
  BY DEF Remembered, RmLoop
<1>1. EntriesFrom(1, n) = {} /\ \A t \in Ttys \ {current_tty} : saved[t] # n
  BY <1>0 DEF RmLoop
<1>2. /\ fs_delete_file(n) /\ stack' = outer
      /\ IF outer = << >> THEN StartWalk("prompt") ELSE UNCHANGED <<mode, walk_vars>>
  BY <1>0, <1>1 DEF RmLoop
<1>3. outer = << >>
  BY <1>0
<1>4. mode' \notin {"rm", "fill"} /\ UNCHANGED <<current_tty, saved>>
  BY <1>2, <1>3 DEF StartWalk, RmLoop, tty_vars
<1>5. n \in Inodes /\ top.i \in 1..file_count
  BY <1>0, LiveInSlots DEF Rooted, SlotsMatchInodes
<1>6. Remove(n)
  BY <1>0, <1>1, <1>2, <1>5 DEF Remove, HasChild, EntriesFrom
<1> HIDE DEF n
<1> QED
  BY <1>1, <1>4, <1>5, <1>6, RemovalUncut

\* A switch leads from a directory to a directory.
LEMMA SwitchCalls ==
  ASSUME ShellInv, Uncut, Tree, InUse, NEW t \in Ttys, switch_tty(t)
  PROVE  AsCall /\ UncutInv'
<1> TypeOK /\ Control
  BY DEF ShellInv
<1>1. /\ UNCHANGED <<tables, ret, write_failed>>
      /\ current_tty' = t /\ mode' \in {"login", "read", "key"}
      /\ saved' = [saved EXCEPT ![current_tty] = current_inode]
      /\ current_inode' = saved'[t]
  BY DEF switch_tty
<1>2. inodes[current_inode].mode = FILE_DIR
  BY DEF Tree, ParentsFirst
<1>3. \A u \in Ttys : inodes[saved'[u]].mode = FILE_DIR
  BY <1>1, <1>2 DEF InUse, Control
<1>4. Moves /\ Keeping
  BY <1>1, <1>3 DEF Moves, Keeping
<1>5. Tree'
  BY <1>4, KeepingTree
<1>6. InUse'
  BY <1>1, <1>3 DEF InUse, tables
<1>7. Remembered'
  BY <1>1 DEF Remembered
<1> QED
  BY <1>4, <1>5, <1>6, <1>7 DEF AsCall, UncutInv

\* The boot leaves every terminal in the root.
LEMMA FirstLoginUncut ==
  ASSUME ShellInv, FirstLogin
  PROVE  UncutInv'
<1> TypeOK /\ Control /\ BootInv
  BY DEF ShellInv
<1>1. mode = "boot" /\ mode' = "login" /\ UNCHANGED <<current_tty, saved>>
  BY DEF FirstLogin, tty_vars
<1>2. Tree /\ Rooted
  BY BootEnds, InitTree, InitRooted DEF FirstLogin
<1>3. /\ Tree'
      /\ \A m \in Inodes : inodes'[m].mode = inodes[m].mode
  <2>1. CASE UNCHANGED fs_vars
    BY <1>2, <2>1 DEF fs_vars, tables, Tree, EntriesMatchInodes, SlotsMatchInodes,
                      ParentsFirst, NamesUnique, Live
  <2>2. ASSUME NEW n \in {0} \cup Inodes, NEW data \in Data, NEW size \in Sizes,
               fs_write_file(n, data, size)
        PROVE  /\ Tree'
               /\ \A m \in Inodes : inodes'[m].mode = inodes[m].mode
    BY <1>2, <2>2, WriteTree, WriteModes
  <2>3. UNCHANGED fs_vars \/ WriteCall
    BY <1>2, FetchWritten
  <2> QED
    BY <2>1, <2>2, <2>3 DEF WriteCall
<1>4. saved = [t \in Ttys |-> 1] /\ inodes[1].mode = FILE_DIR /\ 1 \in Inodes
  BY <1>1, <1>2, RootSlot DEF BootInv, Tree, ParentsFirst
<1>5. InUse' /\ Remembered'
  BY <1>1, <1>3, <1>4 DEF InUse, Remembered
<1> QED
  BY <1>3, <1>5 DEF UncutInv

\* What every step keeps, and what it is as long as it cuts nothing.
LEMMA UncutStep ==
  ASSUME ShellInv, UncutInv, [ShellNext]_shell_vars
  PROVE  UncutInv' /\ (mode # "boot" /\ ~tree_cut' => AsCall)
<1>1. CASE tree_cut'
  BY <1>1 DEF UncutInv
<1>2. CASE kernel_main
  BY <1>2 DEF kernel_main, UncutInv
<1>3. CASE FirstLogin
  BY <1>3, FirstLoginUncut DEF FirstLogin
<1>4. CASE UNCHANGED shell_vars
  BY <1>4 DEF shell_vars, fs_vars, tables, walk_vars, tty_vars, UncutInv, AsCall, Tree,
     EntriesMatchInodes, SlotsMatchInodes, ParentsFirst, NamesUnique, Live, InUse, Remembered
<1>5. CASE ~tree_cut' /\ ~kernel_main /\ ~FirstLogin /\ ShellNext
  <2>1. mode # "boot"
    BY <1>5 DEF ShellNext, print_prompt, execute_pwd, execute_cd, execute_mkfile,
       execute_mkdir, MakeEntry, execute_redirect_output, execute_append_output,
       execute_cat_redirect, FillNewFile, OtherCommand, execute_rm, RmLoop, Login,
       Welcome, execute_exit, execute_pause, switch_tty, Typed
  <2>2. ~tree_cut
    BY <1>5 DEF ShellNext, print_prompt, execute_pwd, execute_cd, execute_mkfile,
       execute_mkdir, MakeEntry, execute_redirect_output, execute_append_output,
       execute_cat_redirect, FillNewFile, OtherCommand, execute_rm, RmLoop, Login,
       Welcome, execute_exit, execute_pause, switch_tty
  <2>3. Uncut /\ Tree /\ InUse /\ Remembered
    BY <2>1, <2>2 DEF Uncut, UncutInv
  <2>4. ASSUME NEW name \in Names, execute_mkfile(name) \/ execute_mkdir(name)
        PROVE  AsCall /\ UncutInv'
    BY <2>3, <2>4, MakeCalls DEF execute_mkfile, execute_mkdir, Types
  <2>5. CASE Login \/ Welcome \/ execute_exit \/ execute_pause \/ OtherCommand
             \/ print_prompt \/ execute_pwd
    <3>1. UNCHANGED <<fs_vars, current_tty, saved>> /\ mode' \notin {"rm", "fill"}
      BY <2>5 DEF Login, Welcome, execute_exit, execute_pause, OtherCommand, Done, StartWalk,
         Typed, print_prompt, execute_pwd, WalkUp, tty_vars
    <3> QED
      BY <2>3, <3>1, QuietCalls
  <2> QED
    BY <1>5, <2>3, <2>4, <2>5, CdCalls, EchoCalls, CatCalls, FillCalls, RmCalls,
       RmLoopCalls, SwitchCalls
       DEF ShellNext
<1> QED
  BY <1>1, <1>2, <1>3, <1>4, <1>5

\* Whatever the commands do, blocks are lost at one place only and, until a write
\* fails, not shared; the counter of free blocks is right.
THEOREM BlocksCorrect ==
  ShellSpec => [](mode # "boot" => LeakOnlyBlockZero /\ SoundUntilFailure /\ BlockAccounting)
<1>1. ShellInv => (mode # "boot" => LeakOnlyBlockZero /\ SoundUntilFailure /\ BlockAccounting)
  BY DEF ShellInv, Stored, Storage
<1> QED
  BY <1>1, ShellCorrect, PTL

\* With room for a buffer and the longest text in every entry besides the root,
\* no command makes a write run out of blocks.
THEOREM FitCorrect == ShellSpec => []CommandsFit
<1>1. ShellInv => CommandsFit
  <2> SUFFICES ASSUME ShellInv,
                      \A s \in TextSizes : (MAX_FILES - InitFileCount - 1)
                         * BlocksNeeded(MAX_FILE_SIZE + s) + 1 <= MAX_BLOCKS
               PROVE  ~write_failed
    BY DEF CommandsFit
  <2>1. CASE mode = "boot"
    BY <2>1 DEF ShellInv, BootInv, Booted
  <2>2. CASE mode # "boot"
    <3>1. Longest \in TextSizes
      BY LongestIs
    <3>2. (MAX_FILES - InitFileCount - 1) * MostBlocks + 1 <= MAX_BLOCKS
      BY <3>1 DEF MostBlocks, LongestFile
    <3> QED
      BY <2>2, <3>2 DEF ShellInv, Stored
  <2> QED
    BY <2>1, <2>2
<1> QED
  BY <1>1, ShellCorrect, PTL

\* What holds until a directory in use is taken away.
LEMMA UncutCorrect == ShellSpec => []UncutInv
<1>1. ShellInit => UncutInv
  BY DEF ShellInit, UncutInv
<1>2. ShellInv /\ UncutInv /\ [ShellNext]_shell_vars => UncutInv'
  BY UncutStep
<1> QED
  BY <1>1, <1>2, ShellCorrect, PTL DEF ShellSpec

\* Until rm -rf takes away a directory that has entries or that another terminal
\* is in, every command on every terminal is a sequence of the calls that BkFS
\* describes, so that what is proved of BkFS holds of the shell.
THEOREM CommandsCorrect == ShellSpec => CommandsAreCalls
<1>1. ShellInv /\ UncutInv /\ [ShellNext]_shell_vars =>
        [mode # "boot" /\ ~tree_cut' =>
           \/ Next
           \/ /\ inodes[current_inode'].mode = FILE_DIR
              /\ UNCHANGED <<tables, ret, write_failed>>]_fs_vars
  BY UncutStep DEF AsCall, Moves
<1> QED
  BY <1>1, ShellCorrect, UncutCorrect, PTL DEF ShellSpec, CommandsAreCalls

\* Until then the directories are a tree, every terminal is in one of them, and
\* free_inodes is exact.
THEOREM UncutTree ==
  ShellSpec => [](mode # "boot" /\ ~tree_cut =>
                    /\ EntriesMatchInodes /\ ParentsFirst /\ NamesUnique
                    /\ \A t \in Ttys \ {current_tty} : inodes[saved[t]].mode = FILE_DIR)
<1>1. UncutInv => (mode # "boot" /\ ~tree_cut =>
                    /\ EntriesMatchInodes /\ ParentsFirst /\ NamesUnique
                    /\ \A t \in Ttys \ {current_tty} : inodes[saved[t]].mode = FILE_DIR)
  BY DEF UncutInv, Tree, InUse
<1> QED
  BY <1>1, UncutCorrect, PTL
-----------------------------------------------------------------------------
(* The way back                                                            *)

\* What the walk to the root keeps: it goes through directories, and the names
\* it has collected lead back.
PathInv ==
  mode \in {"prompt", "pwd"} /\ ~tree_cut =>
    inodes[walk].mode = FILE_DIR /\ LeadsTo(walk, path, current_inode)

\* By its name one comes from the parent of a directory to the directory.
LEMMA BelowParent ==
  ASSUME TypeOK, Rooted, NEW n \in LiveInodes, n \in Inodes, inodes[n].mode = FILE_DIR
  PROVE  /\ ParentOf(n) \in Inodes /\ NameOf(n) \in Names
         /\ Below(ParentOf(n), NameOf(n)) = n
<1> DEFINE hits == {k \in 1..file_count : files[k].inode = n}
           i    == First(hits)
           dirs == {k \in InDir(files[i].parent_inode, files[i].name) :
                      files[k].type = FILE_DIR}
<1>1. hits # {} /\ hits \subseteq Nat
  BY LiveInSlots DEF LiveInodes
<1>2. i \in 1..file_count /\ files[i].inode = n
  <2>1. i \in hits
    BY <1>1, FirstIs
  <2> QED
    BY <2>1
<1>3. ParentOf(n) = files[i].parent_inode /\ NameOf(n) = files[i].name
  BY <1>1 DEF ParentOf, NameOf
<1> HIDE DEF i
<1>4. /\ i \in Live /\ files[i].parent_inode \in Inodes /\ files[i].type = FILE_DIR
      /\ files[i].name \in Names
  <2>1. n # 0
    BY DEF Inodes
  <2>2. i \in Live
    BY <1>2, <2>1, LiveSlot DEF Rooted
  <2> QED
    BY <1>2, <2>2 DEF Rooted, SlotsMatchInodes
<1>5. i \in dirs
  BY <1>2, <1>4 DEF InDir
<1>6. First(dirs) = i
  <2>1. /\ First(dirs) \in dirs /\ First(dirs) \in Live
        /\ files[First(dirs)].parent_inode = files[i].parent_inode
        /\ files[First(dirs)].name = files[i].name
    <3>1. dirs # {} /\ dirs \subseteq InDir(files[i].parent_inode, files[i].name)
      BY <1>5
    <3> QED
      BY <1>4, <3>1, FirstHit
  <2> HIDE DEF dirs
  <2> QED
    BY <1>4, <2>1 DEF Rooted, NamesUnique
<1>7. Below(files[i].parent_inode, files[i].name) = files[First(dirs)].inode
  BY <1>5 DEF Below
<1> QED
  BY <1>2, <1>3, <1>4, <1>6, <1>7

\* Where a walk begins, no name leads to the working directory.
LEMMA NoNames ==
  ASSUME NEW n \in Inodes
  PROVE  /\ \E via \in [1..(Len(<< >>) + 1) -> Inodes] :
              via[1] = n /\ via[Len(<< >>) + 1] = n
         /\ \A i \in 1..Len(<< >>) : FALSE
<1>1. Len(<< >>) = 0
  OBVIOUS
<1>2. \E via \in [1..1 -> Inodes] : via[1] = n
  <2>1. [i \in 1..1 |-> n] \in [1..1 -> Inodes] /\ [i \in 1..1 |-> n][1] = n
    OBVIOUS
  <2> QED
    BY <2>1
<1> QED
  BY <1>1, <1>2

\* One more name in front leads from one directory further up.
LEMMA PrependLeads ==
  ASSUME NEW d \in Inodes, NEW names \in Seq(Names), NEW n, LeadsTo(d, names, n),
         NEW up \in Inodes, NEW name \in Names, Below(up, name) = d
  PROVE  LeadsTo(up, << name >> \o names, n)
<1> DEFINE longer == << name >> \o names
<1>1. PICK via \in [1..(Len(names) + 1) -> Inodes] :
        /\ via[1] = d /\ via[Len(names) + 1] = n
        /\ \A i \in 1..Len(names) : via[i + 1] = Below(via[i], names[i])
  BY DEF LeadsTo
<1>2. /\ Len(names) \in Nat /\ Len(longer) = Len(names) + 1
      /\ longer[1] = name
      /\ \A i \in 2..(Len(names) + 1) : longer[i] = names[i - 1]
  OBVIOUS
<1> HIDE DEF longer
<1> DEFINE via2 == [i \in 1..(Len(names) + 2) |-> IF i = 1 THEN up ELSE via[i - 1]]
<1>3. /\ via2 \in [1..(Len(longer) + 1) -> Inodes]
      /\ via2[1] = up /\ via2[Len(longer) + 1] = n
  <2>1. \A i \in 1..(Len(names) + 2) : i # 1 => i - 1 \in 1..(Len(names) + 1)
    BY <1>2
  <2> QED
    BY <1>1, <1>2, <2>1
<1>4. ASSUME NEW i \in 1..Len(longer) PROVE via2[i + 1] = Below(via2[i], longer[i])
  <2>1. CASE i = 1
    <3>1. via2[1] = up /\ via2[2] = via[1]
      BY <1>2
    <3> QED
      BY <1>1, <1>2, <2>1, <3>1
  <2>2. CASE i # 1
    <3>1. /\ i - 1 \in 1..Len(names) /\ i \in 2..(Len(names) + 1) /\ (i - 1) + 1 = i
          /\ i + 1 \in 1..(Len(names) + 2) /\ i + 1 # 1 /\ (i + 1) - 1 = i
      BY <1>2, <2>2
    <3>2. via2[i + 1] = via[i] /\ via2[i] = via[i - 1] /\ longer[i] = names[i - 1]
      BY <1>2, <2>2, <3>1
    <3>3. via[(i - 1) + 1] = Below(via[i - 1], names[i - 1])
      BY <1>1, <3>1
    <3> HIDE DEF via2
    <3> QED
      BY <3>1, <3>2, <3>3
  <2> QED
    BY <2>1, <2>2
<1> HIDE DEF via2
<1>5. LeadsTo(up, longer, n)
  BY <1>3, <1>4 DEF LeadsTo
<1> QED
  BY <1>5 DEF longer

\* A way is a way as long as the table is the same.
LEMMA SameWay ==
  ASSUME files' = files, file_count' = file_count, LeadsTo(walk', path', current_inode')
  PROVE  LeadsTo(walk, path, current_inode)'
<1>1. ASSUME NEW d \in Inodes, NEW name PROVE Below(d, name)' = Below(d, name)
  BY DEF Below, InDir
<1>2. PICK via \in [1..(Len(path') + 1) -> Inodes] :
        /\ via[1] = walk' /\ via[Len(path') + 1] = current_inode'
        /\ \A i \in 1..Len(path') : via[i + 1] = Below(via[i], path'[i])
  BY DEF LeadsTo
<1>3. ASSUME NEW i \in 1..Len(path') PROVE via[i + 1] = Below(via[i], path[i])'
  BY <1>1, <1>2
<1> QED
  BY <1>2, <1>3 DEF LeadsTo

\* One pass of the loop in print_prompt and execute_pwd.
LEMMA WalkUpLeads ==
  ASSUME ShellInv, UncutInv, PathInv, mode \in {"prompt", "pwd"}, ~tree_cut, WalkUp,
         UNCHANGED <<fs_vars, tree_cut>>, mode' \in {"prompt", "pwd"}
  PROVE  PathInv'
<1> TypeOK /\ Rooted /\ Control /\ Tree
  BY DEF ShellInv, UncutInv
<1>1. walk \in Inodes /\ inodes[walk].mode = FILE_DIR /\ LeadsTo(walk, path, current_inode)
  BY DEF PathInv, Control
<1>2. inodes[walk'].mode = FILE_DIR
  BY <1>1, ParentIs DEF WalkUp
<1>3. LeadsTo(walk', path', current_inode)
  <2>1. CASE walk \notin LiveInodes
    <3>1. path' = path /\ walk' = ParentOf(walk)
      BY <2>1 DEF WalkUp
    <3>2. ASSUME NEW k \in 1..file_count, files[k].inode = walk PROVE FALSE
      <4>1. walk # 0
        BY <1>1 DEF Inodes
      <4> QED
        BY <2>1, <3>2, <4>1, LiveSlot DEF Rooted, LiveInodes
    <3>3. ParentOf(walk) = walk
      BY <3>2 DEF ParentOf
    <3> QED
      BY <1>1, <3>1, <3>3
  <2>2. CASE walk \in LiveInodes
    <3>1. path' = << NameOf(walk) >> \o path /\ walk' = ParentOf(walk)
      BY <2>2 DEF WalkUp, Prepend
    <3>2. /\ ParentOf(walk) \in Inodes /\ NameOf(walk) \in Names
          /\ Below(ParentOf(walk), NameOf(walk)) = walk
      BY <1>1, <2>2, BelowParent
    <3> QED
      BY <1>1, <3>1, <3>2, PrependLeads DEF Control
  <2> QED
    BY <2>1, <2>2
<1>4. /\ inodes' = inodes /\ files' = files /\ file_count' = file_count
      /\ current_inode' = current_inode
  BY DEF fs_vars, tables
<1>5. LeadsTo(walk, path, current_inode)'
  BY <1>3, <1>4, SameWay
<1> QED
  BY <1>2, <1>4, <1>5 DEF PathInv

\* Every other step that ends at the prompt or in pwd begins a walk.
LEMMA WalksBegin ==
  ASSUME ShellNext, mode' \in {"prompt", "pwd"}
  PROVE  \/ walk' = current_inode' /\ path' = << >>
         \/ mode \in {"prompt", "pwd"} /\ WalkUp /\ UNCHANGED <<fs_vars, tree_cut>>
<1>1. CASE kernel_main \/ FirstLogin
  BY <1>1 DEF kernel_main, FirstLogin
<1>2. CASE print_prompt \/ execute_pwd
  BY <1>2 DEF print_prompt, execute_pwd, StartWalk
<1>3. ASSUME NEW name, NEW recursive, execute_rm(name, recursive)
      PROVE  walk' = current_inode' /\ path' = << >>
  BY <1>3 DEF execute_rm, EnterRm, StartWalk
<1>4. CASE RmLoop
  BY <1>4 DEF RmLoop, EnterRm, StartWalk
<1>5. CASE Login \/ Welcome \/ execute_exit \/ execute_pause \/ FillNewFile \/ OtherCommand
           \/ \E t \in Ttys : switch_tty(t)
  BY <1>5 DEF Login, Welcome, execute_exit, execute_pause, FillNewFile, OtherCommand,
              switch_tty, Done, StartWalk, Typed
<1>6. ASSUME NEW name, execute_cd(name) \/ execute_mkfile(name) \/ execute_mkdir(name)
      PROVE  walk' = current_inode' /\ path' = << >>
  BY <1>6 DEF execute_cd, execute_mkfile, execute_mkdir, MakeEntry, Done, StartWalk
<1>7. ASSUME NEW name, NEW data, NEW size, CreateAndFill(name, data, size)
      PROVE  walk' = current_inode' /\ path' = << >>
  BY <1>7 DEF CreateAndFill, Done, StartWalk
<1>8. ASSUME NEW n, NEW data, NEW size, AppendTo(n, data, size)
      PROVE  walk' = current_inode' /\ path' = << >>
  BY <1>8 DEF AppendTo, Done, StartWalk
<1>9. ASSUME NEW name, NEW data, NEW size,
             \/ execute_redirect_output(name, data, size)
             \/ execute_append_output(name, data, size)
      PROVE  walk' = current_inode' /\ path' = << >>
  BY <1>7, <1>8, <1>9 DEF execute_redirect_output, execute_append_output, Done, StartWalk
<1>10. ASSUME NEW name, NEW data, NEW append, execute_cat_redirect(name, data, append)
       PROVE  walk' = current_inode' /\ path' = << >>
  BY <1>7, <1>8, <1>10 DEF execute_cat_redirect, Done, StartWalk
<1> QED
  BY <1>1, <1>2, <1>3, <1>4, <1>5, <1>6, <1>9, <1>10 DEF ShellNext

\* The names put together so far lead from where the walk is to where it began.
LEMMA PathHolds == ShellSpec => []PathInv
<1>1. ShellInit => PathInv
  BY DEF ShellInit, PathInv
<1>2. ASSUME ShellInv, ShellInv', UncutInv, UncutInv', PathInv, [ShellNext]_shell_vars
      PROVE  PathInv'
  <2>1. CASE mode' \notin {"prompt", "pwd"} \/ tree_cut'
    BY <2>1 DEF PathInv
  <2>2. CASE UNCHANGED shell_vars
    <3>1. UNCHANGED <<files, file_count, inodes, current_inode, walk, path, mode, tree_cut>>
      BY <2>2 DEF shell_vars, fs_vars, tables, walk_vars
    <3> QED
      BY <1>2, <3>1, SameWay DEF PathInv
  <2>3. CASE ShellNext /\ mode' \in {"prompt", "pwd"} /\ ~tree_cut'
    <3>1. CASE walk' = current_inode' /\ path' = << >>
      <4>1. current_inode' \in Inodes /\ inodes'[current_inode'].mode = FILE_DIR
        BY <1>2, <2>3 DEF ShellInv, TypeOK, UncutInv, Tree, ParentsFirst
      <4>2. LeadsTo(walk, path, current_inode)'
        BY <3>1, <4>1, NoNames DEF LeadsTo
      <4> QED
        BY <3>1, <4>1, <4>2 DEF PathInv
    <3>2. CASE mode \in {"prompt", "pwd"} /\ WalkUp /\ UNCHANGED <<fs_vars, tree_cut>>
      BY <1>2, <2>3, <3>2, WalkUpLeads
    <3> QED
      BY <2>3, <3>1, <3>2, WalksBegin
  <2> QED
    BY <1>2, <2>1, <2>2, <2>3
<1> QED
  BY <1>1, <1>2, ShellCorrect, UncutCorrect, PTL DEF ShellSpec

\* What the prompt and pwd print is the path by which cd comes back to the
\* working directory, on every terminal, until a directory in use is taken away.
THEOREM PathCorrect == ShellSpec => []PathLeadsBack
<1>1. PathInv => PathLeadsBack
  BY DEF PathInv, PathLeadsBack
<1> QED
  BY <1>1, PathHolds, PTL

-----------------------------------------------------------------------------
(* The walk ends                                                           *)

LiveDirs == {n \in LiveInodes \ {1} : inodes[n].mode = FILE_DIR}

\* The directories in the slots behind that of n.
Behind(n) == {d \in LiveDirs : SlotOf(d) > SlotOf(n)}

\* The names put together belong to directories that the walk has left, and it
\* goes to lower slots only.
WalkInv ==
  mode \in {"prompt", "pwd"} /\ ~tree_cut => Len(path) <= Cardinality(Behind(walk))

\* What WalksDescend asks of a step.
WalkDescends ==
  ~tree_cut /\ mode \in {"prompt", "pwd"} /\ walk # 1 =>
    /\ mode' = mode \/ (mode' = "overrun" /\ MayOverrun)
    /\ walk' \in LiveInodes
    /\ SlotOf(walk') < SlotOf(walk)

\* A directory has one slot, and its parent an earlier one.
LEMMA DirSlot ==
  ASSUME TypeOK, Rooted, Tree, NEW n \in Inodes, inodes[n].mode = FILE_DIR
  PROVE  /\ n \in LiveInodes /\ SlotOf(n) \in Live /\ SlotOf(n) \in Nat
         /\ files[SlotOf(n)].inode = n
         /\ n # 1 => /\ ParentOf(n) \in LiveInodes /\ ParentOf(n) \in Inodes
                     /\ inodes[ParentOf(n)].mode = FILE_DIR
                     /\ SlotOf(ParentOf(n)) < SlotOf(n)
<1>0. /\ FILE_DIR # "free"
      /\ \A k \in Live, l \in Live : files[k].inode = files[l].inode => k = l
      /\ \A k \in Live : files[k].inode \in Inodes /\ k \in 1..file_count /\ k \in Nat
  BY LiveInSlots DEF Rooted, SlotsMatchInodes, FILE_DIR
<1>1. \E k \in Live : files[k].inode = n
  BY <1>0 DEF Rooted, SlotsMatchInodes
<1>2. SlotOf(n) \in Live /\ files[SlotOf(n)].inode = n
  BY <1>1 DEF SlotOf
<1>3. n \in LiveInodes
  BY <1>1 DEF LiveInodes
<1>4. ASSUME n # 1
      PROVE  /\ ParentOf(n) \in LiveInodes /\ ParentOf(n) \in Inodes
             /\ SlotOf(ParentOf(n)) < SlotOf(n)
  <2> DEFINE hits == {k \in 1..file_count : files[k].inode = n}
             i == SlotOf(n)
  <2>1. hits \subseteq Nat /\ hits # {} /\ i \in hits
    BY <1>0, <1>2
  <2>2. First(hits) \in hits
    BY <2>1, FirstIs
  <2>3. First(hits) = i
    <3>1. n # 0
      BY DEF Inodes
    <3>2. First(hits) \in Live /\ files[First(hits)].inode = n
      BY <2>2, <3>1, LiveSlot DEF Rooted
    <3> QED
      BY <1>0, <1>2, <3>2
  <2>4. ParentOf(n) = files[i].parent_inode
    BY <2>1, <2>3 DEF ParentOf
  <2> HIDE DEF i
  <2>5. i \in Live /\ i # InitFileCount + 1
    BY <1>2, <1>4 DEF Rooted, i
  <2>6. i > InitFileCount + 1
    BY <2>5, TableSizes DEF Live, TypeOK
  <2>7. PICK l \in Live : l < i /\ files[l].inode = files[i].parent_inode
    BY <2>5, <2>6 DEF Tree, ParentsFirst
  <2> DEFINE p == ParentOf(n)
  <2>8. files[l].inode = p /\ p \in LiveInodes /\ p \in Inodes
    BY <1>0, <2>4, <2>7 DEF LiveInodes
  <2> HIDE DEF p
  <2>9. SlotOf(p) = l
    <3>1. SlotOf(p) \in Live /\ files[SlotOf(p)].inode = p
      BY <2>8 DEF SlotOf
    <3> QED
      BY <1>0, <2>8, <3>1
  <2> QED
    BY <2>7, <2>8, <2>9 DEF p, i
<1>5. n # 1 => inodes[ParentOf(n)].mode = FILE_DIR
  BY ParentIs
<1> QED
  BY <1>0, <1>2, <1>3, <1>4, <1>5

\* From a directory to its parent there is one more behind.
LEMMA OneMoreBehind ==
  ASSUME TypeOK, Rooted, Tree, NEW n \in Inodes, n # 1, inodes[n].mode = FILE_DIR
  PROVE  /\ Cardinality(Behind(n)) \in Nat /\ Cardinality(LiveDirs) \in Nat
         /\ Cardinality(Behind(ParentOf(n))) \in Nat
         /\ Cardinality(Behind(n)) + 1 <= Cardinality(Behind(ParentOf(n)))
         /\ Cardinality(Behind(ParentOf(n))) <= Cardinality(LiveDirs)
<1> DEFINE p == ParentOf(n)
           A == Behind(n)
           B == Behind(p)
<1>1. /\ n \in LiveInodes /\ SlotOf(n) \in Nat /\ p \in LiveInodes /\ p \in Inodes
      /\ inodes[p].mode = FILE_DIR /\ SlotOf(p) < SlotOf(n)
  BY DirSlot
<1>2. SlotOf(p) \in Nat
  BY <1>1, DirSlot
<1>3. \A d \in LiveDirs : d \in Inodes /\ SlotOf(d) \in Nat
  <2>1. \A d \in LiveInodes : d \in Inodes
    BY DEF LiveInodes, Rooted, SlotsMatchInodes
  <2>2. ASSUME NEW d \in LiveDirs PROVE d \in Inodes /\ inodes[d].mode = FILE_DIR
    BY <2>1 DEF LiveDirs
  <2> QED
    BY <2>2, DirSlot
<1> HIDE DEF p
<1>4. A \cup {n} \subseteq B /\ n \notin A /\ B \subseteq LiveDirs
  <2>1. n \in LiveDirs
    BY <1>1 DEF LiveDirs
  <2>2. n \in B /\ n \notin A
    BY <1>1, <2>1 DEF Behind
  <2>3. ASSUME NEW d \in A PROVE d \in B
    <3>1. d \in LiveDirs /\ SlotOf(d) > SlotOf(n)
      BY DEF Behind
    <3>2. SlotOf(d) > SlotOf(p)
      BY <1>1, <1>2, <1>3, <3>1
    <3> QED
      BY <3>1, <3>2 DEF Behind
  <2>4. B \subseteq LiveDirs
    BY DEF Behind
  <2> QED
    BY <2>2, <2>3, <2>4
<1>5. IsFiniteSet(LiveDirs)
  <2>1. IsFiniteSet(Inodes)
    BY TableSizes, FS_Interval DEF Inodes
  <2>2. LiveDirs \in SUBSET Inodes
    BY <1>3
  <2> QED
    BY <2>1, <2>2, FS_Subset
<1> HIDE DEF A, B
<1>6. IsFiniteSet(B) /\ IsFiniteSet(A)
  BY <1>4, <1>5, FS_Subset
<1>7. Cardinality(A \cup {n}) = Cardinality(A) + 1 /\ IsFiniteSet(A \cup {n})
  BY <1>4, <1>6, FS_AddElement
<1>8. Cardinality(A \cup {n}) <= Cardinality(B) /\ Cardinality(B) <= Cardinality(LiveDirs)
  BY <1>4, <1>5, <1>6, FS_Subset
<1>9. Cardinality(A) \in Nat /\ Cardinality(B) \in Nat /\ Cardinality(LiveDirs) \in Nat
  BY <1>5, <1>6, FS_CardinalityType
<1> QED
  BY <1>7, <1>8, <1>9 DEF A, B, p

\* Where nothing but the walk changes, the directories behind a place do not.
LEMMA SameBehind ==
  ASSUME files' = files, inodes' = inodes, file_count' = file_count
  PROVE  Behind(walk)' = Behind(walk')
<1>1. LiveDirs' = LiveDirs
  BY DEF LiveDirs, LiveInodes, Live
<1>2. ASSUME NEW n PROVE SlotOf(n)' = SlotOf(n)
  BY DEF SlotOf, Live
<1> QED
  BY <1>1, <1>2 DEF Behind, SlotOf, Live

LEMMA WalkUpBounded ==
  ASSUME ShellInv, UncutInv, PathInv, WalkInv, mode \in {"prompt", "pwd"}, ~tree_cut,
         WalkUp, UNCHANGED <<fs_vars, tree_cut>>
  PROVE  /\ mode' = mode \/ (mode' = "overrun" /\ MayOverrun)
         /\ walk' \in LiveInodes /\ SlotOf(walk') < SlotOf(walk)
         /\ WalkInv'
<1> TypeOK /\ Rooted /\ Control /\ Tree
  BY DEF ShellInv, UncutInv
<1>1. /\ walk \in Inodes /\ inodes[walk].mode = FILE_DIR /\ walk # 1
      /\ walk' = ParentOf(walk) /\ Len(path) <= Cardinality(Behind(walk))
      /\ path \in Seq(Names)
  BY DEF PathInv, Control, WalkUp, WalkInv
<1>2. walk \in LiveInodes /\ walk' \in LiveInodes /\ SlotOf(walk') < SlotOf(walk)
  BY <1>1, DirSlot
<1>3. /\ Cardinality(Behind(walk)) \in Nat /\ Cardinality(LiveDirs) \in Nat
      /\ Cardinality(Behind(walk')) \in Nat
      /\ Cardinality(Behind(walk)) + 1 <= Cardinality(Behind(walk'))
      /\ Cardinality(Behind(walk')) <= Cardinality(LiveDirs)
  BY <1>1, OneMoreBehind
<1>4. Len(path) \in Nat
  BY <1>1
<1>5. CASE mode' = "overrun" /\ Len(path) >= SureNames
  <2>1. SureNames \in Nat
    BY ShellAssumption
  <2>2. Cardinality(LiveDirs) > SureNames
    BY <1>1, <1>3, <1>4, <1>5, <2>1
  <2>3. MayOverrun
    BY <2>2 DEF MayOverrun, LiveDirs
  <2> QED
    BY <1>2, <1>5, <2>3 DEF WalkInv
<1>6. CASE mode' = mode /\ path' = Prepend(NameOf(walk))
  <2>1. Len(path') = Len(path) + 1
    <3>1. NameOf(walk) \in Names
      BY <1>1, <1>2, BelowParent
    <3>2. << NameOf(walk) >> \in Seq(Names)
      BY <3>1
    <3> QED
      BY <1>1, <1>6, <3>2 DEF Prepend
  <2>2. Len(path') <= Cardinality(Behind(walk'))
    BY <1>1, <1>3, <1>4, <2>1
  <2>3. Behind(walk)' = Behind(walk')
    BY SameBehind DEF fs_vars, tables
  <2> QED
    BY <1>2, <1>6, <2>2, <2>3 DEF WalkInv
<1> QED
  BY <1>2, <1>5, <1>6 DEF WalkUp

\* There are finitely many directories.
LEMMA SomeInodesFinite ==
  ASSUME NEW S, S \subseteq Inodes
  PROVE  Cardinality(S) \in Nat
<1>1. IsFiniteSet(Inodes)
  BY TableSizes, FS_Interval DEF Inodes
<1> QED
  BY <1>1, FS_Subset, FS_CardinalityType

\* In these modes nothing but the walk goes on.
LEMMA OnlyWalks ==
  ASSUME ShellNext, mode \in {"prompt", "pwd"}, walk # 1
  PROVE  WalkUp /\ UNCHANGED <<fs_vars, tree_cut>>
<1>1. print_prompt \/ execute_pwd
  BY DEF ShellNext, kernel_main, FirstLogin, execute_cd, execute_mkfile, execute_mkdir,
     MakeEntry, execute_redirect_output, execute_append_output, execute_cat_redirect,
     FillNewFile, OtherCommand, execute_rm, RmLoop, Login, Welcome, execute_exit,
     execute_pause, switch_tty, Typed
<1> QED
  BY <1>1 DEF print_prompt, execute_pwd, Typed

LEMMA WalkInvStep ==
  ASSUME ShellInv, ShellInv', UncutInv, PathInv, WalkInv, ShellNext
  PROVE  WalkInv' /\ WalkDescends
<1>1. CASE mode \in {"prompt", "pwd"} /\ WalkUp /\ UNCHANGED <<fs_vars, tree_cut>>
  <2>1. CASE tree_cut
    BY <1>1, <2>1 DEF WalkInv, WalkDescends
  <2>2. CASE ~tree_cut
    BY <1>1, <2>2, WalkUpBounded DEF WalkDescends
  <2> QED
    BY <2>1, <2>2
<1>2. CASE ~(mode \in {"prompt", "pwd"} /\ WalkUp /\ UNCHANGED <<fs_vars, tree_cut>>)
  <2>1. WalkInv'
    <3> SUFFICES ASSUME mode' \in {"prompt", "pwd"}
                 PROVE  (Len(path) <= Cardinality(Behind(walk)))'
      BY DEF WalkInv
    <3>1. path' = << >>
      BY <1>2, WalksBegin
    <3>2. (Behind(walk) \subseteq Inodes)'
      <4>1. Rooted'
        BY DEF ShellInv
      <4>2. (LiveInodes \subseteq Inodes)'
        BY <4>1 DEF LiveInodes, Rooted, SlotsMatchInodes
      <4> QED
        BY <4>2 DEF Behind, LiveDirs
    <3>3. Cardinality(Behind(walk)') \in Nat
      BY <3>2, SomeInodesFinite
    <3>4. Len(path') = 0
      BY <3>1
    <3> QED
      BY <3>3, <3>4
  <2>2. WalkDescends
    BY <1>2, OnlyWalks DEF WalkDescends
  <2> QED
    BY <2>1, <2>2
<1> QED
  BY <1>1, <1>2

\* The safety part of WalkEnds, for any tables: each pass of the walk to the root
\* goes to a lower slot, of which there are finitely many, and a path overruns
\* its buffer only if there are more directories than are sure to fit.
THEOREM WalksCorrect == ShellSpec => WalksDescend
<1>1. ShellInit => WalkInv
  BY DEF ShellInit, WalkInv
<1>2. ASSUME ShellInv, ShellInv', UncutInv, PathInv, WalkInv, [ShellNext]_shell_vars
      PROVE  WalkInv' /\ [WalkDescends]_shell_vars
  <2>1. CASE UNCHANGED shell_vars
    <3>1. UNCHANGED <<files, file_count, inodes, walk, path, mode, tree_cut>>
      BY <2>1 DEF shell_vars, fs_vars, tables, walk_vars
    <3>2. Behind(walk)' = Behind(walk)
      BY <3>1, SameBehind
    <3> QED
      BY <1>2, <2>1, <3>1, <3>2 DEF WalkInv
  <2>2. CASE ShellNext
    BY <1>2, <2>2, WalkInvStep
  <2> QED
    BY <1>2, <2>1, <2>2
<1>3. ShellSpec => [][WalkDescends]_shell_vars
  BY <1>1, <1>2, ShellCorrect, UncutCorrect, PathHolds, PTL DEF ShellSpec
<1> QED
  BY <1>3 DEF WalksDescend, WalkDescends
=============================================================================
