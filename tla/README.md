# Srunix86: a verification project

Srunix86 is a small operating system for the PC: a kernel with an in-memory
file system (bkFS), nine text terminals with a login prompt and a shell,
and, for Linux, a program that formats a disk with bkFS and a
driver that mounts it. This directory holds TLA+ modules that model its parts,
TLC configurations that check them on small instances, and TLAPS proofs of
results that hold for every size of the tables.

`PROJECT.json` says for every definition which lines it models, lists the runs,
the mutants that show that each property can fail, the findings, the hazards
and the theorems.

## 1. The system

The kernel is one thread with interrupts off. Everything the shell does runs to
its end before the next key is read, so inside the kernel nothing interleaves
except what users type, on which terminal, in which order. What is hard is
therefore not locking but *long sequences of legal calls*: tables that are
updated in several places, loops that end only if the tables are sound,
recursion over a table that shifts, one call stack shared by nine terminals.
The disk tools are different: `mkfs` and `mount` are separate processes on
Linux, each step can fail, and power can.

| Component | State | Operations | Correct when |
|---|---|---|---|
| bkFS (`src/fs/bkfs.h`) | `files[]`, `file_count`, `inodes[]`, `blocks`, `block_used[]`, two free counters, `current_inode` | create, delete, write, read, change directory, allocate and free | the tables agree; directories form a tree with unique names; no block is lost or shared; a read returns what was last written |
| Boot and commands (`kernel.c`, `kernel.h`, `bin/*.h`) | the tables above, the loops' variables, the stack of `rm -rf` | `kernel_main`, prompt, `pwd`, `cd`, `touch`, `mkdir`, `rm`, `rm -rf`, `echo >`, `echo >>`, `cat >`, `exit`, `pause` | commands keep the tables sound, end, and touch what they name; the path shown leads to the working directory |
| Command line (`kernel.c`, `execute_command`) | the line, its copy, the array of words | split into words, look for a redirection, call the command | a command gets the words that were typed; texts and messages fit their buffers; lines are answered |
| Keyboard (`prdio.h`, `keyboard_getchar`) | `shift_pressed`, `ctrl_pressed`, `alt_pressed`, `caps_lock` | press and release modifiers, translate a scan code | no modifier sticks; readers are given characters, never a zero |
| Numbers and clock (`prdio.h`, `date.h`, `time.h`) | buffers on the callers' stacks | `int_to_str`, `bcd_to_bin`, `ip_to_str` | what is printed is the number; it fits its buffer |
| Network (`internet.h`) | `net_dev` | `dhcpcd`, `ifconfig`, `ping` | canned answers; nothing is sent |
| Logins, line editor, history (`kernel.c`, `prdio.h`) | `ttys[].logged_in`, `current_tty`, the innermost reader and its line, `command_history` | `login_screen`, `shell`, `exit`, F-keys, editing and recall keys | a shell serves only a logged-in terminal; lines fit their buffers; the history is the last commands |
| Terminal (`prdio.h`) | video buffer, cursor, a saved screen for each terminal | put a character, erase, scroll, clear, switch | a screen is the end of what was written on it; terminals do not disturb each other |
| Process table (`kernel.c`) | `processes[]`, `process_count` | `sys_fork`, `sys_exit`, `send_signal` | nothing calls `sys_fork`, so the table stays empty: only `kill` on an empty table is modelled |
| Strings (`prdio.h`) | the memory after a destination | `strncpy` | no more than n cells are written |
| Disk (`fs/mkfs_bkfs.c`, `fs/bkfs_mod.c`) | the device and what of it is written back, the superblock's private data and its allocator, the root inode | format, mount, sync, unmount, load and unload | a mounted system's data is allocated, its counters are the device's, its root is a directory |

How they interact: the shell's commands call the `fs_*` functions directly and
share `current_inode` with them; `switch_tty` saves and restores it, together
with the screen, for each terminal; `keyboard_getchar` calls `switch_tty`,
which may call `login_screen`, which calls `shell`, inside whatever was reading
keys: a login prompt, a line of the shell, or a command that waits for a key.
The line that `shell` has read goes to `execute_command`, which hands words to
the commands; these print with `int_to_str` and `terminal_printf`.
`fs_create_file` stores a name with `strncpy`. The disk tools share only
the format with the kernel's bkFS.

## 2. The modules

| Module | Models | Remarks |
|---|---|---|
| `BkFS` | every function of `bkfs.h` | one action per caller's use of a function |
| `FileStore` | *abstract*: a directory tree whose files have contents | implemented by `BkFS` |
| `Shell` | boot, commands, prompt and paths, logins, terminals' directories | EXTENDS `BkFS` and calls its functions |
| `CommandLine` | `execute_command` and what commands do with words in buffers: `echo`'s text, `touch`'s name, `terminal_printf`'s message; `kill`, `date`, `time`, the network commands | EXTENDS `StringCopy` and `Format`, whose steps are its own while it copies or prints; what the commands do to files is in `Shell` |
| `Format` | `int_to_str`, a digit and an exchange at a time, `bcd_to_bin`, `ip_to_str` and their callers' buffers | |
| `StringCopy` | `strncpy`, a step for every pass of its loops | |
| `Keyboard` | `keyboard_getchar`: codes, modifier flags, key maps; the keys people hold | |
| `Session` | logins, exits, switches, commands that wait for a key, line editor, history | |
| `Console` | `Keyboard` and `Session` together: a code is read by the innermost reader, a function key switches | shown to implement `Session` |
| `Readers` | *abstract*: which terminal is shown, who is logged in, who gets the next key | implemented by `Session`, `Console` and `Shell`, each with its own view of a reader |
| `Terminal` | output and screens | |
| `BkfsDisk` | `mkfs_bkfs` and the Linux driver | what Linux and the power do is marked external |
| `MCBkFS`, `MCShell`, `MCConsole`, `MCCommandLine` | instances for TLC | only constants and a bound on a counter |
| `BkFSProofs` | theorems about `BkFS`: types, tree, storage | |
| `StoreProofs` | counting of blocks, writes that fit, the refinement of `FileStore` | EXTENDS `BkFSProofs` |
| `ShellProofs` | boot, tables, calls, blocks, paths and readers of `Shell` | EXTENDS `StoreProofs`: the lemmas about `fs_*` functions serve both |
| `ConsoleProofs` | `Session`, `Keyboard`, `Console` and the refinements of `Session` and `Readers` | |
| `CommandProofs` | words of `CommandLine`, numbers of `Format` | |
| `StringCopyProofs`, `TerminalProofs`, `BkfsDiskProofs` | theorems about the modules of those names | |

**Correspondence.** Names are the source's. Arrays are functions, `files[]`
keeps all its slots as in the code, with the count beside it, because deletion
shifts and because slots 0 to 4 are in use but empty (`file_count` starts at 5).
Slots and inodes are numbered from 1, blocks from 0. A function that returns
early is a disjunction, one disjunct for each way through it. A function that
runs to its end without waiting is one action, whatever it calls. A loop whose
end depends on the tables or on a count (the walk to the root, the loop of
`rm -rf`, splitting, the loops of `strncpy` and `int_to_str`) takes a step for
each pass, so that it can fail to end.

**Data.** Names, texts and characters are model values or short strings. In
`Shell` a text is its identity and its length; a block holds "chunk i of text
d", so that what a read returns can be compared with what was written. In
`CommandLine`, `Session` and `Format` lines and numbers are sequences of
characters, because splitting, editing and reversing is what they do; a letter
stands for each command's name (`Handlers`). Colours, time stamps, owners and
the wording of messages are left out; of a message only the length matters.
What `echo >>` writes is a new text whose length is computed as in the code,
including the separating newline. `strncpy` stores names of up to 30 characters
faithfully (`StringCopy`), and it is those that `BkFS` calls names. What `atoi`
makes of a word is any int (`Pids`), as `kill` only prints it.

**How the two halves of the shell fit.** `Shell` starts where a command has its
words, `CommandLine` and `Console` end there. `WordsAreTyped` and
`RedirectsGiven` state what `Shell` takes for granted: texts shorter than
`MAX_CMD_LEN`, one operator, and a redirected `cat` whose source is its
operator. `Shell` and `Session` implement the same `Readers`, the one with
directories and files, the other with lines and keys.

**Undefined behaviour** is a choice between what the code would do if nothing
bad happened and a mode "overrun" in which nothing more happens. It is met in
`execute_append_output` (a buffer of 4096), when `rm -rf` recurses beyond the
kernel stack, when the prompt or `pwd` puts together a path longer than its
buffer (8 names always fit, more than 127 never do), and in `terminal_printf`
with a message of 256 characters or more. In `CommandLine`, which knows nothing of
files, appending may always overrun, and `rm -rf` of something may always get
"stuck" in its loop. Memory freed twice, by a mount that fails, leaves a corrupt
`heap`: from then on the memory of the private data may belong to somebody else
as well, who writes to it or frees it (`HandedOutTwice`), until the machine is
started again. The key maps are read beyond their
ends by the arrow keys, so any character, or none, may come from them. A number
too long for its caller's buffer is an "overrun" of `Format`. -INT_MIN is
INT_MIN again, as the build has it.

Scan codes: 0xE0 is taken for the release of a key, because that test comes
first, so a grey key is its namesake on the main block. The shift codes that
keyboards put around grey keys while Num Lock is on are not modelled.

## 3. What the runs check

Each run finishes in under three minutes. *pass* runs:

| Run | Instance | Shows |
|---|---|---|
| `bkfs` | 4 entries beside the slot skipped at boot, 3 names and one that is refused, 4 blocks, files of 2 blocks and a text that is too long | `EntriesMatchInodes`, `ParentsFirst`, `NamesUnique` over all creations, removals and directory changes: deep enough for a removal in the middle of two levels. Blocks do run out in the middle of a write, so `LeakOnlyBlockZero`, `SoundUntilFailure` and `BlockAccounting` say what a failed write leaves true; `WritesFit`: they never do while there is one file only, which is what four blocks have room for |
| `bkfs_store` | 5 blocks: as many as 2 files need and one to lose | `ImplementsStore`, the refinement of `FileStore` |
| `shell_boot` | the constants of `pring.h` and the calls of `kernel_main`; then two terminals walk about the directories made | `BootEndsInInit`: `BkFS!Init` is where boot really ends; the second "fetch" is refused. `ImplementsReaders`: logins, exits, waiting commands and switches do what `Readers` says |
| `shell` | two terminals, two entries beside the root, all commands but `exit`, `pause` and `cat >` | `CommandsAreCalls`: on any terminal each command is a sequence of `BkFS` steps, so the theorems apply to it, until `rm -rf` takes away a directory that has entries or that another terminal is in (the history variable `tree_cut`). `WalkEnds`: until then the walks of the prompt and of `pwd` end, and overrun the path's buffer only if there are more directories than are sure to fit it; `WalksDescend`: each pass goes to a lower slot, which is why they end; `PathLeadsBack`: the path they show is the one by which `cd` gets from the root to the working directory. `TablesSurvive`: what remains true even after it; `free_inodes` is then only bounded from below, because `rm -rf` may delete a slot a second time |
| `shell_append` | a buffer of one block, texts of 0 and 1, two files | `CommandsFit`: repeated `echo >>`, and `cat >`, never run out of blocks |
| `console` | 2 terminals, names of one character, a command buffer of 3, history of 2, 3 commands entered, all keys with at most 2 modifiers held | `ShellServesLoggedIn`, `LinesFit`, `HistoryIsRecent` for everything that can be typed, `NoStuckModifier`; `ImplementsSession`: the driver gives readers only characters, whatever lies behind its maps; `ImplementsReaders`. The line buffer and the history are both filled beyond their limit |
| `terminal` | 2 screens of 2 by 2, 3 rows written between clears | `ScreensShowPages`, `KeepsOtherScreens`; every wrap, scroll and erasure over a wrap happens |
| `command` | the real sizes (31, 256, 256) and an array of 6 words; every line of up to 6 words over commands, operators and arguments, with spaces before, between and after; words of 30, 31, 234, 235 and 250 characters, redirected texts of up to 248; clock bytes 0 and 9, 0x59 as the largest minute, and 0x92, an hour with the bit of the afternoon | `WordsAreTyped`, `RedirectsGiven`, `NumbersPrinted`, `NumbersFit`, `ShortStringsCopied`, and the liveness property `LinesAnswered`: a message of 255 characters is printed, one of 256 need not be |
| `disk` | devices of 2, 3 and 30 blocks and two of a word more than 2 and 30, the real sizes of block and inode | `InfoWhileMounted`, `UnmountFreesOnce`, `NothingLeftBehind`, `CountsMatchDevice`, with failures at every step and what a corrupt allocator may do |

*violation* runs show where the code and what the repository says of it differ:

| Run | Property | What happens |
|---|---|---|
| `shell_rm_scope` | `RmRemovesOnlyIt` | `execute_rm` looks the names of the children of d up in the working directory, so `rm -rf d` removes a namesake outside d |
| `strncpy_long` | `AtMostN` | with a string of n characters or more n wraps and zeroes are written beyond the field |
| `disk_free` | `NoDoubleFree` | a mount that fails after its first allocation frees the superblock's private data twice |

The premises of the passing properties are tight, and a reader should know what
lies beyond them:

* without `~write_failed`, `SoundUntilFailure` fails: a write that runs out of
  blocks leaves its inode listing freed ones, and the next write gives them to a
  second file. `CommandsFit` says that the shell's own commands stay below that.
  It rests on `execute_cat_redirect` never copying anything: `execute_command`
  calls it for a line of three words, "cat > name", with the operator in the
  place of the source, and no file can be called that; "cat a > b" is refused
  with the usage message that describes it;
* without `~tree_cut`, `WalkEnds` fails: when the working directory has been
  removed from another terminal no entry has its inode, and the prompt's loop
  never ends. So does the loop of `rm -rf` itself, on a directory with an entry
  whose name is not found in the working directory, and a removal that does end
  can leave entries whose directory is gone;
* `PathLeadsBack`, `WalksDescend` and `WalkEnds` share that premise, and the last
  two allow for the overrun once there are more directories than are sure to fit a path:
  directories nested deeply enough with long names do overrun `MAX_PATH_LEN`;
* `WritesFit` has the premise `FewFiles`: with the sizes of `pring.h` 85 regular
  files always find their blocks, and the table has room for more than that.
  `CommandsFit` has the bound that the shell's own texts give;
* without `~MayNotReturn`, `LinesAnswered` fails in each of the ways it lists:
  `rm -rf` of a directory may never return; `echo >>` may overfill the buffer of
  `execute_append_output`; `touch`, `mkdir` or `echo >` with a name of 31
  characters or more makes `strncpy` write zeroes far beyond its field (see
  `strncpy_long`); and `cat`, `rm`, `dhcpcd` or `ping` with a word of 235 or more
  may overrun `terminal_printf`'s buffer. `NumbersPrinted` excepts INT_MIN, which
  `kill` prints as "-" and characters below '0';
* `WordsAreTyped` says what happens to the tenth word: nothing, it is dropped
  with all after it. The model also shows what no property forbids: `echo`
  without a redirection prints its words as they were typed, with a redirection
  in lower case;
* `ShellServesLoggedIn` cannot be turned round: after a switch to a terminal
  without a login and back, the keys go to the login prompt, not to the shell;
* `InfoWhileMounted` and `CountsMatchDevice` hold until memory is freed twice, and
  every failed mount does that (`disk_free`). Without the premise both fail:
  somebody else may free the private data of a later mount, or write to it, and
  `sync_fs` then writes the wrong counters to the device (the history variable
  `spoilt`). `UnmountFreesOnce` says that nothing else frees memory twice;
* `CountsMatchDevice` says of the free blocks what they should be where the inode
  table fits, and that they wrap round, to more than there are, on a device of 3
  to 25 blocks. It says nothing of the order of mkfs's writes: mkfs has no fsync,
  so a device can have its superblock and no root inode, and mounts. The root
  inode mkfs writes is in slot 0 of block 1 anyway, while the driver reads slot
  2, so `root` is never "dir". mkfs and `sync_fs` may write block 0 in any order
  because both write what follows from the size of the device.

**Bounds.** `MaxFreeBlocks` (a counter that only grows once a write has failed),
`MaxFrames` (calls of `execute_rm` that fit the stack; the code has no limit),
`MaxLog` (commands entered), `MaxHeld` (modifiers down at a time; 2 is enough
for both keys of one flag and for keys of two), `MaxRows` (rows between two
clears). `SureNames` and `MaxNames` are 8 and 127 for `MAX_PATH_LEN`; the run
`shell` has 1 and 2, so that a path of two names may overrun. The tables
are small enough for TLC and large enough for each limit to be met: the runs
fill every table. `WORD` is 2^16 where the code has 2^32 or 2^64, as TLC's
integers are 32 bits wide; only wrapping below zero matters.
`INT_MAX` is 2^15 - 1 for the same reason; `int_to_str` treats every digit
alike. `MCTexts` permutes texts, which are only copied and compared.

**Deadlock** is checked except where the machine really stops: the shell and the
command line after an overrun, the command line while `rm -rf` does not return, `strncpy` alone when it has returned.

**Fairness.** `ShellFairness`, `CommandSpec` and `CopySpec` have weak fairness
on the steps that wait for no key: there is one processor, nothing else runs, and it goes on
executing. Nothing is assumed of users. No other module has liveness.

## 4. What is proved

Every invariant, action property and refinement of the passing runs is also a
theorem. The theorems hold for every value of the
constants that the named ASSUMEs allow; TLC evaluates those on the runs, and
`shell_boot` uses the values of `pring.h`. Further hypotheses are in the
statements and are named below.

| Module | Theorem | States |
|---|---|---|
| `BkFSProofs` | `TypeCorrect`, `TreeCorrect`, `EntriesCorrect`, `NamesCorrect` | `TypeOK`; `EntriesMatchInodes`, `ParentsFirst`, `NamesUnique` |
| | `StorageCorrect`, `LeakCorrect` | `LeakOnlyBlockZero`, `SoundUntilFailure` |
| `StoreProofs` | `AccountingCorrect`, `WritesCorrect` | `BlockAccounting`, `WritesFit` |
| | `StoreUntilFailure`, `StoreCorrect` | `ImplementsStore` until a write runs out of blocks, and always if there are never more files than the blocks have room for |
| `ShellProofs` | `ShellTypeCorrect`, `BootCorrect`, `TablesCorrect` | `ShellTypeOK`, `BootEndsInInit`, `TablesSurvive` |
| | `CommandsCorrect`, `UncutTree`, `PathCorrect`, `WalksCorrect` | `CommandsAreCalls`, the properties of the tree until `tree_cut`, `PathLeadsBack`, `WalksDescend` |
| | `BlocksCorrect`, `FitCorrect`, `ShellIsReaders` | the block properties and `CommandsFit` of the shell, `ImplementsReaders` |
| `ConsoleProofs` | `SessionTypeCorrect`, `ShellsCorrect`, `LinesCorrect`, `HistoryCorrect`, `ModifiersCorrect` | `SessionTypeOK`, `ShellServesLoggedIn`, `LinesFit`, `HistoryIsRecent`, `NoStuckModifier` |
| | `SessionIsReaders`, `ConsoleIsSession`, `ConsoleIsReaders` | `ImplementsReaders`, `ImplementsSession` |
| `CommandProofs` | `WordsCorrect`, `RedirectsCorrect` | `WordsAreTyped`, `RedirectsGiven` |
| | `FitsCorrect`, `PrintedCorrect` | `NumbersFit`, `NumbersPrinted` |
| `StringCopyProofs` | `CopyCorrect`, `CopyTypeCorrect` | `ShortStringsCopied`, `CopyTypeOK` |
| `TerminalProofs` | `ScreensCorrect`, `TerminalTypeCorrect`, `TerminalsApart` | `ScreensShowPages`, `TerminalTypeOK`, `KeepsOtherScreens` |
| `BkfsDiskProofs` | `DiskTypeCorrect`, `InfoCorrect`, `FreesCorrect`, `UnloadCorrect`, `CountsCorrect` | `DiskTypeOK`, `InfoWhileMounted`, `UnmountFreesOnce`, `NothingLeftBehind`, `CountsMatchDevice` |

**bkFS.** `Tree` puts three properties together, because none is inductive
alone: that an inode taken is unlisted needs the correspondence of entries and
inodes; that the removal of slot k leaves every other parent in place needs that
parents come first; that the name check in the working directory suffices needs
that callers create there. `Storage` says of *every* inode, not of the files
only, what it lists: a new inode must list nothing, so free inodes must.
`BlockAccounting` follows from counting: freeing a file adds the number of
positions of its list, and until a write fails these hold different used blocks
(`SoundUntilFailure`), so that this is the number of blocks freed. For
`WritesFit` the blocks that a write finds free are counted from below: no
directory has blocks (`DirsEmpty`), every other file but the one written has at
most `INODE_DIRECT_BLOCKS`, and one block, 0, may be lost (`RoomForFiles`). The
files counted are those there are, not those the table could hold, so `FewFiles`
is a condition on the state: it holds with `pring.h` until there are 86 regular
files, whatever else is in the tables. `StoreCorrect` follows from it and
`StoreUntilFailure`, which needs no bound.

**Shell.** `ShellInv` is stronger than `TablesSurvive` in what makes the latter
true. `Rooted` also speaks of the slots behind the last entry, because the slot
that a call of `execute_rm` remembers over its recursion may be one of them when
the call comes to delete it: no slot but the root's own may hold inode 1. A call
that has the root's slot never leaves its loop (`Frame`). `Stored` is what is left of `Storage` and of
the counting, and `Control` relates `mode`, the stack of calls and the values
kept across steps. `BootCorrect` is an induction over the calls of
`kernel_main`: `Booted(b)` describes the tables after b calls in closed form, and
`BootAssumption` says of the calls what they must satisfy to make `BootTable`.
Until `tree_cut`, `UncutInv` has the tree (`Tree`), the directories that
terminals are in (`InUse`) and that `rm -rf` still has the slot it has found and
is at its first entry (`Remembered`): a recursion would cut the tree; `CommandsAreCalls` needs it because a call
is a step of `BkFS` only if its directory exists. `PathInv` says that the names
put together so far lead from where the walk is, a directory, to the working
directory; a step up adds a name by which `cd` comes down again, because names
are unique. `WalkInv` counts: the names in the path are no more than the
directories in the slots behind that of `walk`. A parent's slot comes first, so a
pass leaves one more directory behind, and a path of `SureNames` names with one to
come is proof of more directories than that (`WalksCorrect`, the safety part of
`WalkEnds`). `SizesAssumption` says that
`Sizes` has every size the commands pass on, `OperatorAssumption` that no file
is called like an operator, as `is_valid_filename` refuses its character.

**Console.** The properties of `Session` are inductive only together
(`SessionInv`): a recalled line fits because the lines in the history do, and
there is one because `history_pos` stays inside. The ring equals the last
`HISTORY_SIZE` commands by an argument on `SubSeq` and `Tail`. Every step of
`Console` is one of `Session` or none, because the driver gives bytes only
(`ConsoleAssumption`), and thus has its properties.

**Command line.** `WordsAreTyped` is about a loop that destroys what it reads.
`SplitInv` says: from `token` on the copy is the line still; before it, every
place where a word begins is in `args`, in order, and the word there is whole and
ends with a zero at or before `token`. `CommandAssumption` says that lower case
changes no spaces and makes neither spaces nor zeroes, and that lines have no zero
inside.

For `RedirectsGiven`, the first word of `args` is the first typed, and so on
(`PlaceOf`, by counting the places where words begin), so that position
`redirect_pos` among the words of the copy is that among the words of the line.
The text strcat makes is a `Sentence`: words with one space
between them, none at its ends. It is never longer than the part of the line that
its words are taken from, and so fits (`JoinedSentence`).

For `NumbersPrinted`, `PrintInv` says: while digits are written, those written,
backwards, behind the digits of what is left of the number, are the digits of the
number; while they are exchanged, the pairs outside `start` are in their final
place and those inside still in the opposite one. What stands in front of `from`
is the numbers before this one with their dots.

`Decimal`, `Listed` and `Joined`, with which the results are compared, are recursive
functions. That they satisfy their equations, and what follows for every
argument, is proved by induction stated with sets instead of operators
(`Induction`, `Recursion`), which the provers can instantiate.

For `NumbersFit`, `FitInv` bounds the number being converted by a power of ten:
as many digits as can still come find room, together with sign, zero, dots and
the numbers behind it. This needs that an int has at most 32 bits
(`FormatAssumption`) and `DecimalClock`: the clock's bytes are decimal. The code relies on that
without a check; a byte such as 0xFF would give 165, one character too long for
a buffer of three.

**The rest.** `strncpy`: n and the position add up to the n of the call until
the last decrement. Terminal: the invariant is its own strengthening; the work
is in the arithmetic of "the last SCREEN_HEIGHT rows". Disk: `DiskInv` says what
every step of a mount leaves to the next while the heap is sound, and that until
counters out of a corrupt one were written back (`spoilt`) block 0, in the cache
and on the device, never has the magic number without the counters that go with
it.

**Only model-checked.** Liveness (`WalkEnds`, `LinesAnswered`) is beyond the
prover: it would need fairness and ENABLED. Of `WalkEnds` the safety part is
proved (`WalksCorrect`). `NumbersFit` without `DecimalClock` is false.

## 5. What is not modelled

The mouse (never enabled), the heap (only the unused `strdup` calls it), the
boot loaders (straight-line assembly), sound, timer and the information
commands `mem`, `lsblk`, `uptime`, `fetch`, `info` beyond their waiting for a
key, `poweroff` and `reboot` (registers are read or written and text is
printed), `sys_fork`, `sys_exit` and the loops of `send_signal` (never reached
with a process), and the two libraries that are not built.

Of modelled parts: the growth of the stack by nested readers, which has no bound
in the code (every login, exit and switch to a terminal without a login adds a
frame for good), `cat` of a file beyond its first block, colours, and the
commands' messages.

## 6. Plan

1. Done: bkFS with its store; shell with paths, logins and waiting commands;
   command line, numbers, network; keyboard, sessions and the console they form;
   the readers both halves implement; terminal; `strncpy`; disk. Proofs of all
   safety properties and of all refinements.
2. Next: what `ShortStringsCopied` and `NumbersFit` give the message lengths of
   `terminal_printf`; the safety part of `LinesAnswered`, that no step of a line
   outside `MayNotReturn` overruns a buffer; a bound on the readers' nested calls,
   once the code has one.
