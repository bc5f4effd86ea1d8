-------------------------------- MODULE BkFS --------------------------------
(***************************************************************************)
(* The in-memory file system bkFS of the Srunix86 kernel (src/fs/bkfs.h):  *)
(* a table of directory entries, a table of inodes, a block bitmap and two *)
(* free counters.  The kernel runs with interrupts off and has one thread, *)
(* so every fs_* function is one action.                                   *)
(*                                                                         *)
(* Arrays of the C code are functions.  files[] is kept as the code keeps  *)
(* it: an array of MAX_FILES slots and a count, with deletion shifting the *)
(* tail down.  Slot k here is slot k-1 of the code; inode number n is the  *)
(* element n-1 of inodes[]; block numbers start at 0 as in the code.       *)
(* The time stamps, uid and gid of an inode and the size field of a        *)
(* directory entry are never read and are left out.                        *)
(***************************************************************************)
EXTENDS Integers, Sequences, FiniteSets

CONSTANTS
  MAX_FILES,            \* slots of files[]                 (128 in pring.h)
  MAX_INODES,           \* elements of inodes[]             (128)
  MAX_BLOCKS,           \* data blocks                      (1024)
  INODE_DIRECT_BLOCKS,  \* block numbers held by an inode   (12)
  BLOCK_SIZE,           \* bytes in a block                 (1024)
  InitFileCount,        \* initial value of file_count      (5)
  BootTable,            \* the entries kernel_main creates, in order
  Names,                \* the names callers pass, of up to 30 characters
  InvalidNames,         \* those that is_valid_filename refuses
  Data,                 \* what callers write: one value per distinct text
  Sizes                 \* the byte counts callers pass to fs_write_file

FILE_REGULAR == "regular"
FILE_DIR     == "dir"
FS_SUCCESS   == "FS_SUCCESS"
FS_ERROR     == "FS_ERROR"

Types    == {FILE_REGULAR, FILE_DIR}
Slots    == 1..MAX_FILES
Inodes   == 1..MAX_INODES
Blocks   == 0..(MAX_BLOCKS - 1)
Direct   == 1..INODE_DIRECT_BLOCKS
BootSize == Len(BootTable)

(* The sizes of the tables.  The last two lines hold for the values in     *)
(* pring.h and prdio.h: 5 entries of files[] are taken before the first    *)
(* one is created, so entries run out before inodes do.                    *)
ASSUME TableSizes ==
  /\ MAX_FILES \in Nat /\ MAX_INODES \in Nat
  /\ MAX_BLOCKS \in Nat \ {0}
  /\ INODE_DIRECT_BLOCKS \in Nat \ {0}
  /\ BLOCK_SIZE \in Nat \ {0}
  /\ InitFileCount \in Nat \ {0}
  /\ MAX_FILES - InitFileCount <= MAX_INODES

(* The table left by kernel_main: entry i has inode i, the first entry is  *)
(* the root directory and its own parent, every other entry comes after    *)
(* its parent, which is a directory, and no directory has two entries of   *)
(* one name.                                                               *)
ASSUME BootTableAssumption ==
  /\ BootTable \in Seq([name : Names, parent_inode : Inodes, type : Types])
  /\ BootSize >= 1
  /\ InitFileCount + BootSize <= MAX_FILES
  /\ BootTable[1].parent_inode = 1 /\ BootTable[1].type = FILE_DIR
  /\ \A i \in 1..BootSize :
        /\ i > 1 => BootTable[i].parent_inode \in 1..(i - 1)
        /\ BootTable[BootTable[i].parent_inode].type = FILE_DIR
  /\ \A i, j \in 1..BootSize :
        /\ BootTable[i].name = BootTable[j].name
        /\ BootTable[i].parent_inode = BootTable[j].parent_inode
        => i = j

ASSUME InputAssumption == InvalidNames \subseteq Names /\ Sizes \subseteq Nat

VARIABLES
  inodes, blocks, block_used, free_blocks, free_inodes,
  files, file_count,
  current_inode,   \* the working directory
  ret,             \* what the last fs_* call returned
  write_failed     \* history: fs_write_file has run out of blocks before

tables  == <<inodes, blocks, block_used, free_blocks, free_inodes,
             files, file_count>>
fs_vars == <<tables, current_inode, ret, write_failed>>

-----------------------------------------------------------------------------
(* State                                                                   *)

\* A zeroed inode; mode "free" is mode == 0.
EmptyInode == [mode |-> "free", size |-> 0, blocks |-> 0,
               block |-> [i \in Direct |-> 0]]

NewInode(type) == [EmptyInode EXCEPT !.mode = type]

\* A zeroed slot of files[].
EmptyEntry == [inode |-> 0, name |-> "", parent_inode |-> 0,
               type |-> FILE_REGULAR]

\* A block holds the chunk of a text last copied to it; what is beyond the
\* size of the file in its last block is never read.
\* What is in a block nobody has written: zeroes.
NoData == [data |-> "zeroes", chunk |-> 0]

Inode == [mode : Types \cup {"free"}, size : Nat,
          blocks : 0..INODE_DIRECT_BLOCKS, block : [Direct -> Blocks]]

File == [inode : 0..MAX_INODES, name : Names \cup {""},
         parent_inode : 0..MAX_INODES, type : Types]

Block == [data : Data, chunk : Direct] \cup {NoData}

TypeOK ==
  /\ inodes \in [Inodes -> Inode]
  /\ blocks \in [Blocks -> Block]
  /\ block_used \in [Blocks -> BOOLEAN]
  /\ free_blocks \in Nat /\ free_inodes \in Nat
  /\ files \in [Slots -> File]
  /\ file_count \in 0..MAX_FILES
  /\ current_inode \in Inodes
  /\ ret \in {FS_SUCCESS, FS_ERROR}
  /\ write_failed \in BOOLEAN

Init ==
  /\ files = [k \in Slots |->
                IF k \in (InitFileCount + 1)..(InitFileCount + BootSize)
                THEN LET i == k - InitFileCount
                     IN  [inode        |-> i,
                          name         |-> BootTable[i].name,
                          parent_inode |-> BootTable[i].parent_inode,
                          type         |-> BootTable[i].type]
                ELSE EmptyEntry]
  /\ file_count = InitFileCount + BootSize
  /\ inodes = [n \in Inodes |-> IF n <= BootSize
                                THEN NewInode(BootTable[n].type)
                                ELSE EmptyInode]
  /\ free_inodes = MAX_INODES - BootSize
  /\ blocks = [b \in Blocks |-> NoData]
  /\ block_used = [b \in Blocks |-> FALSE]
  /\ free_blocks = MAX_BLOCKS
  /\ current_inode = 1
  /\ ret \in {FS_SUCCESS, FS_ERROR}
  /\ write_failed = FALSE

-----------------------------------------------------------------------------
(* Helpers                                                                 *)

IsLowest(x, S) == x \in S /\ \A y \in S : x <= y

is_valid_filename(name) == name \notin InvalidNames

\* The slots in use whose entry satisfies the three-way test of the lookups.
InDir(dir, name) ==
  {k \in 1..file_count : files[k].parent_inode = dir /\ files[k].name = name}

file_exists_in_current_dir_SkipsLast(name) ==
  \E k \in InDir(current_inode, name) : k < file_count

file_exists_in_current_dir(name) == InDir(current_inode, name) # {}

FreeInodes == {n \in Inodes : inodes[n].mode = "free"}

\* fs_alloc_inode finds inode n.
fs_alloc_inode(n) == free_inodes # 0 /\ IsLowest(n, FreeInodes)

Held_SkipsLast(n) == {i \in 1..(inodes[n].blocks - 1) : inodes[n].block[i] # 0}

\* The positions of inode n's block list that the loops over it free: block
\* number 0 is taken for "no block".
Held(n) == {i \in 1..inodes[n].blocks : inodes[n].block[i] # 0}

\* block_used and free_blocks after fs_free_block on each of them.
UsedAfterFree(n) ==
  [b \in Blocks |-> block_used[b] /\ \A i \in Held(n) : inodes[n].block[i] # b]

FreeAfterFree_CountsAll(n) == free_blocks + inodes[n].blocks

FreeAfterFree(n) == free_blocks + Cardinality(Held(n))

AllocRun_NotMarked(g, used, free) ==
  \A i \in DOMAIN g :
    /\ i <= free
    /\ \A b \in Blocks : ~used[b] => g[i] <= b

\* g lists the blocks that successive calls of fs_alloc_block return, from
\* a bitmap `used' and a counter `free': always the lowest free block.
AllocRun(g, used, free) ==
  \A i \in DOMAIN g :
    /\ i <= free
    /\ \A j \in 1..(i - 1) : g[j] # g[i]
    /\ \A b \in Blocks :
         ~used[b] /\ b < g[i] => \E j \in 1..(i - 1) : g[j] = b

\* After the calls listed in g, fs_alloc_block returns -1.
Exhausted(g, used, free) ==
  \/ free = Cardinality(DOMAIN g)
  \/ \A b \in Blocks : used[b] \/ \E j \in DOMAIN g : g[j] = b

\* Callers pass sizes far below 2^32, so the sum is not reduced.
BlocksNeeded(size) == (size + BLOCK_SIZE - 1) \div BLOCK_SIZE

TooLarge_OneOver(size) == BlocksNeeded(size) > INODE_DIRECT_BLOCKS + 1

TooLarge(size) == BlocksNeeded(size) > INODE_DIRECT_BLOCKS

-----------------------------------------------------------------------------
(* The functions of bkfs.h                                                 *)

\* The four early returns.  The name is looked up in the working directory,
\* whatever the parent is.
CanCreate(name) ==
  /\ is_valid_filename(name)
  /\ ~file_exists_in_current_dir(name)
  /\ file_count < MAX_FILES
  /\ \E n \in Inodes : fs_alloc_inode(n)

fs_create_file(name, parent, type) ==
  \/ /\ ~CanCreate(name)
     /\ ret' = FS_ERROR
     /\ UNCHANGED <<tables, current_inode, write_failed>>
  \/ /\ CanCreate(name)
     /\ \E n \in Inodes :
          /\ fs_alloc_inode(n)
          /\ files' = [files EXCEPT ![file_count + 1] =
                         [inode |-> n, name |-> name,
                          parent_inode |-> parent, type |-> type]]
          /\ inodes' = [inodes EXCEPT ![n] = NewInode(type)]
     /\ file_count' = file_count + 1
     /\ free_inodes' = free_inodes - 1
     /\ ret' = FS_SUCCESS
     /\ UNCHANGED <<blocks, block_used, free_blocks, current_inode,
                    write_failed>>

RemoveEntry_StopsEarly(n) ==
  LET hits == {k \in 1..file_count : files[k].inode = n}
  IN  \E k \in hits :
        /\ files' = [j \in Slots |-> IF j \in k..(file_count - 2)
                                     THEN files[j + 1] ELSE files[j]]
        /\ file_count' = file_count - 1

RemoveEntry_MovesLast(n) ==
  LET hits == {k \in 1..file_count : files[k].inode = n}
  IN  \E k \in hits :
        /\ files' = [files EXCEPT ![k] = files[file_count]]
        /\ file_count' = file_count - 1

\* Drop the first entry of inode n by moving the later ones down a slot.
RemoveEntry(n) ==
  LET hits == {k \in 1..file_count : files[k].inode = n}
  IN  /\ hits = {} => UNCHANGED <<files, file_count>>
      /\ hits # {} =>
           \E k \in hits :
             /\ IsLowest(k, hits)
             /\ files' = [j \in Slots |-> IF j \in k..(file_count - 1)
                                          THEN files[j + 1] ELSE files[j]]
             /\ file_count' = file_count - 1

\* The panic for file_count == 0 only prints.
fs_delete_file(n) ==
  \/ /\ n \notin Inodes
     /\ ret' = FS_ERROR
     /\ UNCHANGED <<tables, current_inode, write_failed>>
  \/ /\ n \in Inodes
     /\ block_used' = UsedAfterFree(n)
     /\ free_blocks' = FreeAfterFree(n)
     /\ RemoveEntry(n)
     /\ inodes' = [inodes EXCEPT ![n] = EmptyInode]
     /\ free_inodes' = free_inodes + 1
     /\ ret' = FS_SUCCESS
     /\ UNCHANGED <<blocks, current_inode, write_failed>>

WriteBlocks_NoOffset(n, data, size, g) ==
  /\ block_used' = [b \in Blocks |->
                      UsedAfterFree(n)[b] \/ \E i \in DOMAIN g : g[i] = b]
  /\ free_blocks' = FreeAfterFree(n) - BlocksNeeded(size)
  /\ inodes' = [inodes EXCEPT ![n] =
                  [mode   |-> inodes[n].mode,
                   size   |-> size,
                   blocks |-> BlocksNeeded(size),
                   block  |-> [i \in Direct |-> IF i \in DOMAIN g THEN g[i]
                                                ELSE inodes[n].block[i]]]]
  /\ blocks' = [b \in Blocks |->
                  IF \E i \in DOMAIN g : g[i] = b
                  THEN [data |-> data, chunk |-> 1]
                  ELSE blocks[b]]
  /\ ret' = FS_SUCCESS
  /\ UNCHANGED write_failed

\* All the blocks came: they are marked, listed in the inode and filled.
WriteBlocks(n, data, size, g) ==
  /\ block_used' = [b \in Blocks |->
                      UsedAfterFree(n)[b] \/ \E i \in DOMAIN g : g[i] = b]
  /\ free_blocks' = FreeAfterFree(n) - BlocksNeeded(size)
  /\ inodes' = [inodes EXCEPT ![n] =
                  [mode   |-> inodes[n].mode,
                   size   |-> size,
                   blocks |-> BlocksNeeded(size),
                   block  |-> [i \in Direct |-> IF i \in DOMAIN g THEN g[i]
                                                ELSE inodes[n].block[i]]]]
  /\ blocks' = [b \in Blocks |->
                  IF \E i \in DOMAIN g : g[i] = b
                  THEN [data  |-> data,
                        chunk |-> CHOOSE i \in DOMAIN g : g[i] = b]
                  ELSE blocks[b]]
  /\ ret' = FS_SUCCESS
  /\ UNCHANGED write_failed

\* fs_alloc_block failed: the new blocks are freed again, but the inode keeps
\* its count and size, over a block list partly overwritten.
WriteRollback(n, g) ==
  /\ block_used' = UsedAfterFree(n)
  /\ free_blocks' = FreeAfterFree(n)
  /\ inodes' = [inodes EXCEPT ![n].block =
                  [i \in Direct |-> IF i \in DOMAIN g THEN g[i] ELSE @[i]]]
  /\ ret' = FS_ERROR
  /\ write_failed' = TRUE
  /\ UNCHANGED blocks

fs_write_file(n, data, size) ==
  /\ UNCHANGED <<free_inodes, files, file_count, current_inode>>
  /\ \/ /\ n \notin Inodes \/ TooLarge(size)
        /\ ret' = FS_ERROR
        /\ UNCHANGED <<inodes, blocks, block_used, free_blocks, write_failed>>
     \/ /\ n \in Inodes
        /\ ~TooLarge(size)
        /\ \E k \in 0..BlocksNeeded(size) :
             \E g \in [1..k -> {b \in Blocks : ~UsedAfterFree(n)[b]}] :
               /\ AllocRun(g, UsedAfterFree(n), FreeAfterFree(n))
               /\ \/ k = BlocksNeeded(size) /\ WriteBlocks(n, data, size, g)
                  \/ /\ k < BlocksNeeded(size)
                     /\ Exhausted(g, UsedAfterFree(n), FreeAfterFree(n))
                     /\ WriteRollback(n, g)

\* What fs_read_file(n, buffer, size) puts in the buffer: the byte count it
\* returns and the blocks copied.  (It also sets atime, which nothing reads.)
fs_read_file(n, size) ==
  LET count == IF size > inodes[n].size THEN inodes[n].size ELSE size
      last  == IF BlocksNeeded(count) > inodes[n].blocks
               THEN inodes[n].blocks ELSE BlocksNeeded(count)
  IN  [size |-> count,
       data |-> [i \in 1..last |-> blocks[inodes[n].block[i]]]]

fs_change_dir(n) ==
  /\ \/ /\ \E k \in 1..file_count : files[k].inode = n /\ files[k].type = FILE_DIR
        /\ current_inode' = n
        /\ ret' = FS_SUCCESS
     \/ /\ ~ \E k \in 1..file_count :
              files[k].inode = n /\ files[k].type = FILE_DIR
        /\ ret' = FS_ERROR
        /\ UNCHANGED current_inode
  /\ UNCHANGED <<tables, write_failed>>

-----------------------------------------------------------------------------
(* The callers.  mkfile and mkdir create in the working directory; rm      *)
(* deletes an entry of the working directory, a directory only once it is  *)
(* empty; the redirections write regular files of the working directory.   *)
(* Inode number 0 stands for the numbers the range checks refuse.          *)

HasChild(n) == \E k \in 1..file_count : files[k].parent_inode = n

Create(name, type) == fs_create_file(name, current_inode, type)

Remove(n) ==
  /\ n \in Inodes => /\ \E k \in 1..file_count :
                           /\ files[k].inode = n
                           /\ files[k].parent_inode = current_inode
                     /\ ~HasChild(n)
  /\ fs_delete_file(n)

Write(n, data, size) ==
  /\ n \in Inodes => \E k \in 1..file_count :
                        /\ files[k].inode = n
                        /\ files[k].parent_inode = current_inode
                        /\ files[k].type = FILE_REGULAR
  /\ fs_write_file(n, data, size)

Next ==
  \/ \E name \in Names, type \in Types : Create(name, type)
  \/ \E n \in {0} \cup Inodes : Remove(n)
  \/ \E n \in {0} \cup Inodes, data \in Data, size \in Sizes : Write(n, data, size)
  \/ \E n \in Inodes : fs_change_dir(n)

Spec == Init /\ [][Next]_fs_vars

-----------------------------------------------------------------------------
(* Properties                                                              *)

Live == (InitFileCount + 1)..file_count

\* The slots in use beyond the first InitFileCount and the inodes in use
\* correspond one to one, with the same type.  The slots skipped by the initial
\* value of file_count keep inode 0.
SlotsMatchInodes ==
  /\ InitFileCount < file_count
  /\ \A k \in 1..InitFileCount : files[k] = EmptyEntry
  /\ \A k \in Live : /\ files[k].inode \in Inodes
                     /\ inodes[files[k].inode].mode = files[k].type
  /\ \A k, l \in Live : files[k].inode = files[l].inode => k = l
  /\ \A n \in Inodes : inodes[n].mode # "free" =>
                       \E k \in Live : files[k].inode = n

\* fs_create_file and fs_delete_file update the three tables separately: slots
\* and inodes in use correspond, and free_inodes counts the rest.
EntriesMatchInodes ==
  /\ SlotsMatchInodes
  /\ free_inodes = MAX_INODES - (file_count - InitFileCount)

\* The first live entry is the root directory, its own parent; every other
\* entry comes after its parent's, which is a directory; the working
\* directory is a live directory.  So the walk from a directory to inode 1
\* that pwd, the prompt and cd make ends: it goes to lower slots.
ParentsFirst ==
  /\ files[InitFileCount + 1].inode = 1
  /\ files[InitFileCount + 1].parent_inode = 1
  /\ \A k \in Live : k > InitFileCount + 1 =>
       \E l \in Live : /\ l < k
                       /\ files[l].inode = files[k].parent_inode
                       /\ files[l].type = FILE_DIR
  /\ inodes[1].mode = FILE_DIR
  /\ inodes[current_inode].mode = FILE_DIR

\* No directory has two entries of one name: a lookup finds the only match.
\* The check of fs_create_file is made in the working directory only.
NamesUnique ==
  \A k, l \in Live :
    /\ files[k].name = files[l].name
    /\ files[k].parent_inode = files[l].parent_inode
    => k = l

Lists(n, b) == \E i \in 1..inodes[n].blocks : inodes[n].block[i] = b

\* A block marked used belongs to an inode, except block 0, which the code
\* takes for "no block" and never frees; free inodes list nothing.  Holds
\* even after failed writes: blocks are lost at one place only.
LeakOnlyBlockZero ==
  /\ \A b \in Blocks : block_used[b] /\ b # 0 => \E n \in Inodes : Lists(n, b)
  /\ \A n \in Inodes : inodes[n].mode = "free" => inodes[n].blocks = 0

\* No block is listed twice, in one inode or in two.
NoSharedBlocks ==
  \A n, m \in Inodes :
    \A i \in 1..inodes[n].blocks, j \in 1..inodes[m].blocks :
      inodes[n].block[i] = inodes[m].block[j] => n = m /\ i = j

\* As long as no write has run out of blocks, every listed block is marked
\* used and none is listed twice: files do not share storage, however
\* creations, deletions and rewrites alternate.
SoundUntilFailure ==
  ~write_failed =>
    /\ \A n \in Inodes : \A i \in 1..inodes[n].blocks :
         block_used[inodes[n].block[i]]
    /\ NoSharedBlocks

\* free_blocks never falls below the number of free blocks, and equals it
\* until a write fails; so fs_alloc_block refuses only when the map is full.
BlockAccounting ==
  LET unused == Cardinality({b \in Blocks : ~block_used[b]})
  IN  /\ free_blocks >= unused
      /\ ~write_failed => free_blocks = unused

RegularInodes == {n \in Inodes : inodes[n].mode = FILE_REGULAR}

\* There is room for INODE_DIRECT_BLOCKS blocks in every regular file there
\* is, and for one block to lose (block 0): 85 files with the sizes of pring.h.
FewFiles ==
  Cardinality(RegularInodes) * INODE_DIRECT_BLOCKS + 1 <= MAX_BLOCKS

\* With no more files than that no write runs out of blocks, whatever has
\* been created, removed, written and rewritten before, and however many
\* directories there are: fs_write_file gives the old blocks back before it
\* takes new ones, and no more than block 0 is ever lost.
WritesFit ==
  [][FewFiles /\ ~write_failed => ~write_failed']_fs_vars

-----------------------------------------------------------------------------
(* The store that the tables represent                                     *)

LiveInodes == {files[k].inode : k \in Live}

SlotOf(n) == CHOOSE k \in Live : files[k].inode = n

\* What a caller sees of inode n: its entry, and what reading it in full
\* returns.
EntryOf(n) ==
  [name     |-> files[SlotOf(n)].name,
   parent   |-> files[SlotOf(n)].parent_inode,
   type     |-> files[SlotOf(n)].type,
   contents |-> fs_read_file(n, inodes[n].size)]

Store == INSTANCE FileStore
  WITH Ids <- Inodes,
       BootEntries <- [n \in 1..BootSize |->
                         [name     |-> BootTable[n].name,
                          parent   |-> BootTable[n].parent_inode,
                          type     |-> BootTable[n].type,
                          contents |-> [size |-> 0, data |-> << >>]]],
       entries <- [n \in LiveInodes |-> EntryOf(n)],
       cwd     <- current_inode

\* The tables implement the store: what is read from a file is what was last
\* written to it, whatever happened to other files, inodes and blocks in
\* between.  Checked with room for as many files as there can be.
ImplementsStore == Store!StoreSpec

=============================================================================
