----------------------------- MODULE BkFSProofs -----------------------------
(***************************************************************************)
(* bkFS for tables of any size.  The three results build on each other:    *)
(* types, then the tree of directories (with the agreement of entries and  *)
(* inodes, without which a removal could free another file's inode), then  *)
(* storage, whose inductive invariant Storage speaks of every inode that   *)
(* lists a block and not only of the files a user can see.                 *)
(***************************************************************************)
EXTENDS BkFS, FiniteSetTheorems, TLAPS

\* The number of blocks a write asks for is a natural number.
LEMMA BlocksNeededType ==
  ASSUME NEW size \in Nat
  PROVE  BlocksNeeded(size) \in Nat
  BY TableSizes DEF BlocksNeeded

\* The fields of an inode have their types.
LEMMA InodeType ==
  ASSUME TypeOK, NEW n \in Inodes
  PROVE  /\ inodes[n] \in Inode
         /\ inodes[n].mode \in Types \cup {"free"}
         /\ inodes[n].size \in Nat
         /\ inodes[n].blocks \in 0..INODE_DIRECT_BLOCKS
         /\ inodes[n].block \in [Direct -> Blocks]
<1>1. inodes[n] \in Inode
  BY DEF TypeOK
<1> QED
  BY <1>1 DEF Inode

\* So have those of a directory entry,
LEMMA FileType ==
  ASSUME TypeOK, NEW k \in Slots
  PROVE  /\ files[k] \in File
         /\ files[k].inode \in 0..MAX_INODES
         /\ files[k].name \in Names \cup {""}
         /\ files[k].parent_inode \in 0..MAX_INODES
         /\ files[k].type \in Types
<1>1. files[k] \in File
  BY DEF TypeOK
<1> QED
  BY <1>1 DEF File

\* and those of the entry that fs_create_file fills in.
LEMMA NewFileType ==
  ASSUME NEW n \in Inodes, NEW name \in Names, NEW parent \in Inodes,
         NEW type \in Types
  PROVE  [inode |-> n, name |-> name, parent_inode |-> parent,
          type |-> type] \in File
<1>1. n \in 0..MAX_INODES /\ parent \in 0..MAX_INODES
  BY TableSizes DEF Inodes
<1>2. name \in Names \cup {""}
  OBVIOUS
<1> QED
  BY <1>1, <1>2 DEF File

\* An inode lists finitely many blocks, so they can be counted.
LEMMA HeldFinite ==
  ASSUME TypeOK, NEW n \in Inodes
  PROVE  Cardinality(Held(n)) \in Nat
<1>1. inodes[n].blocks \in Int
  BY InodeType, TableSizes
<1>2. IsFiniteSet(1..inodes[n].blocks)
  BY <1>1, FS_Interval
<1>3. IsFiniteSet(Held(n))
  BY <1>2, FS_Subset DEF Held
<1> QED
  BY <1>3, FS_CardinalityType

\* Freeing the blocks of an inode gives a bitmap and a count again.
LEMMA FreeingType ==
  ASSUME TypeOK, NEW n \in Inodes
  PROVE  /\ UsedAfterFree(n) \in [Blocks -> BOOLEAN]
         /\ FreeAfterFree(n) \in Nat
<1>1. UsedAfterFree(n) \in [Blocks -> BOOLEAN]
  BY DEF UsedAfterFree
<1>2. FreeAfterFree(n) \in Nat
  BY HeldFinite DEF FreeAfterFree, TypeOK
<1> QED
  BY <1>1, <1>2

\* Creating keeps the types,
LEMMA CreateType ==
  ASSUME TypeOK, NEW name \in Names, NEW parent \in Inodes, NEW type \in Types,
         fs_create_file(name, parent, type)
  PROVE  TypeOK'
<1>1. CASE ~CanCreate(name)
  BY <1>1 DEF fs_create_file, tables, TypeOK
<1>2. CASE CanCreate(name)
  <2>1. PICK n \in Inodes :
          /\ fs_alloc_inode(n)
          /\ files' = [files EXCEPT ![file_count + 1] =
                         [inode |-> n, name |-> name,
                          parent_inode |-> parent, type |-> type]]
          /\ inodes' = [inodes EXCEPT ![n] = NewInode(type)]
    BY <1>2 DEF fs_create_file
  <2>2. /\ file_count' = file_count + 1
        /\ free_inodes' = free_inodes - 1
        /\ ret' = FS_SUCCESS
        /\ UNCHANGED <<blocks, block_used, free_blocks, current_inode,
                       write_failed>>
    BY <1>2 DEF fs_create_file
  <2>3. NewInode(type) \in Inode
    BY TableSizes DEF NewInode, EmptyInode, Inode, Blocks
  <2>4. inodes' \in [Inodes -> Inode]
    BY <2>1, <2>3 DEF TypeOK
  <2>5. [inode |-> n, name |-> name, parent_inode |-> parent,
         type |-> type] \in File
    BY NewFileType
  <2>6. files' \in [Slots -> File]
    BY <2>1, <2>5 DEF TypeOK
  <2>7. file_count' \in 0..MAX_FILES
    BY <1>2, <2>2, TableSizes DEF CanCreate, TypeOK
  <2>8. free_inodes' \in Nat
    BY <2>1, <2>2 DEF fs_alloc_inode, TypeOK
  <2> QED
    BY <2>2, <2>4, <2>6, <2>7, <2>8 DEF TypeOK
<1> QED
  BY <1>1, <1>2

\* so does removing,
LEMMA RemoveType ==
  ASSUME TypeOK, NEW n \in {0} \cup Inodes, fs_delete_file(n)
  PROVE  TypeOK'
<1>1. CASE n \notin Inodes
  BY <1>1 DEF fs_delete_file, tables, TypeOK
<1>2. CASE n \in Inodes
  <2>1. /\ block_used' = UsedAfterFree(n)
        /\ free_blocks' = FreeAfterFree(n)
        /\ RemoveEntry(n)
        /\ inodes' = [inodes EXCEPT ![n] = EmptyInode]
        /\ free_inodes' = free_inodes + 1
        /\ ret' = FS_SUCCESS
        /\ UNCHANGED <<blocks, current_inode, write_failed>>
    BY <1>2 DEF fs_delete_file
  <2>2. EmptyInode \in Inode
    BY TableSizes DEF EmptyInode, Inode, Blocks
  <2>3. inodes' \in [Inodes -> Inode]
    BY <2>1, <2>2 DEF TypeOK
  <2>4. files' \in [Slots -> File] /\ file_count' \in 0..MAX_FILES
    <3>1. CASE {k \in 1..file_count : files[k].inode = n} = {}
      BY <2>1, <3>1 DEF RemoveEntry, TypeOK
    <3>2. CASE {k \in 1..file_count : files[k].inode = n} # {}
      <4>1. PICK k \in 1..file_count :
              /\ files' = [j \in Slots |-> IF j \in k..(file_count - 1)
                                           THEN files[j + 1] ELSE files[j]]
              /\ file_count' = file_count - 1
        BY <2>1, <3>2 DEF RemoveEntry
      <4>2. \A j \in Slots : j \in k..(file_count - 1) => j + 1 \in Slots
        BY TableSizes DEF TypeOK, Slots
      <4> QED
        BY <4>1, <4>2, TableSizes DEF TypeOK
    <3> QED
      BY <3>1, <3>2
  <2> QED
    BY <1>2, <2>1, <2>3, <2>4, FreeingType DEF TypeOK
<1> QED
  BY <1>1, <1>2

\* The list g of allocated blocks put over an inode's block list.
LEMMA NewListType ==
  ASSUME TypeOK, NEW n \in Inodes, NEW k \in 0..INODE_DIRECT_BLOCKS,
         NEW g \in [1..k -> Blocks]
  PROVE  [i \in Direct |-> IF i \in DOMAIN g THEN g[i]
                           ELSE inodes[n].block[i]] \in [Direct -> Blocks]
  BY InodeType

\* and writing: what is written fits the block list, a write that fails
\* part of the way included.
LEMMA WriteType ==
  ASSUME TypeOK, NEW n \in {0} \cup Inodes, NEW data \in Data,
         NEW size \in Sizes, fs_write_file(n, data, size)
  PROVE  TypeOK'
<1>0. UNCHANGED <<free_inodes, files, file_count, current_inode>>
  BY DEF fs_write_file
<1>1. CASE n \notin Inodes \/ TooLarge(size)
  BY <1>1 DEF fs_write_file, TypeOK
<1>2. CASE n \in Inodes /\ ~TooLarge(size)
  <2>1. PICK k \in 0..BlocksNeeded(size) :
          \E g \in [1..k -> {b \in Blocks : ~UsedAfterFree(n)[b]}] :
            /\ AllocRun(g, UsedAfterFree(n), FreeAfterFree(n))
            /\ \/ k = BlocksNeeded(size) /\ WriteBlocks(n, data, size, g)
               \/ /\ k < BlocksNeeded(size)
                  /\ Exhausted(g, UsedAfterFree(n), FreeAfterFree(n))
                  /\ WriteRollback(n, g)
    BY <1>2 DEF fs_write_file
  <2>2. PICK g \in [1..k -> {b \in Blocks : ~UsedAfterFree(n)[b]}] :
            /\ AllocRun(g, UsedAfterFree(n), FreeAfterFree(n))
            /\ \/ k = BlocksNeeded(size) /\ WriteBlocks(n, data, size, g)
               \/ /\ k < BlocksNeeded(size)
                  /\ Exhausted(g, UsedAfterFree(n), FreeAfterFree(n))
                  /\ WriteRollback(n, g)
    BY <2>1
  <2>3. size \in Nat /\ BlocksNeeded(size) \in Nat
    BY InputAssumption, BlocksNeededType
  <2>4. BlocksNeeded(size) <= INODE_DIRECT_BLOCKS
    BY <1>2, <2>3, TableSizes DEF TooLarge
  <2>5. k \in 0..INODE_DIRECT_BLOCKS /\ g \in [1..k -> Blocks]
    BY <2>3, <2>4, TableSizes
  <2> DEFINE list == [i \in Direct |-> IF i \in DOMAIN g THEN g[i]
                                       ELSE inodes[n].block[i]]
  <2>6. list \in [Direct -> Blocks]
    BY <1>2, <2>5, NewListType
  <2>7. UsedAfterFree(n) \in [Blocks -> BOOLEAN] /\ FreeAfterFree(n) \in Nat
    BY <1>2, FreeingType
  <2>8. CASE k = BlocksNeeded(size) /\ WriteBlocks(n, data, size, g)
    <3>1. block_used' \in [Blocks -> BOOLEAN]
      BY <2>8 DEF WriteBlocks
    <3>2. free_blocks' \in Nat
      <4>1. free_blocks' = FreeAfterFree(n) - k
        BY <2>8 DEF WriteBlocks
      <4>2. k = 0 \/ k <= FreeAfterFree(n)
        BY <2>2, <2>5 DEF AllocRun
      <4> QED
        BY <4>1, <4>2, <2>5, <2>7
    <3>3. inodes' \in [Inodes -> Inode]
      <4>1. inodes' = [inodes EXCEPT ![n] =
                         [mode |-> inodes[n].mode, size |-> size,
                          blocks |-> BlocksNeeded(size), block |-> list]]
        BY <2>8 DEF WriteBlocks
      <4>2. [mode |-> inodes[n].mode, size |-> size,
             blocks |-> BlocksNeeded(size), block |-> list] \in Inode
        <5> HIDE DEF list
        <5> QED
          BY <1>2, <2>3, <2>4, <2>6, InodeType, TableSizes DEF Inode
      <4> QED
        BY <4>1, <4>2 DEF TypeOK
    <3>4. blocks' \in [Blocks -> Block]
      <4>1. \A b \in Blocks : (\E i \in DOMAIN g : g[i] = b) =>
              [data |-> data, chunk |-> CHOOSE i \in DOMAIN g : g[i] = b] \in Block
        <5> SUFFICES ASSUME NEW b \in Blocks, NEW i \in DOMAIN g, g[i] = b
                     PROVE  [data |-> data,
                             chunk |-> CHOOSE j \in DOMAIN g : g[j] = b] \in Block
          OBVIOUS
        <5>1. (CHOOSE j \in DOMAIN g : g[j] = b) \in DOMAIN g
          OBVIOUS
        <5>2. DOMAIN g \subseteq Direct
          BY <2>5, TableSizes DEF Direct
        <5> QED
          BY <5>1, <5>2 DEF Block
      <4> QED
        BY <2>8, <4>1 DEF WriteBlocks, TypeOK
    <3> QED
      BY <1>0, <2>8, <3>1, <3>2, <3>3, <3>4 DEF WriteBlocks, TypeOK
  <2>9. CASE WriteRollback(n, g)
    <3>1. inodes' = [inodes EXCEPT ![n] = [inodes[n] EXCEPT !.block = list]]
      BY <1>2, <2>9 DEF WriteRollback, TypeOK
    <3>2. [inodes[n] EXCEPT !.block = list] \in Inode
      <4> HIDE DEF list
      <4> QED
        BY <1>2, <2>6, InodeType DEF Inode
    <3>3. inodes' \in [Inodes -> Inode]
      BY <3>1, <3>2 DEF TypeOK
    <3> QED
      BY <1>0, <2>7, <2>9, <3>3 DEF WriteRollback, TypeOK
  <2> QED
    BY <2>2, <2>8, <2>9
<1> QED
  BY <1>1, <1>2

\* The tables that the kernel builds when it boots have their types.
LEMMA InitType == Init => TypeOK
<1> SUFFICES ASSUME Init PROVE TypeOK
  OBVIOUS
<1>0. /\ BootSize \in Nat /\ BootSize <= MAX_FILES - InitFileCount
      /\ BootSize <= MAX_INODES
      /\ \A i \in 1..BootSize : /\ BootTable[i].name \in Names
                                /\ BootTable[i].parent_inode \in Inodes
                                /\ BootTable[i].type \in Types
  <2> DEFINE R == [name : Names, parent_inode : Inodes, type : Types]
  <2>1. BootTable \in Seq(R) /\ InitFileCount + BootSize <= MAX_FILES
    BY BootTableAssumption
  <2>2. BootSize \in Nat /\ \A i \in 1..BootSize : BootTable[i] \in R
    <3> HIDE DEF R
    <3> QED
      BY <2>1 DEF BootSize
  <2>3. \A i \in 1..BootSize : /\ BootTable[i].name \in Names
                               /\ BootTable[i].parent_inode \in Inodes
                               /\ BootTable[i].type \in Types
    BY <2>2
  <2> QED
    BY <2>1, <2>2, <2>3, TableSizes
<1>1. inodes \in [Inodes -> Inode]
  <2>1. EmptyInode \in Inode
    BY TableSizes DEF EmptyInode, Inode, Blocks
  <2>2. \A type \in Types : NewInode(type) \in Inode
    BY TableSizes DEF NewInode, EmptyInode, Inode, Blocks
  <2> QED
    BY <1>0, <2>1, <2>2 DEF Init, Inodes
<1>2. files \in [Slots -> File]
  <2>1. EmptyEntry \in File
    BY TableSizes DEF EmptyEntry, File, Types
  <2>2. \A i \in 1..BootSize :
          [inode |-> i, name |-> BootTable[i].name,
           parent_inode |-> BootTable[i].parent_inode,
           type |-> BootTable[i].type] \in File
    <3>1. \A i \in 1..BootSize : i \in Inodes
      BY <1>0, TableSizes DEF Inodes
    <3> QED
      BY <1>0, <3>1, NewFileType
  <2>3. \A k \in (InitFileCount + 1)..(InitFileCount + BootSize) :
          k - InitFileCount \in 1..BootSize
    BY <1>0, TableSizes
  <2> QED
    BY <2>1, <2>2, <2>3 DEF Init
<1>3. blocks \in [Blocks -> Block]
  BY DEF Init, Block
<1>4. file_count \in 0..MAX_FILES /\ free_inodes \in Nat /\ free_blocks \in Nat
  BY <1>0, TableSizes DEF Init
<1>5. current_inode \in Inodes
  BY <1>0, BootTableAssumption, TableSizes DEF Init, Inodes
<1> QED
  BY <1>1, <1>2, <1>3, <1>4, <1>5 DEF Init, TypeOK

\* Every table keeps its type under every call.
THEOREM TypeCorrect == Spec => []TypeOK
<1>1. TypeOK /\ [Next]_fs_vars => TypeOK'
  <2> SUFFICES ASSUME TypeOK, [Next]_fs_vars PROVE TypeOK'
    OBVIOUS
  <2>1. ASSUME NEW n \in Inodes, fs_change_dir(n) PROVE TypeOK'
    BY <2>1 DEF fs_change_dir, tables, TypeOK
  <2>2. CASE UNCHANGED fs_vars
    BY <2>2 DEF fs_vars, tables, TypeOK
  <2> QED
    <3>1. current_inode \in Inodes
      BY DEF TypeOK
    <3> QED
      BY <2>1, <2>2, <3>1, CreateType, RemoveType, WriteType
         DEF Next, Create, Remove, Write
<1> QED
  BY <1>1, InitType, PTL DEF Spec

-----------------------------------------------------------------------------
(* The tree                                                                *)

Tree == EntriesMatchInodes /\ ParentsFirst /\ NamesUnique

\* A slot in use with a parent or an inode is a live one.
LEMMA LiveSlot ==
  ASSUME TypeOK, SlotsMatchInodes, NEW k \in 1..file_count,
         files[k].inode # 0 \/ files[k].parent_inode # 0
  PROVE  k \in Live
<1>0. EmptyEntry.inode = 0 /\ EmptyEntry.parent_inode = 0
  BY DEF EmptyEntry
<1>1. k \notin 1..InitFileCount
  BY <1>0 DEF SlotsMatchInodes
<1> QED
  BY <1>1, TableSizes DEF Live, TypeOK

\* The entries in use are slots of the table.
LEMMA LiveInSlots ==
  ASSUME TypeOK, NEW k \in Live
  PROVE  k \in Slots /\ k \in 1..file_count /\ k \in Nat
  BY TableSizes DEF TypeOK, Live, Slots

\* What a successful creation does to the slots.
LEMMA CreateSlots ==
  ASSUME TypeOK, SlotsMatchInodes, NEW name \in Names, NEW type \in Types,
         Create(name, type), CanCreate(name)
  PROVE  \E n \in Inodes :
           /\ inodes[n].mode = "free"
           /\ inodes' = [inodes EXCEPT ![n] = NewInode(type)]
           /\ file_count' = file_count + 1
           /\ free_inodes' = free_inodes - 1
           /\ current_inode' = current_inode
           /\ Live' = Live \cup {file_count + 1}
           /\ file_count + 1 \in Slots /\ file_count + 1 \notin Live
           /\ files'[file_count + 1] = [inode |-> n, name |-> name,
                          parent_inode |-> current_inode, type |-> type]
           /\ \A k \in Slots : k # file_count + 1 => files'[k] = files[k]
           /\ \A k \in Live : files[k].inode # n
<1>1. PICK n \in Inodes :
        /\ fs_alloc_inode(n)
        /\ files' = [files EXCEPT ![file_count + 1] =
                       [inode |-> n, name |-> name,
                        parent_inode |-> current_inode, type |-> type]]
        /\ inodes' = [inodes EXCEPT ![n] = NewInode(type)]
  BY DEF Create, fs_create_file
<1>2. /\ file_count' = file_count + 1
      /\ free_inodes' = free_inodes - 1
      /\ current_inode' = current_inode
  BY DEF Create, fs_create_file
<1>3. inodes[n].mode = "free"
  BY <1>1 DEF fs_alloc_inode, IsLowest, FreeInodes
<1>4. file_count + 1 \in Slots /\ file_count + 1 \notin Live
  BY TableSizes DEF CanCreate, TypeOK, Slots, Live
<1>5. Live' = Live \cup {file_count + 1}
  BY <1>2, TableSizes DEF Live, SlotsMatchInodes, TypeOK
<1>6. \A k \in Live : files[k].inode # n
  <2> SUFFICES ASSUME NEW k \in Live, files[k].inode = n PROVE FALSE
    OBVIOUS
  <2>1. files[k].type = "free"
    BY <1>3 DEF SlotsMatchInodes
  <2>2. files[k].type \in Types
    BY FileType, LiveInSlots
  <2> QED
    BY <2>1, <2>2 DEF Types, FILE_REGULAR, FILE_DIR
<1>7. /\ files'[file_count + 1] = [inode |-> n, name |-> name,
                          parent_inode |-> current_inode, type |-> type]
      /\ \A k \in Slots : k # file_count + 1 => files'[k] = files[k]
  BY <1>1, <1>4 DEF TypeOK
<1> QED
  BY <1>1, <1>2, <1>3, <1>4, <1>5, <1>6, <1>7

\* Creating keeps the tree: the new entry comes last, after its parent.
LEMMA CreateTree ==
  ASSUME TypeOK, Tree, NEW name \in Names, NEW type \in Types,
         Create(name, type)
  PROVE  Tree'
<1>1. CASE ~CanCreate(name)
  BY <1>1 DEF Create, fs_create_file, tables, Tree, EntriesMatchInodes, SlotsMatchInodes,
              ParentsFirst, NamesUnique, Live
<1>2. CASE CanCreate(name)
  <2> EntriesMatchInodes /\ ParentsFirst /\ NamesUnique
    BY DEF Tree
  <2> DEFINE new == file_count + 1
  <2>1. PICK n \in Inodes :
           /\ inodes[n].mode = "free"
           /\ inodes' = [inodes EXCEPT ![n] = NewInode(type)]
           /\ file_count' = file_count + 1
           /\ free_inodes' = free_inodes - 1
           /\ current_inode' = current_inode
           /\ Live' = Live \cup {new}
           /\ new \in Slots /\ new \notin Live
           /\ files'[new] = [inode |-> n, name |-> name,
                          parent_inode |-> current_inode, type |-> type]
           /\ \A k \in Slots : k # new => files'[k] = files[k]
           /\ \A k \in Live : files[k].inode # n
    <3>1. SlotsMatchInodes
      BY DEF EntriesMatchInodes
    <3> QED
      BY <1>2, <3>1, CreateSlots
  <2>2. \A k \in Live : k \in Slots /\ k \in 1..file_count /\ files'[k] = files[k]
    BY <2>1, LiveInSlots
  <2>3. NewInode(type).mode = type
    BY DEF NewInode, EmptyInode
  <2>4. \A m \in Inodes : inodes'[m].mode = IF m = n THEN type ELSE inodes[m].mode
    BY <2>1, <2>3 DEF TypeOK
  <2>5. EntriesMatchInodes'
    <3>1. InitFileCount < file_count'
          /\ free_inodes' = MAX_INODES - (file_count' - InitFileCount)
      BY <2>1, TableSizes DEF EntriesMatchInodes, SlotsMatchInodes, TypeOK
    <3>2. \A k \in 1..InitFileCount : files'[k] = EmptyEntry
      BY <2>1, TableSizes DEF EntriesMatchInodes, SlotsMatchInodes, TypeOK, Slots
    <3>3. \A k \in Live' : /\ files'[k].inode \in Inodes
                           /\ inodes'[files'[k].inode].mode = files'[k].type
      BY <2>1, <2>2, <2>4 DEF EntriesMatchInodes, SlotsMatchInodes
    <3>4. \A k, l \in Live' : files'[k].inode = files'[l].inode => k = l
      BY <2>1, <2>2 DEF EntriesMatchInodes, SlotsMatchInodes
    <3>5. \A m \in Inodes : inodes'[m].mode # "free" =>
                              \E k \in Live' : files'[k].inode = m
      BY <2>1, <2>2, <2>4 DEF EntriesMatchInodes, SlotsMatchInodes
    <3> QED
      BY <3>1, <3>2, <3>3, <3>4, <3>5 DEF EntriesMatchInodes, SlotsMatchInodes
  <2>6. ParentsFirst'
    <3>1. InitFileCount + 1 \in Live
      BY TableSizes DEF EntriesMatchInodes, SlotsMatchInodes, Live, TypeOK
    <3>2. files'[InitFileCount + 1] = files[InitFileCount + 1]
      BY <2>2, <3>1
    <3>3. inodes'[1].mode = FILE_DIR /\ inodes'[current_inode'].mode = FILE_DIR
      <4>1. 1 \in Inodes /\ 1 # n /\ current_inode # n
        BY <2>1, <3>1, TableSizes
           DEF ParentsFirst, Inodes, FILE_DIR, TypeOK
      <4> QED
        BY <2>1, <2>4, <4>1 DEF ParentsFirst, TypeOK
    <3>4. ASSUME NEW k \in Live', k > InitFileCount + 1
          PROVE  \E l \in Live' : /\ l < k
                                  /\ files'[l].inode = files'[k].parent_inode
                                  /\ files'[l].type = FILE_DIR
      <4>1. CASE k \in Live
        BY <2>1, <2>2, <3>4, <4>1 DEF ParentsFirst
      <4>2. CASE k = new
        <5>1. PICK l \in Live : files[l].inode = current_inode
          BY DEF ParentsFirst, EntriesMatchInodes, SlotsMatchInodes, TypeOK, FILE_DIR
        <5>2. files[l].type = FILE_DIR
          BY <5>1 DEF ParentsFirst, EntriesMatchInodes, SlotsMatchInodes
        <5>3. l < new
          BY LiveInSlots DEF TypeOK
        <5> QED
          BY <2>1, <2>2, <4>2, <5>1, <5>2, <5>3
      <4> QED
        BY <2>1, <4>1, <4>2
    <3> QED
      BY <3>2, <3>3, <3>4 DEF ParentsFirst
  <2>7. NamesUnique'
    <3>1. \A k \in Live : files[k].name = name =>
                            files[k].parent_inode # current_inode
      BY <1>2, <2>2 DEF CanCreate, file_exists_in_current_dir, InDir
    <3> QED
      BY <2>1, <2>2, <3>1 DEF NamesUnique
  <2> QED
    BY <2>5, <2>6, <2>7 DEF Tree
<1> QED
  BY <1>1, <1>2

\* What deleting an entry does to the slots: slot k goes, the later ones
\* move down by one.
LEMMA RemoveSlots ==
  ASSUME TypeOK, Tree, NEW n \in Inodes, Remove(n)
  PROVE  \E k \in Live :
           /\ files[k].inode = n
           /\ k > InitFileCount + 1
           /\ n # 1 /\ n # current_inode
           /\ \A j \in Live : files[j].parent_inode # n
           /\ file_count' = file_count - 1
           /\ Live' = Live \ {file_count}
           /\ \A j \in 1..InitFileCount : files'[j] = files[j]
           /\ \A j \in Live' : /\ j < k => files'[j] = files[j]
                               /\ j >= k => /\ files'[j] = files[j + 1]
                                            /\ j + 1 \in Live
<1> EntriesMatchInodes /\ ParentsFirst
  BY DEF Tree
<1>1. PICK k \in 1..file_count : /\ files[k].inode = n
                                 /\ files[k].parent_inode = current_inode
  BY DEF Remove
<1>2. k \in Live /\ n # 0
  BY <1>1, LiveSlot, TableSizes DEF EntriesMatchInodes, Inodes
<1>3. ~HasChild(n) /\ RemoveEntry(n)
  BY DEF Remove, fs_delete_file
<1>4. \A j \in Live : files[j].parent_inode # n
  BY <1>3, LiveInSlots DEF HasChild
<1>5. InitFileCount + 1 \in Live
  BY TableSizes DEF EntriesMatchInodes, SlotsMatchInodes, Live, TypeOK
<1>6. n # 1 /\ n # current_inode
  BY <1>1, <1>2, <1>4, <1>5 DEF ParentsFirst
<1>7. k > InitFileCount + 1
  BY <1>1, <1>2, <1>6, TableSizes DEF ParentsFirst, Live, TypeOK
<1>8. \A l \in 1..file_count : files[l].inode = n => l = k
  BY <1>1, <1>2, LiveSlot DEF EntriesMatchInodes, SlotsMatchInodes
<1>9. /\ files' = [j \in Slots |-> IF j \in k..(file_count - 1)
                                   THEN files[j + 1] ELSE files[j]]
      /\ file_count' = file_count - 1
  <2>1. {l \in 1..file_count : files[l].inode = n} = {k}
    BY <1>1, <1>8
  <2> QED
    BY <1>3, <2>1 DEF RemoveEntry
<1>10. Live' = Live \ {file_count}
  BY <1>9, TableSizes DEF Live, TypeOK
<1>11. \A j \in 1..InitFileCount : files'[j] = files[j]
  BY <1>7, <1>9, <1>2, TableSizes DEF Live, TypeOK, Slots
<1>12. \A j \in Live' : /\ j < k => files'[j] = files[j]
                        /\ j >= k => /\ files'[j] = files[j + 1]
                                     /\ j + 1 \in Live
  BY <1>9, <1>2, <1>10, TableSizes DEF Live, TypeOK, Slots
<1> QED
  BY <1>1, <1>2, <1>4, <1>6, <1>7, <1>9, <1>10, <1>11, <1>12

\* Removing keeps it: the entry has no child, and those after it move down a
\* slot together, so that they keep their order.
LEMMA RemoveTree ==
  ASSUME TypeOK, Tree, NEW n \in {0} \cup Inodes, Remove(n)
  PROVE  Tree'
<1>1. CASE n \notin Inodes
  BY <1>1 DEF Remove, fs_delete_file, tables, Tree, EntriesMatchInodes, SlotsMatchInodes,
              ParentsFirst, NamesUnique, Live
<1>2. CASE n \in Inodes
  <2> EntriesMatchInodes /\ ParentsFirst /\ NamesUnique
    BY DEF Tree
  <2>1. PICK k \in Live :
           /\ files[k].inode = n
           /\ k > InitFileCount + 1
           /\ n # 1 /\ n # current_inode
           /\ \A j \in Live : files[j].parent_inode # n
           /\ file_count' = file_count - 1
           /\ Live' = Live \ {file_count}
           /\ \A j \in 1..InitFileCount : files'[j] = files[j]
           /\ \A j \in Live' : /\ j < k => files'[j] = files[j]
                               /\ j >= k => /\ files'[j] = files[j + 1]
                                            /\ j + 1 \in Live
    BY <1>2, RemoveSlots
  <2>2. /\ inodes' = [inodes EXCEPT ![n] = EmptyInode]
        /\ free_inodes' = free_inodes + 1
        /\ current_inode' = current_inode
    BY <1>2 DEF Remove, fs_delete_file
  <2>3. \A m \in Inodes : inodes'[m].mode = IF m = n THEN "free" ELSE inodes[m].mode
    <3>1. EmptyInode.mode = "free"
      BY DEF EmptyInode
    <3> QED
      BY <2>2, <3>1 DEF TypeOK
  \* from(j) is the slot whose entry is in slot j after the deletion.
  <2> DEFINE from(j) == IF j < k THEN j ELSE j + 1
             to(l)   == IF l < k THEN l ELSE l - 1
  <2>4. \A j \in Live' : /\ from(j) \in Live /\ from(j) # k
                         /\ files'[j] = files[from(j)]
    BY <2>1, LiveInSlots
  <2>5. \A i, j \in Live' : from(i) = from(j) => i = j
    BY <2>1, LiveInSlots
  <2>6. \A l \in Live : l # k => to(l) \in Live' /\ from(to(l)) = l
    BY <2>1, TableSizes DEF Live, TypeOK
  <2>7. \A l \in Live, j \in Live' : l # k /\ l < from(j) => to(l) < j
    BY <2>1, LiveInSlots
  <2> HIDE DEF from, to
  <2>8. EntriesMatchInodes'
    <3>1. InitFileCount < file_count'
          /\ free_inodes' = MAX_INODES - (file_count' - InitFileCount)
      BY <2>1, <2>2, TableSizes DEF EntriesMatchInodes, SlotsMatchInodes, TypeOK, Live
    <3>2. \A j \in 1..InitFileCount : files'[j] = EmptyEntry
      BY <2>1 DEF EntriesMatchInodes, SlotsMatchInodes
    <3>3. \A j \in Live' : /\ files'[j].inode \in Inodes
                           /\ inodes'[files'[j].inode].mode = files'[j].type
      BY <2>1, <2>3, <2>4 DEF EntriesMatchInodes, SlotsMatchInodes
    <3>4. \A i, j \in Live' : files'[i].inode = files'[j].inode => i = j
      BY <2>4, <2>5 DEF EntriesMatchInodes, SlotsMatchInodes
    <3>5. \A m \in Inodes : inodes'[m].mode # "free" =>
                              \E j \in Live' : files'[j].inode = m
      <4> SUFFICES ASSUME NEW m \in Inodes, inodes'[m].mode # "free"
                   PROVE  \E j \in Live' : files'[j].inode = m
        OBVIOUS
      <4>1. m # n /\ inodes[m].mode # "free"
        BY <2>3
      <4>2. PICK l \in Live : files[l].inode = m
        BY <4>1 DEF EntriesMatchInodes, SlotsMatchInodes
      <4> QED
        BY <2>1, <2>4, <2>6, <4>1, <4>2
    <3> QED
      BY <3>1, <3>2, <3>3, <3>4, <3>5 DEF EntriesMatchInodes, SlotsMatchInodes
  <2>9. ParentsFirst'
    <3>1. InitFileCount + 1 \in Live' /\ files'[InitFileCount + 1] = files[InitFileCount + 1]
      BY <2>1, TableSizes DEF Live, TypeOK
    <3>2. inodes'[1].mode = FILE_DIR /\ inodes'[current_inode'].mode = FILE_DIR
      <4>1. 1 \in Inodes
        BY TableSizes DEF TypeOK, Inodes
      <4> QED
        BY <2>1, <2>2, <2>3, <4>1 DEF ParentsFirst, TypeOK
    <3>3. ASSUME NEW j \in Live', j > InitFileCount + 1
          PROVE  \E l \in Live' : /\ l < j
                                  /\ files'[l].inode = files'[j].parent_inode
                                  /\ files'[l].type = FILE_DIR
      <4>1. from(j) > InitFileCount + 1
        BY <3>3, LiveInSlots, <2>1, TableSizes DEF from, Live, TypeOK
      <4>2. PICK l \in Live : /\ l < from(j)
                              /\ files[l].inode = files[from(j)].parent_inode
                              /\ files[l].type = FILE_DIR
        BY <2>4, <4>1 DEF ParentsFirst
      <4>3. l # k
        BY <2>1, <2>4, <4>2
      <4> QED
        BY <2>4, <2>6, <2>7, <4>2, <4>3
    <3> QED
      BY <3>1, <3>2, <3>3 DEF ParentsFirst
  <2>10. NamesUnique'
    BY <2>4, <2>5 DEF NamesUnique
  <2> QED
    BY <2>8, <2>9, <2>10 DEF Tree
<1> QED
  BY <1>1, <1>2

\* Writing changes no mode, no slot and no count.
LEMMA WriteModes ==
  ASSUME TypeOK, NEW n \in {0} \cup Inodes, NEW data, NEW size,
         fs_write_file(n, data, size)
  PROVE  /\ UNCHANGED <<free_inodes, files, file_count, current_inode>>
         /\ \A m \in Inodes : inodes'[m].mode = inodes[m].mode
<1>1. UNCHANGED <<free_inodes, files, file_count, current_inode>>
  BY DEF fs_write_file
<1>2. \A m \in Inodes : inodes'[m].mode = inodes[m].mode
  <2>1. CASE UNCHANGED inodes
    BY <2>1
  <2>2. ASSUME NEW g, n \in Inodes, WriteBlocks(n, data, size, g)
        PROVE  \A m \in Inodes : inodes'[m].mode = inodes[m].mode
    BY <2>2 DEF WriteBlocks, TypeOK
  <2>3. ASSUME NEW g, n \in Inodes, WriteRollback(n, g)
        PROVE  \A m \in Inodes : inodes'[m].mode = inodes[m].mode
    <3>1. inodes[n] \in Inode
      BY <2>3, InodeType
    <3> QED
      BY <2>3, <3>1 DEF WriteRollback, TypeOK, Inode
  <2> QED
    BY <2>1, <2>2, <2>3 DEF fs_write_file
<1> QED
  BY <1>1, <1>2

\* So it keeps the tree.
LEMMA WriteTree ==
  ASSUME TypeOK, Tree, NEW n \in {0} \cup Inodes, NEW data \in Data,
         NEW size \in Sizes, fs_write_file(n, data, size)
  PROVE  Tree'
<1>1. /\ UNCHANGED <<free_inodes, files, file_count, current_inode>>
      /\ \A m \in Inodes : inodes'[m].mode = inodes[m].mode
  BY WriteModes
<1>2. 1 \in Inodes /\ current_inode \in Inodes
  BY TableSizes DEF TypeOK, Inodes
<1> QED
  BY <1>1, <1>2
     DEF Tree, EntriesMatchInodes, SlotsMatchInodes, ParentsFirst, NamesUnique, Live

\* Changing the directory, or reading, changes none of it.
LEMMA ChangeDirTree ==
  ASSUME TypeOK, Tree, NEW n \in Inodes, fs_change_dir(n)
  PROVE  Tree'
<1>1. UNCHANGED tables
  BY DEF fs_change_dir
<1>2. inodes[current_inode'].mode = FILE_DIR
  <2>1. CASE UNCHANGED current_inode
    BY <2>1 DEF Tree, ParentsFirst
  <2>2. CASE \E k \in 1..file_count : files[k].inode = n /\ files[k].type = FILE_DIR
    <3>1. PICK k \in 1..file_count : files[k].inode = n /\ files[k].type = FILE_DIR
      BY <2>2
    <3>2. k \in Live
      BY <3>1, LiveSlot, TableSizes DEF Tree, EntriesMatchInodes, Inodes
    <3> QED
      BY <2>2, <3>1, <3>2 DEF fs_change_dir, Tree, EntriesMatchInodes, SlotsMatchInodes
  <2> QED
    BY <2>1, <2>2 DEF fs_change_dir
<1> QED
  BY <1>1, <1>2 DEF tables, Tree, EntriesMatchInodes, SlotsMatchInodes, ParentsFirst, NamesUnique, Live

\* The tables that the kernel builds when it boots form a tree.
LEMMA InitTree == Init => Tree
<1> SUFFICES ASSUME Init PROVE Tree
  OBVIOUS
<1>0. /\ BootSize \in Nat /\ BootSize >= 1
      /\ InitFileCount + BootSize <= MAX_FILES /\ BootSize <= MAX_INODES
  BY BootTableAssumption, TableSizes DEF BootSize
<1>1. /\ file_count = InitFileCount + BootSize
      /\ Live = (InitFileCount + 1)..(InitFileCount + BootSize)
  BY DEF Init, Live
<1>2. \A k \in Live : /\ k - InitFileCount \in 1..BootSize
                      /\ files[k].inode = k - InitFileCount
                      /\ files[k].name = BootTable[k - InitFileCount].name
                      /\ files[k].parent_inode
                           = BootTable[k - InitFileCount].parent_inode
                      /\ files[k].type = BootTable[k - InitFileCount].type
  <2> SUFFICES ASSUME NEW k \in Live
               PROVE  /\ k - InitFileCount \in 1..BootSize
                      /\ files[k].inode = k - InitFileCount
                      /\ files[k].name = BootTable[k - InitFileCount].name
                      /\ files[k].parent_inode
                           = BootTable[k - InitFileCount].parent_inode
                      /\ files[k].type = BootTable[k - InitFileCount].type
    OBVIOUS
  <2>1. k \in Slots /\ k - InitFileCount \in 1..BootSize
    BY <1>0, <1>1, TableSizes DEF Slots
  <2>2. files[k] = [inode        |-> k - InitFileCount,
                    name         |-> BootTable[k - InitFileCount].name,
                    parent_inode |-> BootTable[k - InitFileCount].parent_inode,
                    type         |-> BootTable[k - InitFileCount].type]
    BY <1>1, <2>1 DEF Init
  <2> QED
    BY <2>1, <2>2
<1>3. \A n \in Inodes : inodes[n].mode = IF n <= BootSize THEN BootTable[n].type
                                         ELSE "free"
  BY DEF Init, NewInode, EmptyInode
<1>4. 1..BootSize \subseteq Inodes
  BY <1>0, TableSizes DEF Inodes
<1>5. EntriesMatchInodes
  <2>1. InitFileCount < file_count
        /\ free_inodes = MAX_INODES - (file_count - InitFileCount)
    BY <1>0, <1>1, TableSizes DEF Init
  <2>2. \A k \in 1..InitFileCount : files[k] = EmptyEntry
    BY <1>0, TableSizes DEF Init, Slots
  <2>3. \A k \in Live : /\ files[k].inode \in Inodes
                        /\ inodes[files[k].inode].mode = files[k].type
    BY <1>0, <1>2, <1>3, <1>4
  <2>4. \A k, l \in Live : files[k].inode = files[l].inode => k = l
    BY <1>0, <1>1, <1>2, TableSizes
  <2>5. \A n \in Inodes : inodes[n].mode # "free" =>
                            \E k \in Live : files[k].inode = n
    <3> SUFFICES ASSUME NEW n \in Inodes, inodes[n].mode # "free"
                 PROVE  \E k \in Live : files[k].inode = n
      OBVIOUS
    <3>1. n \in 1..BootSize
      BY <1>0, <1>3, TableSizes DEF Inodes
    <3>2. InitFileCount + n \in Live /\ (InitFileCount + n) - InitFileCount = n
      BY <1>0, <1>1, <3>1, TableSizes
    <3> QED
      BY <1>2, <3>2
  <2> QED
    BY <2>1, <2>2, <2>3, <2>4, <2>5 DEF EntriesMatchInodes, SlotsMatchInodes
<1>6. ParentsFirst
  <2>1. InitFileCount + 1 \in Live /\ (InitFileCount + 1) - InitFileCount = 1
    BY <1>0, <1>1, TableSizes
  <2>2. files[InitFileCount + 1].inode = 1 /\ files[InitFileCount + 1].parent_inode = 1
    BY <1>2, <2>1, BootTableAssumption
  <2>3. inodes[1].mode = FILE_DIR /\ current_inode = 1
    BY <1>0, <1>3, <1>4, BootTableAssumption DEF Init
  <2>4. ASSUME NEW k \in Live, k > InitFileCount + 1
        PROVE  \E l \in Live : /\ l < k
                               /\ files[l].inode = files[k].parent_inode
                               /\ files[l].type = FILE_DIR
    <3> DEFINE i == k - InitFileCount
               p == BootTable[i].parent_inode
    <3>1. i \in 1..BootSize /\ i > 1
      BY <1>2, <2>4, <1>1, <1>0, TableSizes
    <3>2. p \in 1..(i - 1) /\ BootTable[p].type = FILE_DIR
      BY <3>1, BootTableAssumption
    <3>3. /\ InitFileCount + p \in Live /\ (InitFileCount + p) - InitFileCount = p
          /\ InitFileCount + p < k
      BY <1>0, <1>1, <3>1, <3>2, TableSizes
    <3> HIDE DEF p
    <3>4. files[InitFileCount + p].inode = p /\ files[InitFileCount + p].type = FILE_DIR
      BY <1>2, <3>2, <3>3
    <3>5. files[k].parent_inode = p
      BY <1>2 DEF p
    <3> QED
      BY <3>3, <3>4, <3>5
  <2> QED
    BY <2>2, <2>3, <2>4 DEF ParentsFirst
<1>7. NamesUnique
  <2> SUFFICES ASSUME NEW k \in Live, NEW l \in Live,
                      files[k].name = files[l].name,
                      files[k].parent_inode = files[l].parent_inode
               PROVE  k = l
    BY DEF NamesUnique
  <2>1. k - InitFileCount = l - InitFileCount
    BY <1>2, BootTableAssumption
  <2> QED
    BY <2>1, <1>0, <1>1, TableSizes
<1> QED
  BY <1>5, <1>6, <1>7 DEF Tree

\* The entries, the inodes and their counter agree, the directories form a
\* tree and names are unique in each, however the calls are interleaved.
THEOREM TreeCorrect == Spec => [](EntriesMatchInodes /\ ParentsFirst /\ NamesUnique)
<1>1. TypeOK /\ Tree /\ [Next]_fs_vars => Tree'
  <2> SUFFICES ASSUME TypeOK, Tree, [Next]_fs_vars PROVE Tree'
    OBVIOUS
  <2>1. CASE UNCHANGED fs_vars
    BY <2>1 DEF fs_vars, tables, Tree, EntriesMatchInodes, SlotsMatchInodes, ParentsFirst,
                NamesUnique, Live
  <2> QED
    BY <2>1, CreateTree, RemoveTree, WriteTree, ChangeDirTree DEF Next, Write
<1>2. Tree => EntriesMatchInodes /\ ParentsFirst /\ NamesUnique
  BY DEF Tree
<1> QED
  BY <1>1, <1>2, InitTree, TypeCorrect, PTL DEF Spec

\* Entries and inodes in use correspond one to one, and are counted.
THEOREM EntriesCorrect == Spec => []EntriesMatchInodes
<1> QED
  BY TreeCorrect, PTL

\* A name is found once in a directory, or not at all.
THEOREM NamesCorrect == Spec => []NamesUnique
<1> QED
  BY TreeCorrect, PTL

-----------------------------------------------------------------------------
(* The blocks                                                              *)

Storage == LeakOnlyBlockZero /\ SoundUntilFailure

\* A block that is still used after inode n's have been freed was used, and
\* unless it is block 0, inode n does not list it.
LEMMA StillUsed ==
  ASSUME TypeOK, NEW n \in Inodes, NEW b \in Blocks, UsedAfterFree(n)[b]
  PROVE  block_used[b] /\ (b # 0 => ~Lists(n, b))
  BY InodeType DEF UsedAfterFree, Held, Lists

\* A used block that inode n does not list is still used afterwards.
LEMMA NotFreed ==
  ASSUME TypeOK, NEW n \in Inodes, NEW b \in Blocks, block_used[b],
         ~Lists(n, b)
  PROVE  UsedAfterFree(n)[b]
  BY InodeType DEF UsedAfterFree, Held, Lists

\* What an inode lists is a block.
LEMMA ListedBlock ==
  ASSUME TypeOK, NEW n \in Inodes, NEW i \in 1..inodes[n].blocks
  PROVE  i \in Direct /\ inodes[n].block[i] \in Blocks
<1>1. i \in Direct
  BY InodeType, TableSizes DEF Direct
<1> QED
  BY <1>1, InodeType

\* The part of Storage that speaks of the inodes other than n survives the
\* freeing of n's blocks.
LEMMA OthersKeep ==
  ASSUME TypeOK, Storage, NEW n \in Inodes
  PROVE  /\ \A b \in Blocks : UsedAfterFree(n)[b] /\ b # 0 =>
               \E m \in Inodes \ {n} : Lists(m, b)
         /\ ~write_failed => \A m \in Inodes \ {n} : \A i \in 1..inodes[m].blocks :
               UsedAfterFree(n)[inodes[m].block[i]]
<1>1. \A b \in Blocks : UsedAfterFree(n)[b] /\ b # 0 =>
         \E m \in Inodes \ {n} : Lists(m, b)
  BY StillUsed DEF Storage, LeakOnlyBlockZero
<1>2. ASSUME ~write_failed, NEW m \in Inodes \ {n}, NEW i \in 1..inodes[m].blocks
      PROVE  UsedAfterFree(n)[inodes[m].block[i]]
  <2>1. inodes[m].block[i] \in Blocks
    BY ListedBlock
  <2>2. block_used[inodes[m].block[i]]
    BY <1>2 DEF Storage, SoundUntilFailure
  <2>3. ~Lists(n, inodes[m].block[i])
    BY <1>2 DEF Storage, SoundUntilFailure, NoSharedBlocks, Lists
  <2> QED
    BY <2>1, <2>2, <2>3, NotFreed
<1> QED
  BY <1>1, <1>2

\* A new file lists no block.
LEMMA CreateStorage ==
  ASSUME TypeOK, SlotsMatchInodes, Storage, NEW name \in Names, NEW type \in Types,
         Create(name, type)
  PROVE  Storage'
<1>1. CASE ~CanCreate(name)
  BY <1>1 DEF Create, fs_create_file, tables, Storage, LeakOnlyBlockZero,
              SoundUntilFailure, NoSharedBlocks, Lists
<1>2. CASE CanCreate(name)
  <2>1. PICK n \in Inodes :
          /\ inodes[n].mode = "free"
          /\ inodes' = [inodes EXCEPT ![n] = NewInode(type)]
    BY <1>2, CreateSlots
  <2>2. UNCHANGED <<block_used, write_failed>>
    BY <1>2 DEF Create, fs_create_file
  <2>3. inodes[n].blocks = 0 /\ NewInode(type).blocks = 0
    BY <2>1 DEF Storage, LeakOnlyBlockZero, NewInode, EmptyInode
  <2>4. \A m \in Inodes : /\ inodes'[m].blocks = inodes[m].blocks
                          /\ m # n => inodes'[m] = inodes[m]
    BY <2>1, <2>3 DEF TypeOK
  <2>5. \A m \in Inodes : \A i \in 1..inodes'[m].blocks :
           i \in 1..inodes[m].blocks /\ inodes'[m].block[i] = inodes[m].block[i]
    BY <2>3, <2>4
  <2>6. LeakOnlyBlockZero'
    <3>1. \A m \in Inodes, b \in Blocks : Lists(m, b) => Lists(m, b)'
      BY <2>4, <2>5 DEF Lists
    <3>2. \A m \in Inodes : inodes'[m].mode = "free" => inodes'[m].blocks = 0
      BY <2>3, <2>4 DEF Storage, LeakOnlyBlockZero
    <3> QED
      BY <2>2, <3>1, <3>2 DEF Storage, LeakOnlyBlockZero
  <2>7. SoundUntilFailure'
    BY <2>2, <2>5 DEF Storage, SoundUntilFailure, NoSharedBlocks
  <2> QED
    BY <2>6, <2>7 DEF Storage
<1> QED
  BY <1>1, <1>2

\* A removed file lists no block any more, and those it had are free, block 0
\* apart.
LEMMA RemoveStorage ==
  ASSUME TypeOK, Storage, NEW n \in {0} \cup Inodes, fs_delete_file(n)
  PROVE  Storage'
<1>1. CASE n \notin Inodes
  BY <1>1 DEF fs_delete_file, tables, Storage, LeakOnlyBlockZero,
              SoundUntilFailure, NoSharedBlocks, Lists
<1>2. CASE n \in Inodes
  <2>1. /\ block_used' = UsedAfterFree(n)
        /\ inodes' = [inodes EXCEPT ![n] = EmptyInode]
        /\ UNCHANGED write_failed
    BY <1>2 DEF fs_delete_file
  <2>2. /\ inodes'[n].blocks = 0 /\ \A i \in 1..inodes'[n].blocks : FALSE
        /\ \A m \in Inodes \ {n} : inodes'[m] = inodes[m]
    BY <1>2, <2>1 DEF TypeOK, EmptyInode
  <2>3. LeakOnlyBlockZero'
    <3>1. \A m \in Inodes \ {n}, b \in Blocks : Lists(m, b) => Lists(m, b)'
      BY <2>2 DEF Lists
    <3>2. \A b \in Blocks : block_used'[b] /\ b # 0 => \E m \in Inodes : Lists(m, b)'
      BY <1>2, <2>1, <3>1, OthersKeep
    <3>3. \A m \in Inodes : inodes'[m].mode = "free" => inodes'[m].blocks = 0
      BY <2>2 DEF Storage, LeakOnlyBlockZero
    <3> QED
      BY <3>2, <3>3 DEF LeakOnlyBlockZero
  <2>4. SoundUntilFailure'
    <3> SUFFICES ASSUME ~write_failed
                 PROVE  /\ \A m \in Inodes : \A i \in 1..inodes'[m].blocks :
                             block_used'[inodes'[m].block[i]]
                        /\ NoSharedBlocks'
      BY <2>1 DEF SoundUntilFailure
    <3>1. \A m \in Inodes : \A i \in 1..inodes'[m].blocks :
            block_used'[inodes'[m].block[i]]
      BY <1>2, <2>1, <2>2, OthersKeep
    <3>2. NoSharedBlocks'
      BY <2>2 DEF Storage, SoundUntilFailure, NoSharedBlocks
    <3> QED
      BY <3>1, <3>2
  <2> QED
    BY <2>3, <2>4 DEF Storage
<1> QED
  BY <1>1, <1>2

\* The file that a caller writes is a regular one.
LEMMA WrittenRegular ==
  ASSUME TypeOK, SlotsMatchInodes, NEW n \in Inodes, NEW data, NEW size,
         Write(n, data, size)
  PROVE  /\ inodes[n].mode = FILE_REGULAR
         /\ \E l \in Live : /\ files[l].inode = n /\ files[l].type = FILE_REGULAR
                            /\ files[l].parent_inode = current_inode
<1>1. PICK l \in 1..file_count : /\ files[l].inode = n /\ files[l].type = FILE_REGULAR
                                 /\ files[l].parent_inode = current_inode
  BY DEF Write
<1>2. l \in Live
  BY <1>1, LiveSlot, TableSizes DEF Inodes
<1> QED
  BY <1>1, <1>2 DEF SlotsMatchInodes

\* A write that succeeds lists only blocks it has just taken; one that fails
\* is what SoundUntilFailure makes an exception for.
LEMMA WriteStorage ==
  ASSUME TypeOK, Storage, NEW n \in {0} \cup Inodes, NEW data \in Data,
         NEW size \in Sizes, fs_write_file(n, data, size),
         n \in Inodes => inodes[n].mode # "free"
  PROVE  Storage'
<1>1. CASE n \notin Inodes \/ TooLarge(size)
  BY <1>1 DEF fs_write_file, Storage, LeakOnlyBlockZero,
              SoundUntilFailure, NoSharedBlocks, Lists
<1>2. CASE n \in Inodes /\ ~TooLarge(size)
  <2>1. PICK k \in 0..BlocksNeeded(size) :
          \E g \in [1..k -> {b \in Blocks : ~UsedAfterFree(n)[b]}] :
            /\ AllocRun(g, UsedAfterFree(n), FreeAfterFree(n))
            /\ \/ k = BlocksNeeded(size) /\ WriteBlocks(n, data, size, g)
               \/ WriteRollback(n, g)
    BY <1>2 DEF fs_write_file
  <2>2. PICK g \in [1..k -> {b \in Blocks : ~UsedAfterFree(n)[b]}] :
            /\ AllocRun(g, UsedAfterFree(n), FreeAfterFree(n))
            /\ \/ k = BlocksNeeded(size) /\ WriteBlocks(n, data, size, g)
               \/ WriteRollback(n, g)
    BY <2>1
  <2>3. BlocksNeeded(size) \in Nat /\ BlocksNeeded(size) <= INODE_DIRECT_BLOCKS
    BY <1>2, InputAssumption, BlocksNeededType, TableSizes DEF TooLarge
  <2>4. inodes[n].mode # "free"
    BY <1>2
  <2>5. CASE k = BlocksNeeded(size) /\ WriteBlocks(n, data, size, g)
    <3>1. /\ \A b \in Blocks : block_used'[b] <=>
                (UsedAfterFree(n)[b] \/ \E i \in 1..k : g[i] = b)
          /\ UNCHANGED write_failed
      BY <2>5 DEF WriteBlocks
    <3>2. /\ \A m \in Inodes \ {n} : inodes'[m] = inodes[m]
          /\ inodes'[n].mode = inodes[n].mode
          /\ inodes'[n].blocks = k
          /\ \A i \in Direct : inodes'[n].block[i] =
               IF i \in 1..k THEN g[i] ELSE inodes[n].block[i]
      BY <1>2, <2>5 DEF WriteBlocks, TypeOK
    <3>3. \A i \in 1..k : /\ inodes'[n].block[i] = g[i]
                          /\ g[i] \in Blocks /\ ~UsedAfterFree(n)[g[i]]
      BY <2>3, <3>2, TableSizes DEF Direct
    <3>4. \A i, j \in 1..k : g[i] = g[j] => i = j
      BY <2>2, <2>3 DEF AllocRun
    <3>5. LeakOnlyBlockZero'
      <4>1. \A m \in Inodes \ {n}, b \in Blocks : Lists(m, b) => Lists(m, b)'
        BY <3>2 DEF Lists
      <4>2. \A b \in Blocks : (\E i \in 1..k : g[i] = b) => Lists(n, b)'
        BY <3>2, <3>3 DEF Lists
      <4>3. \A b \in Blocks : block_used'[b] /\ b # 0 =>
              \E m \in Inodes : Lists(m, b)'
        BY <1>2, <3>1, <4>1, <4>2, OthersKeep
      <4>4. \A m \in Inodes : inodes'[m].mode = "free" => inodes'[m].blocks = 0
        BY <2>4, <3>2 DEF Storage, LeakOnlyBlockZero
      <4> QED
        BY <4>3, <4>4 DEF LeakOnlyBlockZero
    <3>6. SoundUntilFailure'
      <4> SUFFICES ASSUME ~write_failed
                   PROVE  /\ \A m \in Inodes : \A i \in 1..inodes'[m].blocks :
                               block_used'[inodes'[m].block[i]]
                          /\ NoSharedBlocks'
        BY <3>1 DEF SoundUntilFailure
      <4>1. \A m \in Inodes \ {n} : \A i \in 1..inodes'[m].blocks :
              /\ inodes'[m].block[i] \in Blocks
              /\ UsedAfterFree(n)[inodes'[m].block[i]]
        BY <1>2, <3>2, ListedBlock, OthersKeep
      <4>2. \A m \in Inodes : \A i \in 1..inodes'[m].blocks :
              block_used'[inodes'[m].block[i]]
        BY <3>1, <3>2, <3>3, <4>1
      <4>3. NoSharedBlocks'
        <5> SUFFICES ASSUME NEW m1 \in Inodes, NEW m2 \in Inodes,
                            NEW i \in 1..inodes'[m1].blocks,
                            NEW j \in 1..inodes'[m2].blocks,
                            inodes'[m1].block[i] = inodes'[m2].block[j]
                     PROVE  m1 = m2 /\ i = j
          BY DEF NoSharedBlocks
        <5>1. CASE m1 = n /\ m2 = n
          BY <3>2, <3>3, <3>4, <5>1
        <5>2. CASE m1 # n /\ m2 # n
          BY <3>2, <5>2 DEF Storage, SoundUntilFailure, NoSharedBlocks
        <5>3. CASE m1 = n /\ m2 # n
          BY <3>2, <3>3, <4>1, <5>3
        <5>4. CASE m1 # n /\ m2 = n
          BY <3>2, <3>3, <4>1, <5>4
        <5> QED
          BY <5>1, <5>2, <5>3, <5>4
      <4> QED
        BY <4>2, <4>3
    <3> QED
      BY <3>5, <3>6 DEF Storage
  <2>6. CASE WriteRollback(n, g)
    <3>1. block_used' = UsedAfterFree(n) /\ write_failed' = TRUE
      BY <2>6 DEF WriteRollback
    <3>2. /\ \A m \in Inodes \ {n} : inodes'[m] = inodes[m]
          /\ inodes'[n].mode = inodes[n].mode
      BY <1>2, <2>6, InodeType DEF WriteRollback, TypeOK, Inode
    <3>3. \A m \in Inodes \ {n}, b \in Blocks : Lists(m, b) => Lists(m, b)'
      BY <3>2 DEF Lists
    <3>4. \A b \in Blocks : block_used'[b] /\ b # 0 => \E m \in Inodes : Lists(m, b)'
      BY <1>2, <3>1, <3>3, OthersKeep
    <3>5. \A m \in Inodes : inodes'[m].mode = "free" => inodes'[m].blocks = 0
      BY <2>4, <3>2 DEF Storage, LeakOnlyBlockZero
    <3> QED
      BY <3>1, <3>4, <3>5 DEF Storage, LeakOnlyBlockZero, SoundUntilFailure
  <2> QED
    BY <2>2, <2>5, <2>6
<1> QED
  BY <1>1, <1>2

\* No block is in use at the start.
LEMMA InitStorage == Init => Storage
<1> SUFFICES ASSUME Init PROVE Storage
  OBVIOUS
<1>1. \A n \in Inodes : inodes[n].blocks = 0
  BY DEF Init, NewInode, EmptyInode
<1>2. \A b \in Blocks : ~block_used[b]
  BY DEF Init
<1> QED
  BY <1>1, <1>2 DEF Storage, LeakOnlyBlockZero, SoundUntilFailure, NoSharedBlocks

\* No block but block 0 is ever lost, and until a write runs out of blocks
\* no two files share one.
THEOREM StorageCorrect == Spec => [](LeakOnlyBlockZero /\ SoundUntilFailure)
<1>1. TypeOK /\ Tree /\ Storage /\ [Next]_fs_vars => Storage'
  <2> SUFFICES ASSUME TypeOK, Tree, Storage, [Next]_fs_vars PROVE Storage'
    OBVIOUS
  <2>1. CASE UNCHANGED fs_vars
    BY <2>1 DEF fs_vars, tables, Storage, LeakOnlyBlockZero,
                SoundUntilFailure, NoSharedBlocks, Lists
  <2>2. ASSUME NEW n \in Inodes, fs_change_dir(n) PROVE Storage'
    BY <2>2 DEF fs_change_dir, tables, Storage, LeakOnlyBlockZero,
                SoundUntilFailure, NoSharedBlocks, Lists
  <2>3. SlotsMatchInodes
    BY DEF Tree, EntriesMatchInodes
  <2>4. ASSUME NEW n \in {0} \cup Inodes, NEW data \in Data, NEW size \in Sizes,
               Write(n, data, size)
        PROVE  Storage'
    <3>1. n \in Inodes => inodes[n].mode # "free"
      BY <2>3, <2>4, WrittenRegular DEF FILE_REGULAR
    <3> QED
      BY <2>4, <3>1, WriteStorage DEF Write
  <2> QED
    BY <2>1, <2>2, <2>3, <2>4, CreateStorage, RemoveStorage DEF Next, Remove
<1>2. Storage => LeakOnlyBlockZero /\ SoundUntilFailure
  BY DEF Storage
<1>3. EntriesMatchInodes /\ ParentsFirst /\ NamesUnique => Tree
  BY DEF Tree
<1> QED
  BY <1>1, <1>2, <1>3, InitStorage, TypeCorrect, TreeCorrect, PTL DEF Spec

\* Of all blocks only block 0 can be lost, failed writes included.
THEOREM LeakCorrect == Spec => []LeakOnlyBlockZero
<1> QED
  BY StorageCorrect, PTL
=============================================================================
