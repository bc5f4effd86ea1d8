----------------------------- MODULE StoreProofs -----------------------------
(***************************************************************************)
(* Counting the blocks of bkFS, and the store that its tables represent,   *)
(* for any sizes of the tables.                                            *)
(*                                                                         *)
(* free_blocks is the number of free blocks because freeing a file counts  *)
(* positions of its block list, and these hold distinct used blocks: that  *)
(* is SoundUntilFailure.  Directories have no blocks, so the number of     *)
(* regular files bounds from below the blocks that a write finds free.     *)
(***************************************************************************)
EXTENDS BkFSProofs

\* As many values as arguments, and no fewer if they are all different.
LEMMA ImageCount ==
  ASSUME NEW S, IsFiniteSet(S), NEW T, NEW f \in [S -> T]
  PROVE  /\ IsFiniteSet(Range(f))
         /\ Cardinality(Range(f)) <= Cardinality(S)
         /\ (\A x, y \in S : f[x] = f[y] => x = y) =>
              Cardinality(Range(f)) = Cardinality(S)
<1> DEFINE I == Range(f)
<1> USE DEF Range
<1>1. f \in [S -> I] /\ \A y \in I : \E x \in S : f[x] = y
  OBVIOUS
<1>2. f \in Surjection(S, I)
  BY <1>1 DEF Surjection
<1>3. (\A x, y \in S : f[x] = f[y] => x = y) => f \in Injection(S, I)
  BY <1>1 DEF Injection, IsInjective
<1> HIDE DEF I, Range
<1>4. /\ IsFiniteSet(I) /\ Cardinality(I) <= Cardinality(S)
      /\ Cardinality(I) = Cardinality(S) <=> f \in Injection(S, I)
  BY <1>2, FS_Surjection
<1> QED
  BY <1>3, <1>4 DEF I

\* Taking k different elements away leaves k fewer.
LEMMA TakeCount ==
  ASSUME NEW U, IsFiniteSet(U), NEW k \in Nat, NEW g \in [1..k -> U],
         \A i, j \in 1..k : g[i] = g[j] => i = j
  PROVE  /\ k <= Cardinality(U)
         /\ Cardinality(U \ Range(g)) = Cardinality(U) - k
<1> DEFINE I == Range(g)
<1>1. IsFiniteSet(1..k) /\ Cardinality(1..k) = k
  BY FS_Interval
<1>2. IsFiniteSet(I) /\ Cardinality(I) = k
  BY <1>1, ImageCount
<1>3. I \subseteq U
  BY DEF Range
<1> HIDE DEF I
<1>4. Cardinality(I) <= Cardinality(U)
  BY <1>3, FS_Subset
<1>5. U \cap I = I
  BY <1>3
<1>6. Cardinality(U \ I) = Cardinality(U) - Cardinality(U \cap I)
  BY FS_Difference
<1> QED
  BY <1>2, <1>4, <1>5, <1>6 DEF I

-----------------------------------------------------------------------------
(* free_blocks                                                             *)

Unused == {b \in Blocks : ~block_used[b]}

UnusedAfterFree(n) == {b \in Blocks : ~UsedAfterFree(n)[b]}

\* There are MAX_BLOCKS blocks.
LEMMA BlocksCount ==
  /\ IsFiniteSet(Blocks) /\ Cardinality(Blocks) = MAX_BLOCKS
  /\ IsFiniteSet(Unused) /\ Cardinality(Unused) \in Nat
  /\ \A n : IsFiniteSet(UnusedAfterFree(n)) /\ Cardinality(UnusedAfterFree(n)) \in Nat
<1>1. IsFiniteSet(Blocks) /\ Cardinality(Blocks) = MAX_BLOCKS
  BY FS_Interval, TableSizes DEF Blocks
<1>2. Unused \subseteq Blocks /\ \A n : UnusedAfterFree(n) \subseteq Blocks
  BY DEF Unused, UnusedAfterFree
<1>3. IsFiniteSet(Unused) /\ \A n : IsFiniteSet(UnusedAfterFree(n))
  BY <1>1, <1>2, FS_Subset
<1> QED
  BY <1>1, <1>3, FS_CardinalityType

\* Freeing the blocks of an inode keeps the count right.
LEMMA FreeingCount ==
  ASSUME TypeOK, SoundUntilFailure, BlockAccounting, NEW n \in Inodes
  PROVE  /\ FreeAfterFree(n) >= Cardinality(UnusedAfterFree(n))
         /\ ~write_failed => FreeAfterFree(n) = Cardinality(UnusedAfterFree(n))
<1> DEFINE H == Held(n)
           f == [i \in H |-> inodes[n].block[i]]
           I == Range(f)
<1>1. H \subseteq 1..inodes[n].blocks /\ IsFiniteSet(H) /\ Cardinality(H) \in Nat
  <2>1. inodes[n].blocks \in Int
    BY InodeType, TableSizes
  <2>2. IsFiniteSet(1..inodes[n].blocks)
    BY <2>1, FS_Interval
  <2>3. IsFiniteSet(H)
    BY <2>2, FS_Subset DEF Held
  <2> QED
    BY <2>3, FS_CardinalityType DEF Held
<1>2. f \in [H -> Blocks]
  BY <1>1, ListedBlock
<1>3. UnusedAfterFree(n) = Unused \cup I
  BY <1>1, <1>2 DEF UnusedAfterFree, UsedAfterFree, Unused, Range
<1>4. ~write_failed => /\ \A i, j \in H : f[i] = f[j] => i = j
                       /\ Unused \cap I = {}
  BY <1>1, <1>2 DEF SoundUntilFailure, NoSharedBlocks, Unused, Range
<1>5. /\ free_blocks \in Nat /\ free_blocks >= Cardinality(Unused)
      /\ ~write_failed => free_blocks = Cardinality(Unused)
  BY DEF TypeOK, BlockAccounting, Unused
<1>6. FreeAfterFree(n) = free_blocks + Cardinality(H)
  BY DEF FreeAfterFree
<1> HIDE DEF H, f
<1>7. /\ IsFiniteSet(I) /\ Cardinality(I) <= Cardinality(H)
      /\ (\A i, j \in H : f[i] = f[j] => i = j) => Cardinality(I) = Cardinality(H)
  BY <1>1, <1>2, ImageCount
<1> HIDE DEF I
<1>8. Cardinality(I) \in Nat /\ Cardinality(Unused \cap I) \in Nat
  BY <1>7, BlocksCount, FS_Intersection, FS_CardinalityType
<1>9. Cardinality(Unused \cup I) =
        Cardinality(Unused) + Cardinality(I) - Cardinality(Unused \cap I)
  BY <1>7, BlocksCount, FS_Union
<1>10. ~write_failed => Cardinality(Unused \cap I) = 0
  BY <1>4, FS_EmptySet
<1>11. Cardinality(Unused) \in Nat
  BY BlocksCount
<1> QED
  BY <1>1, <1>3, <1>4, <1>5, <1>6, <1>7, <1>8, <1>9, <1>10, <1>11

\* What a write finds and takes.
LEMMA WriteCases ==
  ASSUME TypeOK, NEW n \in Inodes, NEW data \in Data, NEW size \in Sizes,
         fs_write_file(n, data, size), ~TooLarge(size)
  PROVE  \E k \in 0..INODE_DIRECT_BLOCKS : \E g \in [1..k -> UnusedAfterFree(n)] :
           /\ \A i, j \in 1..k : g[i] = g[j] => i = j
           /\ BlocksNeeded(size) \in 0..INODE_DIRECT_BLOCKS
           /\ \/ k = BlocksNeeded(size) /\ WriteBlocks(n, data, size, g)
              \/ /\ k < BlocksNeeded(size)
                 /\ Exhausted(g, UsedAfterFree(n), FreeAfterFree(n))
                 /\ WriteRollback(n, g)
<1>1. BlocksNeeded(size) \in 0..INODE_DIRECT_BLOCKS
  BY InputAssumption, BlocksNeededType, TableSizes DEF TooLarge
<1>2. PICK k \in 0..BlocksNeeded(size) :
        \E g \in [1..k -> UnusedAfterFree(n)] :
          /\ AllocRun(g, UsedAfterFree(n), FreeAfterFree(n))
          /\ \/ k = BlocksNeeded(size) /\ WriteBlocks(n, data, size, g)
             \/ /\ k < BlocksNeeded(size)
                /\ Exhausted(g, UsedAfterFree(n), FreeAfterFree(n))
                /\ WriteRollback(n, g)
  BY DEF fs_write_file, UnusedAfterFree
<1>3. PICK g \in [1..k -> UnusedAfterFree(n)] :
        /\ AllocRun(g, UsedAfterFree(n), FreeAfterFree(n))
        /\ \/ k = BlocksNeeded(size) /\ WriteBlocks(n, data, size, g)
           \/ /\ k < BlocksNeeded(size)
              /\ Exhausted(g, UsedAfterFree(n), FreeAfterFree(n))
              /\ WriteRollback(n, g)
  BY <1>2
<1>4. k \in 0..INODE_DIRECT_BLOCKS
  BY <1>1, TableSizes
<1>5. \A i, j \in 1..k : g[i] = g[j] => i = j
  BY <1>3, <1>4, TableSizes DEF AllocRun
<1> QED
  BY <1>1, <1>3, <1>4, <1>5

\* Writing keeps the count right, a write that fails included.
LEMMA WriteCount ==
  ASSUME TypeOK, Storage, BlockAccounting, NEW n \in Inodes, NEW data \in Data,
         NEW size \in Sizes, fs_write_file(n, data, size)
  PROVE  BlockAccounting'
<1>1. CASE TooLarge(size)
  BY <1>1 DEF fs_write_file, BlockAccounting
<1>2. CASE ~TooLarge(size)
  <2>1. PICK k \in 0..INODE_DIRECT_BLOCKS : \E g \in [1..k -> UnusedAfterFree(n)] :
          /\ \A i, j \in 1..k : g[i] = g[j] => i = j
          /\ \/ k = BlocksNeeded(size) /\ WriteBlocks(n, data, size, g)
             \/ WriteRollback(n, g)
    BY <1>2, WriteCases
  <2>2. PICK g \in [1..k -> UnusedAfterFree(n)] :
          /\ \A i, j \in 1..k : g[i] = g[j] => i = j
          /\ \/ k = BlocksNeeded(size) /\ WriteBlocks(n, data, size, g)
             \/ WriteRollback(n, g)
    BY <2>1
  <2>3. /\ FreeAfterFree(n) >= Cardinality(UnusedAfterFree(n))
        /\ ~write_failed => FreeAfterFree(n) = Cardinality(UnusedAfterFree(n))
        /\ FreeAfterFree(n) \in Nat /\ Cardinality(UnusedAfterFree(n)) \in Nat
    BY FreeingCount, FreeingType, BlocksCount DEF Storage
  <2>4. CASE k = BlocksNeeded(size) /\ WriteBlocks(n, data, size, g)
    <3>1. /\ block_used' = [b \in Blocks |->
                              UsedAfterFree(n)[b] \/ \E i \in DOMAIN g : g[i] = b]
          /\ free_blocks' = FreeAfterFree(n) - k
          /\ UNCHANGED write_failed
      BY <2>4 DEF WriteBlocks
    <3>2. Unused' = UnusedAfterFree(n) \ Range(g)
      BY <3>1 DEF Unused, UnusedAfterFree, Range
    <3>3. k \in Nat /\ IsFiniteSet(UnusedAfterFree(n))
      BY BlocksCount, TableSizes
    <3>4. Cardinality(Unused') = Cardinality(UnusedAfterFree(n)) - k
      BY <2>2, <3>2, <3>3, TakeCount
    <3>5. /\ free_blocks' >= Cardinality(Unused')
          /\ ~write_failed' => free_blocks' = Cardinality(Unused')
      BY <2>3, <3>1, <3>3, <3>4
    <3> QED
      BY <3>5 DEF BlockAccounting, Unused
  <2>5. CASE WriteRollback(n, g)
    <3>1. /\ block_used' = UsedAfterFree(n) /\ free_blocks' = FreeAfterFree(n)
          /\ write_failed' = TRUE
      BY <2>5 DEF WriteRollback
    <3> QED
      BY <2>3, <3>1 DEF BlockAccounting, UnusedAfterFree
  <2> QED
    BY <2>2, <2>4, <2>5
<1> QED
  BY <1>1, <1>2

\* So does deleting.
LEMMA RemoveCount ==
  ASSUME TypeOK, Storage, BlockAccounting, NEW n \in {0} \cup Inodes, fs_delete_file(n)
  PROVE  BlockAccounting'
<1>1. CASE n \notin Inodes
  BY <1>1 DEF fs_delete_file, tables, BlockAccounting
<1>2. CASE n \in Inodes
  <2>1. /\ block_used' = UsedAfterFree(n) /\ free_blocks' = FreeAfterFree(n)
        /\ UNCHANGED write_failed
    BY <1>2 DEF fs_delete_file
  <2> QED
    BY <1>2, <2>1, FreeingCount DEF BlockAccounting, UnusedAfterFree, Storage
<1> QED
  BY <1>1, <1>2

\* At the start all blocks are free.
LEMMA InitCount == Init => BlockAccounting
<1> SUFFICES ASSUME Init PROVE BlockAccounting
  OBVIOUS
<1>1. Unused = Blocks /\ free_blocks = MAX_BLOCKS
  BY DEF Init, Unused
<1> QED
  BY <1>1, BlocksCount, TableSizes DEF BlockAccounting, Unused

\* free_blocks counts the free blocks, and never too few of them.
THEOREM AccountingCorrect == Spec => []BlockAccounting
<1>2. TypeOK /\ Storage /\ BlockAccounting /\ [Next]_fs_vars => BlockAccounting'
  <2> SUFFICES ASSUME TypeOK, Storage, BlockAccounting, [Next]_fs_vars
               PROVE  BlockAccounting'
    OBVIOUS
  <2>1. CASE UNCHANGED <<block_used, free_blocks, write_failed>>
    BY <2>1 DEF BlockAccounting
  <2>2. ASSUME NEW name \in Names, NEW type \in Types, Create(name, type)
        PROVE  UNCHANGED <<block_used, free_blocks, write_failed>>
    BY <2>2 DEF Create, fs_create_file, tables
  <2>3. ASSUME NEW n \in {0} \cup Inodes, Remove(n)
        PROVE  BlockAccounting'
    BY <2>3, RemoveCount DEF Remove
  <2>4. ASSUME NEW n \in {0} \cup Inodes, NEW data \in Data, NEW size \in Sizes,
               Write(n, data, size)
        PROVE  BlockAccounting'
    <3>1. CASE n \notin Inodes
      BY <2>1, <2>4, <3>1 DEF Write, fs_write_file
    <3> QED
      BY <2>4, <3>1, WriteCount DEF Write
  <2>5. ASSUME NEW n \in Inodes, fs_change_dir(n)
        PROVE  UNCHANGED <<block_used, free_blocks, write_failed>>
    BY <2>5 DEF fs_change_dir, tables
  <2>6. CASE UNCHANGED fs_vars
    BY <2>1, <2>6 DEF fs_vars, tables
  <2> QED
    BY <2>1, <2>2, <2>3, <2>4, <2>5, <2>6 DEF Next
<1>3. LeakOnlyBlockZero /\ SoundUntilFailure => Storage
  BY DEF Storage
<1> QED
  BY <1>2, <1>3, InitCount, TypeCorrect, StorageCorrect, PTL DEF Spec

-----------------------------------------------------------------------------
(* Room for every write                                                    *)

\* Only files that are regular are written, so a directory has no blocks.
DirsEmpty == \A n \in Inodes : inodes[n].mode = FILE_DIR => inodes[n].blocks = 0

LiveNodes == {n \in Inodes : inodes[n].mode # "free"}

\* There are as many inodes in use as entries.
LEMMA LiveCount ==
  ASSUME TypeOK, SlotsMatchInodes
  PROVE  /\ IsFiniteSet(LiveNodes)
         /\ Cardinality(LiveNodes) = file_count - InitFileCount
<1> DEFINE s == [k \in Live |-> files[k].inode]
<1>1. IsFiniteSet(Live) /\ Cardinality(Live) = file_count - InitFileCount
  <2>1. InitFileCount + 1 \in Int /\ file_count \in Int /\ InitFileCount < file_count
    BY TableSizes DEF TypeOK, SlotsMatchInodes
  <2> QED
    BY <2>1, FS_Interval, TableSizes DEF Live
<1>2. s \in [Live -> Inodes] /\ \A k, l \in Live : s[k] = s[l] => k = l
  BY DEF SlotsMatchInodes
<1>3. Range(s) = LiveNodes
  <2>1. \A k \in Live : inodes[files[k].inode].mode # "free"
    BY LiveInSlots, FileType DEF SlotsMatchInodes, Types, FILE_DIR, FILE_REGULAR
  <2>2. \A k \in Live : s[k] \in LiveNodes
    BY <1>2, <2>1 DEF LiveNodes
  <2>3. \A n \in LiveNodes : \E k \in Live : s[k] = n
    BY DEF LiveNodes, SlotsMatchInodes
  <2> QED
    BY <2>2, <2>3 DEF Range
<1> HIDE DEF s
<1> QED
  BY <1>1, <1>2, <1>3, ImageCount

\* If all the blocks are those of a set F of inodes, each with no more than D,
\* and there is room for D blocks in each and for a block to lose, then one of
\* them that has been cut to nothing finds room for D blocks.
LEMMA RoomForFiles ==
  ASSUME TypeOK, Storage, NEW D \in Nat, NEW F \in SUBSET Inodes,
         \A m \in Inodes : inodes[m].blocks <= D,
         \A m \in Inodes : inodes[m].blocks # 0 => m \in F,
         Cardinality(F) * D + 1 <= MAX_BLOCKS,
         NEW n \in F
  PROVE  Cardinality(UnusedAfterFree(n)) >= D
<1> DEFINE L == F \ {n}
           P == L \X (1..D)
           f == [p \in P |-> IF p[2] \in Direct THEN inodes[p[1]].block[p[2]] ELSE 0]
           W == Blocks \ UnusedAfterFree(n)
<1>1. /\ IsFiniteSet(L) /\ Cardinality(L) = Cardinality(F) - 1
      /\ Cardinality(L) \in Nat /\ Cardinality(F) \in Nat
  <2>1. IsFiniteSet(Inodes)
    BY FS_Interval, TableSizes DEF Inodes
  <2>2. IsFiniteSet(F)
    BY <2>1, FS_Subset
  <2>3. IsFiniteSet(L) /\ Cardinality(L) = Cardinality(F) - 1
    BY <2>2, FS_RemoveElement
  <2> QED
    BY <2>2, <2>3, FS_CardinalityType
<1>2. IsFiniteSet(1..D) /\ Cardinality(1..D) = D
  BY FS_Interval
<1> HIDE DEF L
<1>3. IsFiniteSet(P) /\ Cardinality(P) = Cardinality(L) * D
  BY <1>1, <1>2, FS_Product
<1>4. f \in [P -> Blocks]
  <2>1. L \subseteq Inodes
    BY DEF L
  <2>2. 0 \in Blocks
    BY TableSizes DEF Blocks
  <2> QED
    BY <2>1, <2>2, InodeType
<1>5. W \subseteq Range(f) \cup {0}
  <2> SUFFICES ASSUME NEW b \in Blocks, UsedAfterFree(n)[b], b # 0
               PROVE  \E p \in P : f[p] = b
    BY DEF UnusedAfterFree, Range
  <2>0. n \in Inodes
    OBVIOUS
  <2>1. PICK m \in Inodes \ {n} : Lists(m, b)
    BY <2>0, OthersKeep
  <2>2. PICK i \in 1..inodes[m].blocks : inodes[m].block[i] = b
    BY <2>1 DEF Lists
  <2>3. i \in Direct /\ inodes[m].blocks # 0 /\ i \in 1..D
    BY <2>2, ListedBlock, InodeType, TableSizes
  <2>5. m \in L
    BY <2>3 DEF L
  <2>6. <<m, i>> \in P /\ f[<<m, i>>] = b
    BY <2>2, <2>3, <2>5
  <2> QED
    BY <2>6
<1> HIDE DEF P, f
<1>6. /\ IsFiniteSet(Range(f)) /\ Cardinality(Range(f)) <= Cardinality(P)
      /\ Cardinality(Range(f)) \in Nat
  BY <1>3, <1>4, ImageCount, FS_CardinalityType
<1>7. /\ IsFiniteSet(Range(f) \cup {0})
      /\ Cardinality(Range(f) \cup {0}) <= Cardinality(Range(f)) + 1
      /\ Cardinality(Range(f) \cup {0}) \in Nat
  <2>1. /\ IsFiniteSet(Range(f) \cup {0})
        /\ Cardinality(Range(f) \cup {0}) =
             IF 0 \in Range(f) THEN Cardinality(Range(f)) ELSE Cardinality(Range(f)) + 1
    BY <1>6, FS_AddElement
  <2> QED
    BY <1>6, <2>1
<1>8. IsFiniteSet(W) /\ Cardinality(W) <= Cardinality(Range(f) \cup {0})
  BY <1>5, <1>7, FS_Subset
<1>9. Cardinality(UnusedAfterFree(n)) = MAX_BLOCKS - Cardinality(W)
  <2>1. UnusedAfterFree(n) \subseteq Blocks
    BY DEF UnusedAfterFree
  <2>2. Blocks \cap UnusedAfterFree(n) = UnusedAfterFree(n)
    BY <2>1
  <2>3. Cardinality(W) = Cardinality(Blocks) - Cardinality(Blocks \cap UnusedAfterFree(n))
    BY BlocksCount, FS_Difference
  <2>4. Cardinality(W) = MAX_BLOCKS - Cardinality(UnusedAfterFree(n))
    BY <2>2, <2>3, BlocksCount
  <2>5. Cardinality(UnusedAfterFree(n)) \in Nat
    BY BlocksCount
  <2> QED
    BY <2>4, <2>5, TableSizes
<1>10. Cardinality(F) * D = Cardinality(L) * D + D
  BY <1>1
<1>11. Cardinality(L) * D \in Int /\ Cardinality(W) \in Nat
  BY <1>1, <1>8, FS_CardinalityType
<1>12. Cardinality(W) <= Cardinality(L) * D + 1
  BY <1>3, <1>6, <1>7, <1>8, <1>11
<1> QED
  BY <1>9, <1>10, <1>11, <1>12, TableSizes

\* If no file has more than D blocks, and there is room for D blocks in every
\* entry besides the root and for a block to lose, then a file that has been cut
\* to nothing finds room for D blocks.
LEMMA RoomForWrite ==
  ASSUME TypeOK, SlotsMatchInodes, Storage, NEW D \in Nat,
         \A m \in Inodes : inodes[m].blocks <= D,
         (MAX_FILES - InitFileCount - 1) * D + 1 <= MAX_BLOCKS,
         inodes[1].mode # "free", inodes[1].blocks = 0,
         NEW n \in Inodes, n # 1, inodes[n].mode # "free"
  PROVE  Cardinality(UnusedAfterFree(n)) >= D
<1> DEFINE F == LiveNodes \ {1}
<1>1. 1 \in Inodes
  BY TableSizes DEF Inodes
<1>2. F \in SUBSET Inodes /\ n \in F /\ 1 \in LiveNodes
  BY <1>1 DEF LiveNodes
<1>3. \A m \in Inodes : inodes[m].blocks # 0 => m \in F
  BY DEF Storage, LeakOnlyBlockZero, LiveNodes
<1>4. /\ Cardinality(F) \in Nat /\ Cardinality(F) <= MAX_FILES - InitFileCount - 1
      /\ MAX_FILES - InitFileCount - 1 \in Nat
  <2>1. IsFiniteSet(F) /\ Cardinality(F) = Cardinality(LiveNodes) - 1
    BY <1>2, LiveCount, FS_RemoveElement
  <2>2. file_count \in Nat /\ file_count <= MAX_FILES
    BY TableSizes DEF TypeOK
  <2>3. Cardinality(F) \in Nat
    BY <2>1, FS_CardinalityType
  <2> QED
    BY <2>1, <2>2, <2>3, LiveCount, TableSizes
<1> HIDE DEF F
<1>5. Cardinality(F) * D <= (MAX_FILES - InitFileCount - 1) * D
  <2>1. \A x, y, z \in Nat : x <= y => x * z <= y * z
    OBVIOUS
  <2> QED
    BY <1>4, <2>1
<1>6. /\ Cardinality(F) * D \in Int /\ (MAX_FILES - InitFileCount - 1) * D \in Int
  BY <1>4
<1>7. Cardinality(F) * D + 1 <= MAX_BLOCKS
  BY <1>5, <1>6, TableSizes
<1> QED
  BY <1>2, <1>3, <1>7, RoomForFiles

\* A directory never gets a block.
LEMMA DirsEmptyStep ==
  ASSUME TypeOK, Tree, DirsEmpty, [Next]_fs_vars
  PROVE  DirsEmpty'
<1>1. CASE UNCHANGED inodes
  BY <1>1 DEF DirsEmpty
<1>2. ASSUME NEW name \in Names, NEW type \in Types, Create(name, type)
      PROVE  DirsEmpty'
  <2>1. CASE \E n \in Inodes : inodes' = [inodes EXCEPT ![n] = NewInode(type)]
    <3>1. NewInode(type).blocks = 0
      BY DEF NewInode, EmptyInode
    <3> QED
      BY <2>1, <3>1 DEF DirsEmpty, TypeOK
  <2> QED
    BY <1>1, <1>2, <2>1 DEF Create, fs_create_file, tables
<1>3. ASSUME NEW n \in {0} \cup Inodes, Remove(n)
      PROVE  DirsEmpty'
  <2>1. CASE n \in Inodes /\ inodes' = [inodes EXCEPT ![n] = EmptyInode]
    BY <2>1 DEF DirsEmpty, TypeOK, EmptyInode
  <2> QED
    BY <1>1, <1>3, <2>1 DEF Remove, fs_delete_file, tables
<1>4. ASSUME NEW n \in {0} \cup Inodes, NEW data \in Data, NEW size \in Sizes,
             Write(n, data, size)
      PROVE  DirsEmpty'
  <2>1. CASE n \in Inodes
    <3>1. UNCHANGED inodes \/ \E g : WriteBlocks(n, data, size, g) \/ WriteRollback(n, g)
      BY <1>4 DEF Write, fs_write_file
    <3>2. /\ \A m \in Inodes \ {n} : inodes'[m] = inodes[m]
          /\ inodes'[n].mode = inodes[n].mode
      BY <2>1, <3>1, InodeType DEF WriteBlocks, WriteRollback, TypeOK, Inode
    <3>3. inodes[n].mode # FILE_DIR
      BY <1>4, <2>1, WrittenRegular DEF Tree, EntriesMatchInodes, FILE_DIR, FILE_REGULAR
    <3> QED
      BY <3>2, <3>3 DEF DirsEmpty
  <2> QED
    BY <1>1, <1>4, <2>1 DEF Write, fs_write_file
<1>5. ASSUME NEW n \in Inodes, fs_change_dir(n)
      PROVE  UNCHANGED inodes
  BY <1>5 DEF fs_change_dir, tables
<1>6. CASE UNCHANGED fs_vars
  BY <1>1, <1>6 DEF fs_vars, tables
<1> QED
  BY <1>1, <1>2, <1>3, <1>4, <1>5, <1>6 DEF Next

\* A write fails only when the free blocks are fewer than it needs.
LEMMA FailedWrite ==
  ASSUME TypeOK, Storage, BlockAccounting, ~write_failed,
         NEW n \in {0} \cup Inodes, NEW data \in Data, NEW size \in Sizes,
         fs_write_file(n, data, size), write_failed'
  PROVE  /\ n \in Inodes
         /\ BlocksNeeded(size) \in 0..INODE_DIRECT_BLOCKS
         /\ Cardinality(UnusedAfterFree(n)) < BlocksNeeded(size)
<1>1. n \in Inodes /\ ~TooLarge(size)
  BY DEF fs_write_file
<1>2. PICK k \in 0..INODE_DIRECT_BLOCKS : \E g \in [1..k -> UnusedAfterFree(n)] :
        /\ BlocksNeeded(size) \in 0..INODE_DIRECT_BLOCKS
        /\ k < BlocksNeeded(size)
        /\ Exhausted(g, UsedAfterFree(n), FreeAfterFree(n))
  <2>1. \A g : ~WriteBlocks(n, data, size, g)
    BY DEF WriteBlocks
  <2> QED
    BY <1>1, <2>1, WriteCases
<1>3. PICK g \in [1..k -> UnusedAfterFree(n)] :
        Exhausted(g, UsedAfterFree(n), FreeAfterFree(n))
  BY <1>2
<1>4. IsFiniteSet(1..k) /\ Cardinality(1..k) = k /\ k \in Nat
  BY FS_Interval, TableSizes
<1>5. CASE FreeAfterFree(n) = Cardinality(DOMAIN g)
  <2>1. Cardinality(DOMAIN g) = k
    BY <1>4
  <2>2. FreeAfterFree(n) = Cardinality(UnusedAfterFree(n))
    BY <1>1, FreeingCount DEF Storage
  <2> QED
    BY <1>1, <1>2, <1>5, <2>1, <2>2
<1>6. CASE \A b \in Blocks : UsedAfterFree(n)[b] \/ \E j \in DOMAIN g : g[j] = b
  <2>1. UnusedAfterFree(n) \subseteq Range(g)
    BY <1>6 DEF UnusedAfterFree, Range
  <2>2. IsFiniteSet(Range(g)) /\ Cardinality(Range(g)) <= k
    BY <1>4, ImageCount
  <2>3. Cardinality(UnusedAfterFree(n)) <= Cardinality(Range(g))
    BY <2>1, <2>2, FS_Subset
  <2>4. Cardinality(UnusedAfterFree(n)) \in Nat /\ Cardinality(Range(g)) \in Nat
    BY <2>2, BlocksCount, FS_CardinalityType
  <2> QED
    BY <1>1, <1>2, <1>4, <2>2, <2>3, <2>4, TableSizes
<1> QED
  BY <1>1, <1>2, <1>3, <1>5, <1>6 DEF Exhausted

\* Directories have no blocks, whatever is created, removed and written.
LEMMA DirsCorrect == Spec => []DirsEmpty
<1>1. Init => DirsEmpty
  BY DEF Init, DirsEmpty, NewInode, EmptyInode
<1>2. EntriesMatchInodes /\ ParentsFirst /\ NamesUnique => Tree
  BY DEF Tree
<1> QED
  BY <1>1, <1>2, DirsEmptyStep, TypeCorrect, TreeCorrect, PTL DEF Spec

\* No write runs out of blocks while there are no more files than the blocks
\* have room for.
THEOREM WritesCorrect == Spec => WritesFit
<1>1. ASSUME TypeOK, Tree, Storage, DirsEmpty, BlockAccounting, [Next]_fs_vars,
             FewFiles, ~write_failed
      PROVE  ~write_failed'
  <2> SUFFICES ASSUME write_failed'
               PROVE  FALSE
    OBVIOUS
  <2>2. PICK n \in {0} \cup Inodes, data \in Data, size \in Sizes : Write(n, data, size)
    BY <1>1 DEF Next, Create, fs_create_file, Remove, fs_delete_file,
                fs_change_dir, fs_vars
  <2>3. /\ n \in Inodes /\ BlocksNeeded(size) \in 0..INODE_DIRECT_BLOCKS
        /\ Cardinality(UnusedAfterFree(n)) < BlocksNeeded(size)
    BY <1>1, <2>2, FailedWrite DEF Write
  <2>4. Cardinality(UnusedAfterFree(n)) >= INODE_DIRECT_BLOCKS
    <3>1. SlotsMatchInodes
      BY <1>1 DEF Tree, EntriesMatchInodes
    <3>2. n \in RegularInodes /\ RegularInodes \in SUBSET Inodes
      BY <1>1, <2>2, <2>3, <3>1, WrittenRegular DEF RegularInodes
    <3>3. ASSUME NEW m \in Inodes, inodes[m].blocks # 0
          PROVE  m \in RegularInodes
      <4>1. inodes[m].mode \in Types \cup {"free"}
        BY <1>1 DEF TypeOK, Inode
      <4> QED
        BY <1>1, <3>3, <4>1
        DEF DirsEmpty, Storage, LeakOnlyBlockZero, RegularInodes, Types, FILE_REGULAR, FILE_DIR
    <3>4. /\ INODE_DIRECT_BLOCKS \in Nat
          /\ \A m \in Inodes : inodes[m].blocks <= INODE_DIRECT_BLOCKS
      BY <1>1, InodeType, TableSizes
    <3>5. Cardinality(RegularInodes) * INODE_DIRECT_BLOCKS + 1 <= MAX_BLOCKS
      BY <1>1 DEF FewFiles
    <3> QED
      BY <1>1, <3>2, <3>3, <3>4, <3>5, RoomForFiles
  <2>5. Cardinality(UnusedAfterFree(n)) \in Nat
    BY BlocksCount
  <2> QED
    BY <2>3, <2>4, <2>5, TableSizes
<1>2. /\ TypeOK /\ Tree /\ Storage /\ DirsEmpty /\ BlockAccounting /\ [Next]_fs_vars
      => [FewFiles /\ ~write_failed => ~write_failed']_fs_vars
  BY <1>1
<1>3. EntriesMatchInodes /\ ParentsFirst /\ NamesUnique => Tree
  BY DEF Tree
<1>4. LeakOnlyBlockZero /\ SoundUntilFailure => Storage
  BY DEF Storage
<1> QED
  BY <1>2, <1>3, <1>4, DirsCorrect, AccountingCorrect, TypeCorrect,
     TreeCorrect, StorageCorrect, PTL DEF Spec, WritesFit

-----------------------------------------------------------------------------
(* The store                                                               *)

Entries == [n \in LiveInodes |-> EntryOf(n)]

\* What is read of a file whose inode is r from blocks bl.
ReadOf(r, bl) ==
  [size |-> r.size,
   data |-> [i \in 1..(IF BlocksNeeded(r.size) > r.blocks
                       THEN r.blocks ELSE BlocksNeeded(r.size)) |-> bl[r.block[i]]]]

EntryRec(f, r, bl) ==
  [name |-> f.name, parent |-> f.parent_inode, type |-> f.type,
   contents |-> ReadOf(r, bl)]

\* An inode has one entry, and SlotOf finds it.
LEMMA EntryAt ==
  TypeOK /\ EntriesMatchInodes =>
    \A m \in Inodes, k \in Live :
      files[k].inode = m => EntryOf(m) = EntryRec(files[k], inodes[m], blocks)
<1> SUFFICES ASSUME TypeOK, EntriesMatchInodes, NEW n \in Inodes, NEW k \in Live,
                    files[k].inode = n
             PROVE  EntryOf(n) = EntryRec(files[k], inodes[n], blocks)
  OBVIOUS
<1>1. \A j \in Live : files[j].inode = n => j = k
  BY DEF EntriesMatchInodes, SlotsMatchInodes
<1>2. SlotOf(n) = k
  BY <1>1 DEF SlotOf
<1>3. inodes[n].size \in Nat
  BY <1>1, InodeType
<1>4. fs_read_file(n, inodes[n].size) = ReadOf(inodes[n], blocks)
  BY <1>3 DEF fs_read_file, ReadOf
<1>5. files[SlotOf(n)] = files[k]
  BY <1>2
<1> QED
  BY <1>4, <1>5 DEF EntryOf, EntryRec

\* The same after a step.
LEMMA EntryAtNext ==
  TypeOK' /\ EntriesMatchInodes' =>
    (\A m \in Inodes, k \in Live :
       files[k].inode = m => EntryOf(m) = EntryRec(files[k], inodes[m], blocks))'
  BY EntryAt, PTL

\* Every inode in use has an entry: the identifiers of the store.
LEMMA LiveIds ==
  ASSUME EntriesMatchInodes
  PROVE  /\ LiveInodes \subseteq Inodes
         /\ \A m : m \in LiveInodes <=> \E k \in Live : files[k].inode = m
  BY DEF LiveInodes, EntriesMatchInodes, SlotsMatchInodes

\* An entry that has moved to another slot at most, and whose inode and blocks
\* are as before, is the same entry.
LEMMA EntryKept ==
  ASSUME TypeOK, EntriesMatchInodes, TypeOK', EntriesMatchInodes',
         NEW m \in Inodes, NEW k \in Live, NEW l \in Live',
         files[k].inode = m, files'[l] = files[k], inodes'[m] = inodes[m],
         \A i \in 1..inodes[m].blocks :
           blocks'[inodes[m].block[i]] = blocks[inodes[m].block[i]]
  PROVE  EntryOf(m)' = EntryOf(m)
<1>1. EntryOf(m) = EntryRec(files[k], inodes[m], blocks)
  BY EntryAt
<1>2. EntryOf(m)' = EntryRec(files'[l], inodes'[m], blocks')
  BY EntryAtNext
<1>3. ReadOf(inodes[m], blocks') = ReadOf(inodes[m], blocks)
  <2> DEFINE s == BlocksNeeded(inodes[m].size)
             b == inodes[m].blocks
             last == IF s > b THEN b ELSE s
  <2>1. s \in Nat /\ b \in Nat
    BY InodeType, BlocksNeededType, TableSizes
  <2>2. 1..last \subseteq 1..b
    BY <2>1
  <2>3. [i \in 1..last |-> blocks'[inodes[m].block[i]]] =
        [i \in 1..last |-> blocks[inodes[m].block[i]]]
    BY <2>2
  <2> QED
    BY <2>3 DEF ReadOf
<1> QED
  BY <1>1, <1>2, <1>3 DEF EntryRec

\* A step that changes neither tables nor working directory is no step of the
\* store.
LEMMA StoreStutter ==
  ASSUME UNCHANGED <<inodes, blocks, files, file_count, current_inode>>
  PROVE  UNCHANGED <<Entries, current_inode>>
  BY DEF Entries, LiveInodes, Live, EntryOf, SlotOf, fs_read_file

\* What fs_create_file makes: an entry with nothing in it.
LEMMA NothingRead ==
  ASSUME NEW type, NEW bl
  PROVE  ReadOf(NewInode(type), bl) = [size |-> 0, data |-> << >>]
<1>1. NewInode(type).size = 0 /\ NewInode(type).blocks = 0
  BY DEF NewInode, EmptyInode
<1>2. BlocksNeeded(0) = 0
  BY TableSizes DEF BlocksNeeded
<1>3. \A r : [i \in 1..0 |-> bl[r[i]]] = << >>
  OBVIOUS
<1> QED
  BY <1>1, <1>2, <1>3 DEF ReadOf

\* A creation that succeeds is StoreCreate.
LEMMA CreateStores ==
  ASSUME TypeOK, Tree, TypeOK', Tree', NEW name \in Names, NEW type \in Types,
         Create(name, type), CanCreate(name)
  PROVE  \E id \in Inodes : Store!StoreCreate(id, name, type)
<1> EntriesMatchInodes /\ EntriesMatchInodes'
  BY DEF Tree
<1> DEFINE new == file_count + 1
<1>1. PICK n \in Inodes :
        /\ inodes[n].mode = "free"
        /\ inodes' = [inodes EXCEPT ![n] = NewInode(type)]
        /\ file_count' = file_count + 1
        /\ free_inodes' = free_inodes - 1
        /\ current_inode' = current_inode
        /\ Live' = Live \cup {new}
        /\ new \in Slots /\ new \notin Live
        /\ files'[new] = [inode |-> n, name |-> name,
                          parent_inode |-> current_inode, type |-> type]
        /\ \A k \in Slots : k # new => files'[k] = files[k]
        /\ \A k \in Live : files[k].inode # n
  <2>1. SlotsMatchInodes
    BY DEF EntriesMatchInodes
  <2> QED
    BY <2>1, CreateSlots
<1>2. UNCHANGED blocks
  BY DEF Create, fs_create_file
<1> HIDE DEF new
<1>3. \A k \in Live : k \in Live' /\ files'[k] = files[k]
  BY <1>1, LiveInSlots
<1>4. ASSUME NEW m \in LiveInodes
      PROVE  m \in Inodes /\ m # n /\ EntryOf(m)' = EntryOf(m)
  <2>1. PICK k \in Live : files[k].inode = m
    BY <1>4, LiveIds
  <2>2. m \in Inodes /\ m # n
    BY <1>1, <2>1, LiveIds
  <2>3. inodes'[m] = inodes[m]
    BY <1>1, <2>2 DEF TypeOK
  <2> QED
    BY <1>2, <1>3, <2>1, <2>2, <2>3, EntryKept
<1>5. LiveInodes' = LiveInodes \cup {n}
  <2>1. LiveInodes' = {files'[k].inode : k \in Live \cup {new}}
    BY <1>1 DEF LiveInodes
  <2>2. files'[new].inode = n
    BY <1>1
  <2> QED
    BY <1>3, <2>1, <2>2 DEF LiveInodes
<1>6. EntryOf(n)' = [name |-> name, parent |-> current_inode, type |-> type,
                     contents |-> [size |-> 0, data |-> << >>]]
  <2>1. new \in Live' /\ files'[new].inode = n
    BY <1>1
  <2>2. EntryOf(n)' = EntryRec(files'[new], inodes'[n], blocks')
    BY <2>1, EntryAtNext
  <2>3. inodes'[n] = NewInode(type)
    BY <1>1 DEF TypeOK
  <2> QED
    BY <1>1, <2>2, <2>3, NothingRead DEF EntryRec
<1>7. n \notin LiveInodes
  BY <1>4
<1>8. ASSUME NEW m \in LiveInodes, EntryOf(m).parent = current_inode
      PROVE  EntryOf(m).name # name
  <2>1. PICK k \in Live : files[k].inode = m
    BY <1>8, LiveIds
  <2>2. EntryOf(m) = EntryRec(files[k], inodes[m], blocks)
    BY <1>4, <2>1, EntryAt
  <2>3. files[k].parent_inode = current_inode /\ EntryOf(m).name = files[k].name
    BY <1>8, <2>2 DEF EntryRec
  <2>4. k \in 1..file_count
    BY LiveInSlots
  <2> QED
    BY <2>3, <2>4 DEF CanCreate, file_exists_in_current_dir, InDir
<1>9. Entries' = [e \in LiveInodes \cup {n} |->
                    IF e = n THEN [name |-> name, parent |-> current_inode, type |-> type,
                                   contents |-> [size |-> 0, data |-> << >>]]
                    ELSE EntryOf(e)]
  <2>1. Entries' = [e \in LiveInodes \cup {n} |-> EntryOf(e)']
    BY <1>5 DEF Entries
  <2> QED
    BY <1>4, <1>6, <1>7, <2>1
<1>10. Store!StoreCreate(n, name, type)
  BY <1>1, <1>7, <1>8, <1>9 DEF Store!StoreCreate, Store!Nothing, Entries
<1> QED
  BY <1>10

\* A removal is StoreRemove: the entries that move down stay what they are.
LEMMA RemoveStores ==
  ASSUME TypeOK, Tree, TypeOK', Tree', NEW n \in Inodes, Remove(n)
  PROVE  Store!StoreRemove(n)
<1> EntriesMatchInodes /\ EntriesMatchInodes'
  BY DEF Tree
<1>1. PICK k \in Live :
        /\ files[k].inode = n
        /\ k > InitFileCount + 1
        /\ n # 1 /\ n # current_inode
        /\ \A j \in Live : files[j].parent_inode # n
        /\ file_count' = file_count - 1
        /\ Live' = Live \ {file_count}
        /\ \A j \in 1..InitFileCount : files'[j] = files[j]
        /\ \A j \in Live' : /\ j < k => files'[j] = files[j]
                            /\ j >= k => /\ files'[j] = files[j + 1]
                                         /\ j + 1 \in Live
  BY RemoveSlots
<1>2. /\ inodes' = [inodes EXCEPT ![n] = EmptyInode]
      /\ UNCHANGED <<blocks, current_inode>>
  BY DEF Remove, fs_delete_file
<1>3. files[k].parent_inode = current_inode
  <2>1. PICK l \in 1..file_count :
          files[l].inode = n /\ files[l].parent_inode = current_inode
    BY DEF Remove
  <2>2. l \in Live
    BY <2>1, LiveSlot, TableSizes DEF EntriesMatchInodes, Inodes
  <2>3. SlotsMatchInodes
    BY DEF EntriesMatchInodes
  <2>4. k = l
    BY <1>1, <2>1, <2>2, <2>3 DEF SlotsMatchInodes
  <2> QED
    BY <2>1, <2>4
<1>4. ASSUME NEW j \in Live, j # k
      PROVE  \E l \in Live' : files'[l] = files[j]
  <2>0. /\ k \in Nat /\ j \in Nat /\ file_count \in Nat /\ InitFileCount \in Nat
        /\ j <= file_count /\ k <= file_count
        /\ Live = (InitFileCount + 1)..file_count
    BY <1>4, LiveInSlots, TableSizes DEF Live, TypeOK
  <2>1. CASE j < k
    <3>1. j \in Live'
      BY <1>1, <1>4, <2>0, <2>1
    <3> QED
      BY <1>1, <2>1, <3>1
  <2>2. CASE j > k
    <3>1. j - 1 \in Live' /\ j - 1 >= k /\ (j - 1) + 1 = j
      BY <1>1, <1>4, <2>0, <2>2
    <3>2. files'[j - 1] = files[(j - 1) + 1]
      BY <1>1, <3>1
    <3> QED
      BY <3>1, <3>2
  <2> QED
    BY <1>4, <2>0, <2>1, <2>2
<1>5. ASSUME NEW l \in Live'
      PROVE  \E j \in Live : j # k /\ files'[l] = files[j]
  <2>0. k \in Nat /\ l \in Nat /\ l \in Live
    BY <1>1, <1>5, LiveInSlots
  <2>1. CASE l < k
    BY <1>1, <2>0, <2>1
  <2>2. CASE l >= k
    <3>1. files'[l] = files[l + 1] /\ l + 1 \in Live /\ l + 1 # k
      BY <1>1, <2>0, <2>2
    <3> QED
      BY <3>1
  <2> QED
    BY <2>0, <2>1, <2>2
<1>6. \A j \in Live : files[j].inode = n => j = k
  BY <1>1 DEF EntriesMatchInodes, SlotsMatchInodes
<1>7. LiveInodes' = LiveInodes \ {n}
  <2>1. \A m : m \in LiveInodes' <=> \E l \in Live' : files'[l].inode = m
    BY DEF LiveInodes
  <2>2. \A m : m \in LiveInodes <=> \E j \in Live : files[j].inode = m
    BY LiveIds
  <2> QED
    BY <1>1, <1>4, <1>5, <1>6, <2>1, <2>2
<1>8. ASSUME NEW m \in LiveInodes \ {n}
      PROVE  EntryOf(m)' = EntryOf(m)
  <2>1. PICK j \in Live : files[j].inode = m
    BY <1>8, LiveIds
  <2>2. j # k /\ m \in Inodes /\ m # n
    BY <1>1, <1>8, <2>1, LiveIds
  <2>3. PICK l \in Live' : files'[l] = files[j]
    BY <1>4, <2>2
  <2>4. inodes'[m] = inodes[m]
    BY <1>2, <2>2 DEF TypeOK
  <2> QED
    BY <1>2, <2>1, <2>2, <2>3, <2>4, EntryKept
<1>9. n \in LiveInodes /\ EntryOf(n).parent = current_inode
  BY <1>1, <1>3, LiveIds, EntryAt DEF EntryRec
<1>10. ASSUME NEW m \in LiveInodes
       PROVE  EntryOf(m).parent # n
  <2>1. PICK j \in Live : files[j].inode = m
    BY <1>10, LiveIds
  <2>2. EntryOf(m).parent = files[j].parent_inode
    BY <2>1, LiveIds, EntryAt DEF EntryRec
  <2> QED
    BY <1>1, <2>2
<1>11. Entries' = [e \in LiveInodes \ {n} |-> EntryOf(e)]
  <2>1. Entries' = [e \in LiveInodes \ {n} |-> EntryOf(e)']
    BY <1>7 DEF Entries
  <2> QED
    BY <1>8, <2>1
<1> QED
  BY <1>2, <1>9, <1>10, <1>11 DEF Store!StoreRemove, Entries

\* A write that does not run out of blocks is StoreWrite: the blocks it takes
\* are nobody's, and they hold the text in order.
LEMMA WriteStores ==
  ASSUME TypeOK, Tree, Storage, TypeOK', Tree', ~write_failed, ~write_failed',
         NEW n \in Inodes, NEW data \in Data, NEW size \in Sizes,
         Write(n, data, size), ~TooLarge(size)
  PROVE  Store!StoreWrite(n, data, size)
<1> EntriesMatchInodes /\ EntriesMatchInodes'
  BY DEF Tree
<1>0. fs_write_file(n, data, size) /\ UNCHANGED <<files, file_count, current_inode>>
  BY DEF Write, fs_write_file
<1>1. PICK k \in 0..INODE_DIRECT_BLOCKS : \E g \in [1..k -> UnusedAfterFree(n)] :
        /\ \A i, j \in 1..k : g[i] = g[j] => i = j
        /\ k = BlocksNeeded(size) /\ WriteBlocks(n, data, size, g)
  <2>1. \A g : ~WriteRollback(n, g)
    BY DEF WriteRollback
  <2> QED
    BY <1>0, <2>1, WriteCases
<1>2. PICK g \in [1..k -> UnusedAfterFree(n)] :
        /\ \A i, j \in 1..k : g[i] = g[j] => i = j
        /\ k = BlocksNeeded(size) /\ WriteBlocks(n, data, size, g)
  BY <1>1
<1>3. PICK l \in Live : /\ files[l].inode = n /\ files[l].type = FILE_REGULAR
                        /\ files[l].parent_inode = current_inode
  BY WrittenRegular DEF Tree, EntriesMatchInodes
<1>4. Live' = Live /\ LiveInodes' = LiveInodes /\ files' = files
  BY <1>0 DEF Live, LiveInodes
<1>5. /\ \A m \in Inodes \ {n} : inodes'[m] = inodes[m]
      /\ inodes'[n] = [mode |-> inodes[n].mode, size |-> size, blocks |-> k,
                       block |-> [i \in Direct |-> IF i \in DOMAIN g THEN g[i]
                                                   ELSE inodes[n].block[i]]]
      /\ blocks' = [b \in Blocks |->
                      IF \E i \in DOMAIN g : g[i] = b
                      THEN [data |-> data, chunk |-> CHOOSE i \in DOMAIN g : g[i] = b]
                      ELSE blocks[b]]
  BY <1>2 DEF WriteBlocks, TypeOK
<1>6. ASSUME NEW m \in LiveInodes \ {n}
      PROVE  EntryOf(m)' = EntryOf(m)
  <2>1. PICK j \in Live : files[j].inode = m
    BY <1>6, LiveIds
  <2>2. m \in Inodes /\ m # n
    BY <1>6, LiveIds
  <2>3. \A i \in 1..inodes[m].blocks :
          blocks'[inodes[m].block[i]] = blocks[inodes[m].block[i]]
    <3> SUFFICES ASSUME NEW i \in 1..inodes[m].blocks
                 PROVE  blocks'[inodes[m].block[i]] = blocks[inodes[m].block[i]]
      OBVIOUS
    <3>1. inodes[m].block[i] \in Blocks
      BY <2>2, ListedBlock
    <3>2. UsedAfterFree(n)[inodes[m].block[i]]
      BY <2>2, OthersKeep
    <3>3. \A j2 \in DOMAIN g : g[j2] # inodes[m].block[i]
      BY <3>2 DEF UnusedAfterFree
    <3> QED
      BY <1>5, <3>1, <3>3
  <2>4. inodes'[m] = inodes[m]
    BY <1>5, <2>2
  <2> QED
    BY <1>4, <2>1, <2>2, <2>3, <2>4, EntryKept
<1>7. EntryOf(n) = EntryRec(files[l], inodes[n], blocks)
  BY <1>3, EntryAt
<1>8. EntryOf(n)' = EntryRec(files[l], inodes'[n], blocks')
  BY <1>3, <1>4, EntryAtNext
<1>9. ReadOf(inodes'[n], blocks') = Store!Contents(data, size)
  <2>1. inodes'[n].size = size /\ inodes'[n].blocks = k /\ BlocksNeeded(size) = k /\ k \in Nat
    BY <1>2, <1>5, TableSizes
  <2>2. ASSUME NEW i \in 1..k
        PROVE  blocks'[inodes'[n].block[i]] = [data |-> data, chunk |-> i]
    <3>1. i \in Direct /\ i \in DOMAIN g
      BY TableSizes DEF Direct
    <3>2. inodes'[n].block[i] = g[i]
      BY <1>5, <3>1
    <3>3. g[i] \in Blocks
      BY DEF UnusedAfterFree
    <3>4. (CHOOSE j \in DOMAIN g : g[j] = g[i]) = i
      BY <1>2, <3>1
    <3> QED
      BY <1>5, <3>1, <3>2, <3>3, <3>4
  <2>3. ReadOf(inodes'[n], blocks') =
          [size |-> size, data |-> [i \in 1..k |-> blocks'[inodes'[n].block[i]]]]
    BY <2>1 DEF ReadOf
  <2>4. [i \in 1..k |-> blocks'[inodes'[n].block[i]]] =
        [i \in 1..k |-> [data |-> data, chunk |-> i]]
    BY <2>2
  <2>5. Store!Contents(data, size) =
          [size |-> size, data |-> [i \in 1..k |-> [data |-> data, chunk |-> i]]]
    BY <2>1 DEF Store!Contents, BlocksNeeded
  <2> QED
    BY <2>3, <2>4, <2>5
<1>10. EntryOf(n)' = [EntryOf(n) EXCEPT !.contents = Store!Contents(data, size)]
  BY <1>7, <1>8, <1>9 DEF EntryRec
<1>11. n \in LiveInodes
  BY <1>3, LiveIds
<1>12. Entries' = [Entries EXCEPT ![n].contents = Store!Contents(data, size)]
  <2>1. Entries' = [e \in LiveInodes |-> EntryOf(e)']
    BY <1>4 DEF Entries
  <2>2. Entries' = [e \in LiveInodes |->
          IF e = n THEN [EntryOf(n) EXCEPT !.contents = Store!Contents(data, size)]
          ELSE EntryOf(e)]
    BY <1>6, <1>10, <2>1
  <2>3. Entries[n] = EntryOf(n) /\ DOMAIN Entries = LiveInodes
        /\ \A e \in LiveInodes : Entries[e] = EntryOf(e)
    BY <1>11 DEF Entries
  <2>4. [Entries EXCEPT ![n].contents = Store!Contents(data, size)] =
        [e \in LiveInodes |->
          IF e = n THEN [EntryOf(n) EXCEPT !.contents = Store!Contents(data, size)]
          ELSE EntryOf(e)]
    BY <2>3 DEF Entries
  <2> QED
    BY <2>2, <2>4
<1>13. EntryOf(n).parent = current_inode /\ EntryOf(n).type = "regular"
  BY <1>3, <1>7 DEF EntryRec, FILE_REGULAR
<1> QED
  BY <1>0, <1>11, <1>12, <1>13 DEF Store!StoreWrite, Entries

\* The entries the kernel starts with are those of the table it starts from.
LEMMA InitStores == Init => Store!StoreInit
<1> SUFFICES ASSUME Init PROVE Store!StoreInit
  OBVIOUS
<1>1. /\ BootSize \in Nat /\ BootSize <= MAX_INODES /\ InitFileCount + BootSize <= MAX_FILES
      /\ InitFileCount \in Nat
  BY BootTableAssumption, TableSizes DEF BootSize
<1>2. Live = (InitFileCount + 1)..(InitFileCount + BootSize)
  BY DEF Init, Live
<1>3. ASSUME NEW k \in Live
      PROVE  /\ k - InitFileCount \in 1..BootSize
             /\ files[k].inode = k - InitFileCount
             /\ files[k].name = BootTable[k - InitFileCount].name
             /\ files[k].parent_inode = BootTable[k - InitFileCount].parent_inode
             /\ files[k].type = BootTable[k - InitFileCount].type
  <2>1. k \in Slots /\ k \in (InitFileCount + 1)..(InitFileCount + BootSize)
    BY <1>1, <1>2, <1>3, TableSizes DEF Slots
  <2>2. k - InitFileCount \in 1..BootSize
    BY <1>1, <2>1
  <2>3. files[k] = [inode        |-> k - InitFileCount,
                    name         |-> BootTable[k - InitFileCount].name,
                    parent_inode |-> BootTable[k - InitFileCount].parent_inode,
                    type         |-> BootTable[k - InitFileCount].type]
    BY <2>1 DEF Init
  <2> QED
    BY <2>2, <2>3
<1>4. \A i \in 1..BootSize : /\ InitFileCount + i \in Live
                             /\ (InitFileCount + i) - InitFileCount = i
  BY <1>1, <1>2
<1>5. \A i \in 1..BootSize : files[InitFileCount + i].inode = i
  BY <1>3, <1>4
<1>6. \A k \in Live : files[k].inode \in 1..BootSize
  BY <1>3
<1>7. LiveInodes = 1..BootSize
  BY <1>4, <1>5, <1>6 DEF LiveInodes
<1>8. ASSUME NEW n \in 1..BootSize
      PROVE  EntryOf(n) = [name     |-> BootTable[n].name,
                           parent   |-> BootTable[n].parent_inode,
                           type     |-> BootTable[n].type,
                           contents |-> [size |-> 0, data |-> << >>]]
  <2>1. InitFileCount + n \in Live /\ files[InitFileCount + n].inode = n
    BY <1>4, <1>5
  <2>2. n \in Inodes
    BY <1>1, TableSizes DEF Inodes
  <2>3. EntryOf(n) = EntryRec(files[InitFileCount + n], inodes[n], blocks)
    BY <2>1, <2>2, EntryAt, InitTree, InitType DEF Tree
  <2>4. inodes[n] = NewInode(BootTable[n].type)
    BY <1>1, <2>2 DEF Init
  <2>5. /\ files[InitFileCount + n].name = BootTable[n].name
        /\ files[InitFileCount + n].parent_inode = BootTable[n].parent_inode
        /\ files[InitFileCount + n].type = BootTable[n].type
    BY <1>3, <1>4, <2>1
  <2> QED
    BY <2>3, <2>4, <2>5, NothingRead DEF EntryRec
<1>9. [n \in LiveInodes |-> EntryOf(n)] =
      [n \in 1..BootSize |-> [name     |-> BootTable[n].name,
                              parent   |-> BootTable[n].parent_inode,
                              type     |-> BootTable[n].type,
                              contents |-> [size |-> 0, data |-> << >>]]]
  BY <1>7, <1>8
<1> QED
  BY <1>9 DEF Init, Store!StoreInit

\* Every step of the tables is a step of the store, or none.
LEMMA StoreStep ==
  ASSUME TypeOK, Tree, Storage, TypeOK', Tree', ~write_failed, ~write_failed',
         [Next]_fs_vars
  PROVE  [Store!StoreNext]_(Store!store_vars)
<1> EntriesMatchInodes
  BY DEF Tree
<1>0. CASE UNCHANGED <<inodes, blocks, files, file_count, current_inode>>
  BY <1>0, StoreStutter DEF Store!store_vars, Entries
<1>1. ASSUME NEW name \in Names, NEW type \in Types, Create(name, type)
      PROVE  [Store!StoreNext]_(Store!store_vars)
  <2>1. CASE CanCreate(name)
    <3>1. type \in {"regular", "dir"}
      BY DEF Types, FILE_REGULAR, FILE_DIR
    <3> QED
      BY <1>1, <2>1, <3>1, CreateStores DEF Store!StoreNext
  <2>2. CASE ~CanCreate(name)
    BY <1>0, <1>1, <2>2 DEF Create, fs_create_file, tables
  <2> QED
    BY <2>1, <2>2
<1>2. ASSUME NEW n \in {0} \cup Inodes, Remove(n)
      PROVE  [Store!StoreNext]_(Store!store_vars)
  <2>1. CASE n \in Inodes
    BY <1>2, <2>1, RemoveStores DEF Store!StoreNext
  <2>2. CASE n \notin Inodes
    BY <1>0, <1>2, <2>2 DEF Remove, fs_delete_file, tables
  <2> QED
    BY <2>1, <2>2
<1>3. ASSUME NEW n \in {0} \cup Inodes, NEW data \in Data, NEW size \in Sizes,
             Write(n, data, size)
      PROVE  [Store!StoreNext]_(Store!store_vars)
  <2>1. CASE n \in Inodes /\ ~TooLarge(size)
    BY <1>3, <2>1, WriteStores DEF Store!StoreNext
  <2>2. CASE n \notin Inodes \/ TooLarge(size)
    BY <1>0, <1>3, <2>2 DEF Write, fs_write_file
  <2> QED
    BY <2>1, <2>2
<1>4. ASSUME NEW n \in Inodes, fs_change_dir(n)
      PROVE  [Store!StoreNext]_(Store!store_vars)
  <2>1. UNCHANGED <<inodes, blocks, files, file_count>>
    BY <1>4 DEF fs_change_dir, tables
  <2>2. CASE UNCHANGED current_inode
    BY <1>0, <2>1, <2>2
  <2>3. CASE current_inode' # current_inode
    <3>1. current_inode' = n
      BY <1>4, <2>3 DEF fs_change_dir
    <3>2. PICK k \in 1..file_count : files[k].inode = n /\ files[k].type = FILE_DIR
      BY <1>4, <2>3 DEF fs_change_dir
    <3>3. k \in Live
      BY <3>2, LiveSlot, TableSizes DEF EntriesMatchInodes, Inodes
    <3>4. n \in LiveInodes /\ EntryOf(n).type = "dir"
      BY <3>2, <3>3, LiveIds, EntryAt DEF EntryRec, FILE_DIR
    <3>5. UNCHANGED Entries
      BY <2>1 DEF Entries, LiveInodes, Live, EntryOf, SlotOf, fs_read_file
    <3>6. Store!StoreChangeDir(n)
      BY <3>1, <3>4, <3>5 DEF Store!StoreChangeDir, Entries
    <3> QED
      BY <3>6 DEF Store!StoreNext
  <2> QED
    BY <2>2, <2>3
<1>5. CASE UNCHANGED fs_vars
  BY <1>0, <1>5 DEF fs_vars, tables
<1> QED
  BY <1>1, <1>2, <1>3, <1>4, <1>5 DEF Next

\* As long as no write has run out of blocks, the tables are a store: what is
\* read from a file is what was last written to it.
THEOREM StoreUntilFailure == Spec /\ []~write_failed => ImplementsStore
<1>1. EntriesMatchInodes /\ ParentsFirst /\ NamesUnique => Tree
  BY DEF Tree
<1>2. LeakOnlyBlockZero /\ SoundUntilFailure => Storage
  BY DEF Storage
<1> QED
  BY <1>1, <1>2, InitStores, StoreStep, TypeCorrect, TreeCorrect, StorageCorrect, PTL
  DEF Spec, ImplementsStore, Store!StoreSpec

\* So they are one forever if there are never more files than the blocks have
\* room for.
THEOREM StoreCorrect == Spec /\ []FewFiles => ImplementsStore
<1>1. Init => ~write_failed
  BY DEF Init
<1>2. UNCHANGED fs_vars /\ ~write_failed => ~write_failed'
  BY DEF fs_vars
<1>3. Spec /\ []FewFiles => []~write_failed
  BY <1>1, <1>2, WritesCorrect, PTL DEF Spec, WritesFit
<1> QED
  BY <1>3, StoreUntilFailure, PTL
=============================================================================
