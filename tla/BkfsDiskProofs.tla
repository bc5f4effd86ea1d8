--------------------------- MODULE BkfsDiskProofs ---------------------------
(***************************************************************************)
(* mkfs and the Linux driver, for devices of any size, any geometry of the *)
(* inode table and any width of the counters.                              *)
(*                                                                         *)
(* The properties are about a mounted or an unloaded driver; what makes    *)
(* them inductive is what every step of bkfs_fill_super and of an unmount  *)
(* leaves to the next one, and that block 0, in the cache and on the       *)
(* device, never has the magic number without the counters that go with    *)
(* it.  A failed mount frees its sbi twice: what is said of the sbi holds  *)
(* while the heap is sound, what is said of the counters until a sync has  *)
(* written them from a corrupt one.                                        *)
(***************************************************************************)
EXTENDS BkfsDisk, TLAPS

USE DiskAssumption

Counters(d) == d.blocks = size % WORD /\ d.free = FreeBlocks(size % WORD)

\* What is left to the next step of a mount that has got to `mount', or of an
\* unmount.
MountInv ==
  /\ mount = "none" => ~fs_info /\ ~sbi /\ inodes = 0
  /\ mount = "shut" => ~fs_info /\ ~sbi /\ inodes = 0
  /\ mount = "fail" => ~sbi /\ inodes = 0
  /\ mount \in {"super", "root"} => inodes = 0
  /\ mount \in {"super", "root", "mounted"} /\ heap = "sound" => fs_info /\ sbi
  /\ mount \in {"root", "mounted"} /\ heap = "sound" /\ ~spoilt => Counters(counts)
  /\ mount # "none" => driver

\* Block 0 is written as a whole by mkfs, and sync_fs puts back what it read.
SuperInv ==
  /\ cached.magic /\ ~spoilt => Counters(cached)
  /\ stable.magic /\ ~spoilt => Counters(stable)

DiskInv == DiskTypeOK /\ MountInv /\ SuperInv

\* The counters mkfs computes fit their fields, on a device of any size.
LEMMA CountersType ==
  ASSUME NEW s \in Nat
  PROVE  s % WORD \in 0..(WORD - 1) /\ FreeBlocks(s % WORD) \in 0..(WORD - 1)
<1>1. InodeBlocks \in Int
  BY DEF InodeBlocks
<1> QED
  BY <1>1 DEF FreeBlocks

\* A blank device is a device.
LEMMA BlankType == Blank \in Device
  BY DEF Blank, Device, Slots

\* The fields of a device have their types.
LEMMA DeviceFields ==
  ASSUME NEW d \in Device
  PROVE  /\ d = [magic |-> d.magic, blocks |-> d.blocks, free |-> d.free,
                 inode |-> d.inode, entries |-> d.entries]
         /\ d.magic \in BOOLEAN /\ d.entries \in BOOLEAN
         /\ d.blocks \in 0..(WORD - 1) /\ d.free \in 0..(WORD - 1)
         /\ d.inode \in [Slots -> {"free", "dir"}]
  BY DEF Device

\* So are the counters of a new sbi.
LEMMA EmptyTypes ==
  /\ NoCounts \in [blocks : 0..(WORD - 1), free : 0..(WORD - 1)]
  /\ 0 \in 0..1 /\ 1 \in 0..1
<1>1. 0 \in 0..(WORD - 1)
  OBVIOUS
<1> QED
  BY <1>1 DEF NoCounts

\* kfree leaves the sbi free and the heap in one of its two states.
LEMMA KfreeType ==
  ASSUME DiskTypeOK, kfree
  PROVE  sbi' = FALSE /\ heap' \in {"sound", "corrupt"}
  BY DEF DiskTypeOK, kfree

\* The machine starts in a good state.
LEMMA DiskInitInv == DiskInit => DiskInv
<1> SUFFICES ASSUME DiskInit PROVE DiskInv
  OBVIOUS
<1>1. DiskTypeOK
  BY BlankType, EmptyTypes DEF DiskInit, DiskTypeOK
<1>2. MountInv
  BY DEF DiskInit, MountInv
<1>3. SuperInv
  BY DEF DiskInit, SuperInv, Blank
<1> QED
  BY <1>1, <1>2, <1>3 DEF DiskInv

\* The steps of mkfs leave the driver alone and keep block 0 consistent.
LEMMA MkfsInv ==
  ASSUME DiskInv,
         \/ main \/ write_superblock \/ write_root_inode
         \/ write_root_dir_block \/ WriteFails
  PROVE  DiskInv'
<1> USE DEF DiskInv
<1>0. /\ UNCHANGED <<size, stable, linux_vars>>
      /\ mkfs' \in {"idle", "super", "inode", "entries", "made"}
  BY DEF main, write_superblock, write_root_inode, write_root_dir_block, WriteFails
<1>1. MountInv'
  BY <1>0 DEF MountInv, Counters, linux_vars, mem_vars
<1>2. cached' \in Device /\ (cached'.magic /\ ~spoilt' => Counters(cached)')
  <2>1. CASE main \/ WriteFails
    BY <1>0, <2>1 DEF main, WriteFails, DiskTypeOK, SuperInv, Counters, linux_vars
  <2>2. CASE write_superblock
    <3>1. size \in Nat
      BY DEF DiskTypeOK
    <3>2. size % WORD \in 0..(WORD - 1) /\ FreeBlocks(size % WORD) \in 0..(WORD - 1)
      BY <3>1, CountersType
    <3> HIDE DEF DiskInv
    <3>3. cached \in Device /\ UNCHANGED size
      BY <2>2 DEF DiskInv, DiskTypeOK, write_superblock
    <3>4. cached' = [cached EXCEPT !.magic = TRUE, !.blocks = size % WORD,
                                   !.free = FreeBlocks(size % WORD)]
      BY <2>2 DEF write_superblock
    <3>5. cached' \in Device
      BY <3>2, <3>3, <3>4 DEF Device
    <3>6. cached'.blocks = size % WORD /\ cached'.free = FreeBlocks(size % WORD)
      BY <3>3, <3>4 DEF Device
    <3> QED
      BY <3>3, <3>5, <3>6 DEF Counters
  <2>3. CASE write_root_inode
    <3>1. cached' \in Device
      BY <2>3 DEF write_root_inode, DiskTypeOK, Device
    <3>2. cached'.magic = cached.magic /\ cached'.blocks = cached.blocks
          /\ cached'.free = cached.free
      BY <2>3 DEF write_root_inode, DiskTypeOK, Device
    <3> QED
      BY <1>0, <3>1, <3>2 DEF SuperInv, Counters, linux_vars
  <2>4. CASE write_root_dir_block
    <3>1. cached' \in Device
      BY <2>4 DEF write_root_dir_block, DiskTypeOK, Device
    <3>2. cached'.magic = cached.magic /\ cached'.blocks = cached.blocks
          /\ cached'.free = cached.free
      BY <2>4 DEF write_root_dir_block, DiskTypeOK, Device
    <3> QED
      BY <1>0, <3>1, <3>2 DEF SuperInv, Counters, linux_vars
  <2> QED
    BY <2>1, <2>2, <2>3, <2>4
<1>3. DiskTypeOK'
  BY <1>0, <1>2 DEF DiskTypeOK, linux_vars, mem_vars
<1>4. SuperInv'
  BY <1>0, <1>2 DEF SuperInv, Counters, linux_vars
<1> QED
  BY <1>1, <1>3, <1>4

\* Loading and unloading: a module in use is not unloaded.
LEMMA ModuleInv ==
  ASSUME DiskInv, init_bkfs_fs \/ exit_bkfs_fs
  PROVE  DiskInv'
<1>1. DiskTypeOK'
  BY DEF DiskInv, init_bkfs_fs, exit_bkfs_fs, DiskTypeOK, disk_vars, mem_vars
<1>2. MountInv'
  BY DEF DiskInv, init_bkfs_fs, exit_bkfs_fs, MountInv, Counters, disk_vars, mem_vars
<1>3. SuperInv'
  BY DEF DiskInv, init_bkfs_fs, exit_bkfs_fs, SuperInv, Counters, disk_vars
<1> QED
  BY <1>1, <1>2, <1>3 DEF DiskInv

\* The steps of a mount, each of which may fail, and of an unmount.
LEMMA MountStepInv ==
  ASSUME DiskInv,
         bkfs_mount \/ ReadSuper \/ bkfs_iget \/ Unmount \/ bkfs_kill_sb
  PROVE  DiskInv'
<1> USE DEF DiskInv
<1>0. UNCHANGED <<disk_vars, driver, spoilt>>
  BY DEF bkfs_mount, ReadSuper, bkfs_iget, Unmount, bkfs_kill_sb
<1>1. SuperInv'
  BY <1>0 DEF SuperInv, Counters, disk_vars
<1>2. CASE bkfs_mount
  <2>1. DiskTypeOK'
    BY <1>0, <1>2, EmptyTypes DEF bkfs_mount, DiskTypeOK, disk_vars
  <2>2. MountInv'
    BY <1>0, <1>2 DEF bkfs_mount, MountInv
  <2> QED
    BY <1>1, <2>1, <2>2
<1>3. CASE ReadSuper
  <2>1. DiskTypeOK'
    <3>1. cached.blocks \in 0..(WORD - 1) /\ cached.free \in 0..(WORD - 1)
      BY DeviceFields DEF DiskTypeOK
    <3>2. /\ counts' \in [blocks : 0..(WORD - 1), free : 0..(WORD - 1)]
          /\ mount' \in {"fail", "root"} /\ UNCHANGED <<root, inodes, fs_info>>
      BY <1>3, <3>1 DEF ReadSuper, GiveUp, DiskTypeOK
    <3>3. kfree \/ UNCHANGED <<sbi, heap>>
      BY <1>3 DEF ReadSuper, GiveUp
    <3>4. sbi' \in BOOLEAN /\ heap' \in {"sound", "corrupt"}
      BY <3>3, KfreeType DEF DiskTypeOK
    <3> QED
      BY <1>0, <3>2, <3>4 DEF DiskTypeOK, disk_vars
  <2>2. CASE GiveUp
    BY <1>0, <1>1, <1>3, <2>1, <2>2 DEF ReadSuper, GiveUp, kfree, MountInv
  <2>3. CASE ~GiveUp
    <3>1. /\ mount' = "root" /\ inodes' = 0 /\ UNCHANGED <<fs_info, sbi, heap>>
          /\ cached.magic /\ counts' = [blocks |-> cached.blocks, free |-> cached.free]
          /\ size' = size
      BY <1>0, <1>3, <2>3 DEF ReadSuper, MountInv, disk_vars
    <3>2. ~spoilt => Counters(counts)'
      BY <3>1 DEF SuperInv, Counters
    <3> QED
      BY <1>0, <1>1, <1>3, <2>1, <3>1, <3>2 DEF MountInv, ReadSuper
  <2> QED
    BY <2>2, <2>3
<1>4. CASE bkfs_iget
  <2>0. SlotOf(ROOT_INO) \in Slots
    BY DEF SlotOf, Slots, INODES_PER_BLOCK
  <2>1. cached.inode[SlotOf(ROOT_INO)] \in {"free", "dir"}
    BY <2>0, DeviceFields DEF DiskTypeOK
  <2>2. DiskTypeOK'
    <3>1. /\ root' \in {"none", "free", "dir"} /\ inodes' \in 0..1
          /\ mount' \in {"fail", "mounted"} /\ UNCHANGED <<counts, fs_info>>
      BY <1>4, <2>1, EmptyTypes DEF bkfs_iget, GiveUp, iget_failed, DiskTypeOK
    <3>2. kfree \/ UNCHANGED <<sbi, heap>>
      BY <1>4 DEF bkfs_iget, GiveUp
    <3>3. sbi' \in BOOLEAN /\ heap' \in {"sound", "corrupt"}
      BY <3>2, KfreeType DEF DiskTypeOK
    <3> QED
      BY <1>0, <3>1, <3>3 DEF DiskTypeOK, disk_vars
  <2>3. MountInv'
    <3>1. CASE GiveUp
      BY <1>0, <1>4, <3>1 DEF bkfs_iget, GiveUp, kfree, iget_failed, MountInv
    <3>2. CASE ~GiveUp
      <4>1. mount' = "mounted" /\ UNCHANGED <<fs_info, sbi, heap, counts, size>>
        BY <1>0, <1>4, <3>2 DEF bkfs_iget, disk_vars
      <4>2. heap = "sound" /\ ~spoilt => Counters(counts)'
        BY <1>4, <4>1 DEF bkfs_iget, MountInv, Counters
      <4> QED
        BY <1>0, <1>4, <4>1, <4>2 DEF MountInv, bkfs_iget
    <3> QED
      BY <3>1, <3>2
  <2> QED
    BY <1>1, <2>2, <2>3
<1>5. CASE Unmount
  <2>1. DiskTypeOK'
    BY <1>0, <1>5, EmptyTypes
    DEF Unmount, bkfs_put_super, kfree, bkfs_evict_inode, DiskTypeOK, disk_vars
  <2>2. MountInv'
    BY <1>0, <1>5 DEF Unmount, bkfs_put_super, kfree, bkfs_evict_inode, MountInv
  <2> QED
    BY <1>1, <2>1, <2>2
<1>6. CASE bkfs_kill_sb
  <2>1. DiskTypeOK'
    BY <1>0, <1>6 DEF bkfs_kill_sb, kfree, DiskTypeOK, disk_vars
  <2>2. MountInv'
    BY <1>0, <1>6 DEF bkfs_kill_sb, kfree, MountInv
  <2> QED
    BY <1>1, <2>1, <2>2
<1> QED
  BY <1>2, <1>3, <1>4, <1>5, <1>6

\* Whatever others do to the sbi, they do once the heap is corrupt.
LEMMA CorruptInv ==
  ASSUME DiskInv, HandedOutTwice
  PROVE  DiskInv'
<1> USE DEF DiskInv
<1>0. UNCHANGED <<disk_vars, driver, mount, fs_info, root, inodes, heap, spoilt>>
  BY DEF HandedOutTwice
<1>1. /\ counts' \in [blocks : 0..(WORD - 1), free : 0..(WORD - 1)]
      /\ sbi' \in BOOLEAN
  BY DEF HandedOutTwice, DiskTypeOK
<1>2. DiskTypeOK'
  BY <1>0, <1>1 DEF DiskTypeOK, disk_vars
<1>3. MountInv'
  <2>1. heap' = "corrupt" /\ mount' = mount /\ mount \in {"super", "root", "mounted"}
    BY <1>0 DEF HandedOutTwice
  <2> QED
    BY <1>0, <2>1 DEF MountInv
<1>4. SuperInv'
  BY <1>0 DEF SuperInv, Counters, disk_vars
<1> QED
  BY <1>2, <1>3, <1>4

\* sync_fs writes back the counter that mkfs computed, because the mount read
\* it from a block with the magic number.
LEMMA SyncInv ==
  ASSUME DiskInv, bkfs_sync_fs
  PROVE  DiskInv'
<1> USE DEF DiskInv
<1>0. UNCHANGED <<size, stable, mkfs, driver, mount, mem_vars>>
  BY DEF bkfs_sync_fs
<1>1. MountInv'
  <2>1. spoilt => spoilt'
    BY DEF bkfs_sync_fs
  <2>2. UNCHANGED <<size, driver, mount, fs_info, sbi, counts, inodes, heap>>
    BY <1>0 DEF mem_vars
  <2>3. Counters(counts)' <=> Counters(counts)
    BY <2>2 DEF Counters
  <2> QED
    BY <2>1, <2>2, <2>3 DEF MountInv
<1>2. /\ counts.free \in 0..(WORD - 1)
      /\ ~spoilt' => ~spoilt /\ counts.free = FreeBlocks(size % WORD)
  BY DEF bkfs_sync_fs, DiskTypeOK, MountInv, Counters
<1>3. cached' = [cached EXCEPT !.free = counts.free] /\ cached \in Device
  BY DEF bkfs_sync_fs, DiskTypeOK
<1>4. /\ cached' \in Device /\ cached'.free = counts.free
      /\ cached'.magic = cached.magic /\ cached'.blocks = cached.blocks
  BY <1>2, <1>3 DEF Device
<1>5. DiskTypeOK'
  BY <1>0, <1>4 DEF bkfs_sync_fs, DiskTypeOK, mem_vars
<1>6. SuperInv'
  BY <1>0, <1>2, <1>4 DEF SuperInv, Counters
<1> QED
  BY <1>1, <1>5, <1>6

\* Blocks reach the device in any order; block 0 does so as a whole.
LEMMA WritebackInv ==
  ASSUME DiskInv, Writeback
  PROVE  DiskInv'
<1> USE DEF DiskInv
<1>0. UNCHANGED <<size, cached, mkfs, linux_vars>>
  BY DEF Writeback
<1>1. MountInv'
  BY <1>0 DEF MountInv, Counters, linux_vars, mem_vars
<1>2. cached \in Device /\ stable \in Device
  BY DEF DiskTypeOK
<1>3. stable' \in Device /\ (stable'.magic /\ ~spoilt' => Counters(stable)')
  <2>1. CASE stable' = [stable EXCEPT !.magic = cached.magic,
                          !.blocks = cached.blocks, !.free = cached.free]
    <3>1. stable' \in Device
      BY <1>2, <2>1 DEF Device
    <3>2. /\ stable'.magic = cached.magic /\ stable'.blocks = cached.blocks
          /\ stable'.free = cached.free
      BY <1>2, <2>1 DEF Device
    <3> QED
      BY <1>0, <3>1, <3>2 DEF SuperInv, Counters, linux_vars
  <2>2. CASE \/ stable' = [stable EXCEPT !.inode = cached.inode]
             \/ stable' = [stable EXCEPT !.entries = cached.entries]
    <3>1. stable' \in Device
      BY <1>2, <2>2 DEF Device
    <3>2. /\ stable'.magic = stable.magic /\ stable'.blocks = stable.blocks
          /\ stable'.free = stable.free
      BY <1>2, <2>2 DEF Device
    <3> QED
      BY <1>0, <3>1, <3>2 DEF SuperInv, Counters, linux_vars
  <2> QED
    BY <2>1, <2>2 DEF Writeback
<1>4. DiskTypeOK'
  BY <1>0, <1>3 DEF DiskTypeOK, linux_vars, mem_vars
<1>5. SuperInv'
  BY <1>0, <1>3 DEF SuperInv, Counters, linux_vars
<1> QED
  BY <1>1, <1>4, <1>5

\* Power fails: what is on the device is what programs read next.
LEMMA PowerInv ==
  ASSUME DiskInv, PowerFails
  PROVE  DiskInv'
<1>1. DiskTypeOK'
  BY EmptyTypes DEF DiskInv, PowerFails, DiskTypeOK
<1>2. MountInv'
  BY DEF PowerFails, MountInv
<1>3. SuperInv'
  BY DEF DiskInv, PowerFails, SuperInv, Counters
<1> QED
  BY <1>1, <1>2, <1>3 DEF DiskInv

\* Every step keeps the invariant.
LEMMA DiskStepInv == DiskInv /\ [DiskNext]_all_vars => DiskInv'
<1> SUFFICES ASSUME DiskInv, [DiskNext]_all_vars PROVE DiskInv'
  OBVIOUS
<1>1. CASE UNCHANGED all_vars
  BY <1>1 DEF all_vars, disk_vars, mem_vars, DiskInv, DiskTypeOK, MountInv,
              SuperInv, Counters
<1> QED
  BY <1>1, MkfsInv, ModuleInv, MountStepInv, CorruptInv, SyncInv, WritebackInv, PowerInv
  DEF DiskNext

\* The device, the counters and the driver's memory have their types at every
\* size of the device, the one smaller than its inode table included.
THEOREM DiskTypeCorrect == DiskSpec => []DiskTypeOK
  BY DiskInitInv, DiskStepInv, PTL DEF DiskSpec, DiskInv

\* A mounted file system has its sbi, as long as no memory was freed twice.
THEOREM InfoCorrect == DiskSpec => []InfoWhileMounted
<1>1. DiskInv => InfoWhileMounted
  BY DEF DiskInv, MountInv, InfoWhileMounted
<1> QED
  BY <1>1, DiskInitInv, DiskStepInv, PTL DEF DiskSpec

\* Memory is freed twice by failed mounts only, whatever the order of mounts,
\* unmounts, failures and losses of power.
THEOREM FreesCorrect == DiskSpec => UnmountFreesOnce
<1>1. ASSUME DiskInv, [DiskNext]_all_vars, heap = "sound", heap' = "corrupt"
      PROVE  mount = "fail"
  <2>1. kfree /\ ~sbi
    BY <1>1 DEF DiskNext, main, write_superblock, write_root_inode, write_root_dir_block,
                WriteFails, init_bkfs_fs, exit_bkfs_fs, bkfs_mount, ReadSuper, GiveUp,
                bkfs_iget, Unmount, bkfs_put_super, bkfs_kill_sb, bkfs_sync_fs,
                HandedOutTwice, Writeback, PowerFails, kfree, all_vars, mem_vars, linux_vars
  <2>2. ~ReadSuper /\ ~bkfs_iget /\ ~Unmount
    BY <1>1, <2>1 DEF DiskInv, MountInv, ReadSuper, bkfs_iget, Unmount
  <2>3. bkfs_kill_sb
    BY <1>1, <2>2 DEF DiskNext, main, write_superblock, write_root_inode,
                write_root_dir_block, WriteFails, init_bkfs_fs, exit_bkfs_fs, bkfs_mount,
                bkfs_sync_fs, HandedOutTwice, Writeback, PowerFails, all_vars, mem_vars, linux_vars
  <2>4. fs_info
    BY <1>1, <2>3 DEF bkfs_kill_sb
  <2> QED
    BY <1>1, <2>3, <2>4 DEF bkfs_kill_sb, DiskInv, MountInv
<1>2. DiskInv /\ [DiskNext]_all_vars =>
        [heap = "sound" /\ heap' = "corrupt" => mount = "fail"]_all_vars
  BY <1>1
<1> QED
  BY <1>2, DiskInitInv, DiskStepInv, PTL DEF DiskSpec, UnmountFreesOnce

\* An unloaded driver has left no inode and no sbi behind.
THEOREM UnloadCorrect == DiskSpec => []NothingLeftBehind
<1>1. DiskInv => NothingLeftBehind
  BY DEF DiskInv, MountInv, NothingLeftBehind
<1> QED
  BY <1>1, DiskInitInv, DiskStepInv, PTL DEF DiskSpec

\* What is left of a device is counted right if something is, and wraps to
\* more than there is if not.
LEMMA FreeBlocksIs ==
  ASSUME NEW b \in 0..(WORD - 1)
  PROVE  IF b >= InodeBlocks + 2 THEN FreeBlocks(b) = b - InodeBlocks - 2
                                 ELSE FreeBlocks(b) > b
<1> DEFINE x == b - InodeBlocks - 2
           q == x \div WORD
           r == x % WORD
<1>1. InodeBlocks \in Nat
  BY DEF InodeBlocks
<1>2. x \in Int /\ -WORD < x /\ x < WORD /\ x < b
  BY <1>1
<1> HIDE DEF x
<1>3. q \in Int /\ r \in 0..(WORD - 1) /\ x = WORD * q + r
  BY <1>2
<1>4. FreeBlocks(b) = r
  BY DEF FreeBlocks, x
<1> HIDE DEF q, r
<1>5. q >= 1 => WORD * q >= WORD
  BY <1>3
<1>6. q <= -2 => WORD * q <= -2 * WORD
  BY <1>3
<1>7. q \in {-1, 0}
  <2>1. WORD * q \in Int
    BY <1>3
  <2> QED
    BY <1>2, <1>3, <1>5, <1>6, <2>1
<1>8. CASE q = 0
  BY <1>1, <1>2, <1>3, <1>4, <1>8 DEF x
<1>9. CASE q = -1
  BY <1>1, <1>2, <1>3, <1>4, <1>9 DEF x
<1> QED
  BY <1>7, <1>8, <1>9

\* The counters of a mounted file system are those of its device, whatever the
\* order of mkfs, sync, writeback and loss of power, unless memory was freed
\* twice.
THEOREM CountsCorrect == DiskSpec => []CountsMatchDevice
<1>1. DiskInv => CountsMatchDevice
  <2> SUFFICES ASSUME DiskInv, mount = "mounted", heap = "sound", ~spoilt
               PROVE  /\ counts.blocks = size % WORD
                      /\ IF counts.blocks >= InodeBlocks + 2
                         THEN counts.free = counts.blocks - InodeBlocks - 2
                         ELSE counts.free > counts.blocks
    BY DEF CountsMatchDevice
  <2>1. counts.blocks = size % WORD /\ counts.free = FreeBlocks(size % WORD)
    BY DEF DiskInv, MountInv, Counters
  <2>2. counts.blocks \in 0..(WORD - 1)
    BY DEF DiskInv, DiskTypeOK
  <2> QED
    BY <2>1, <2>2, FreeBlocksIs
<1> QED
  BY <1>1, DiskInitInv, DiskStepInv, PTL DEF DiskSpec
=============================================================================
