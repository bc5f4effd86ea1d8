------------------------------ MODULE BkfsDisk ------------------------------
(***************************************************************************)
(* bkFS on a disk, as Linux sees it: the program mkfs_bkfs, which writes   *)
(* three pieces of a file system to a device, and the driver bkfs_mod,     *)
(* which mounts it.  mkfs and mount run in different processes, so their   *)
(* steps interleave; reads, writes and allocations fail; power fails and   *)
(* takes with it what was not written back.                                *)
(*                                                                         *)
(* What is modelled of Linux is what the driver's callbacks rely on: a     *)
(* page cache between programs and the device, mount_bdev, which calls     *)
(* kill_sb when fill_super fails, generic_shutdown_super, which calls      *)
(* put_super only for a superblock with a root, and the reference a mount  *)
(* holds on the module.                                                    *)
(*                                                                         *)
(* Freeing memory twice is undefined: from then on the allocator may give  *)
(* the memory of a sbi to somebody else as well, who writes to it or frees *)
(* it at any time (HandedOutTwice), or stop the machine (PowerFails).      *)
(***************************************************************************)
EXTENDS Integers

CONSTANTS
  Sizes,             \* the sizes of devices, in blocks
  INODES_COUNT,      \* inodes mkfs makes room for                 (1024)
  BLOCK_SIZE,        \* bytes in a block                           (4096)
  INODE_SIZE,        \* bytes in an inode                          (96)
  ROOT_INO,          \* BKFS_ROOT_INO                                (2)
  WORD,              \* numbers an uint32_t can hold               (2^32)
  Garbage            \* what others leave in memory they were given too

INODES_PER_BLOCK == BLOCK_SIZE \div INODE_SIZE

InodeBlocks == (INODES_COUNT * INODE_SIZE + BLOCK_SIZE - 1) \div BLOCK_SIZE

ASSUME DiskAssumption ==
  /\ Sizes \subseteq Nat
  /\ INODES_COUNT \in Nat
  /\ INODE_SIZE \in Nat \ {0} /\ BLOCK_SIZE \in Nat /\ INODE_SIZE <= BLOCK_SIZE
  /\ ROOT_INO \in 0..(INODES_PER_BLOCK - 1)
  /\ WORD \in Nat \ {0} /\ InodeBlocks + 2 < WORD
  /\ Garbage \subseteq 0..(WORD - 1)

VARIABLES
  size,      \* of the device
  cached,    \* the device as programs read and write it
  stable,    \* what of it has been written back
  mkfs,      \* what mkfs_bkfs does next; "made" once it has reported success
  driver,    \* is the module loaded
  mount,     \* what bkfs_fill_super does next, or the state of the mount
  fs_info,   \* does sb->s_fs_info point at the sbi
  sbi,       \* is that memory allocated
  counts,    \* the counters in it
  root,      \* the root inode in memory: its type, or "none"
  inodes,    \* inodes allocated from bkfs_inode_cachep
  heap,      \* "corrupt" once kfree was given memory that was free already
  spoilt     \* history: sync_fs has written counters out of a corrupt heap

disk_vars == <<size, cached, stable, mkfs>>
mem_vars  == <<fs_info, sbi, counts, root, inodes, heap>>
all_vars  == <<disk_vars, driver, mount, mem_vars, spoilt>>

Slots == 0..(INODES_PER_BLOCK - 1)     \* of the first block of inodes

\* A device with no file system on it.  inode[s] is the type in slot s.
Blank == [magic |-> FALSE, blocks |-> 0, free |-> 0,
          inode |-> [s \in Slots |-> "free"], entries |-> FALSE]

Device == [magic : BOOLEAN, blocks : 0..(WORD - 1), free : 0..(WORD - 1),
           inode : [Slots -> {"free", "dir"}], entries : BOOLEAN]

DiskTypeOK ==
  /\ size \in Sizes
  /\ cached \in Device /\ stable \in Device
  /\ mkfs \in {"idle", "super", "inode", "entries", "made"}
  /\ driver \in BOOLEAN
  /\ mount \in {"none", "super", "root", "fail", "mounted", "shut"}
  /\ fs_info \in BOOLEAN /\ sbi \in BOOLEAN
  /\ counts \in [blocks : 0..(WORD - 1), free : 0..(WORD - 1)]
  /\ root \in {"none", "free", "dir"}
  /\ inodes \in 0..1
  /\ heap \in {"sound", "corrupt"} /\ spoilt \in BOOLEAN

NoCounts == [blocks |-> 0, free |-> 0]

DiskInit ==
  /\ size \in Sizes
  /\ cached = Blank /\ stable = Blank
  /\ mkfs = "idle" /\ driver = FALSE /\ mount = "none"
  /\ fs_info = FALSE /\ sbi = FALSE /\ counts = NoCounts
  /\ root = "none" /\ inodes = 0 /\ heap = "sound" /\ spoilt = FALSE

-----------------------------------------------------------------------------
(* mkfs_bkfs.  A failing write ends the program; nothing is undone.        *)

linux_vars == <<driver, mount, mem_vars, spoilt>>

\* The number of blocks is cut to 32 bits before it is looked at.
main ==
  /\ mkfs \in {"idle", "made"}
  /\ size % WORD >= 3
  /\ mkfs' = "super"
  /\ UNCHANGED <<size, cached, stable, linux_vars>>

FreeBlocks_NoWrap(blocks) == blocks - InodeBlocks - 2

\* The device less the inode table, the superblock and the root directory.
FreeBlocks(blocks) == (blocks - InodeBlocks - 2) % WORD

write_superblock ==
  /\ mkfs = "super"
  /\ cached' = [cached EXCEPT !.magic = TRUE, !.blocks = size % WORD,
                              !.free = FreeBlocks(size % WORD)]
  /\ mkfs' = "inode"
  /\ UNCHANGED <<size, stable, linux_vars>>

\* The first bytes of block 1.
write_root_inode ==
  /\ mkfs = "inode"
  /\ cached' = [cached EXCEPT !.inode[0] = "dir"]
  /\ mkfs' = "entries"
  /\ UNCHANGED <<size, stable, linux_vars>>

\* Block 2.
write_root_dir_block ==
  /\ mkfs = "entries"
  /\ cached' = [cached EXCEPT !.entries = TRUE]
  /\ mkfs' = "made"
  /\ UNCHANGED <<size, stable, linux_vars>>

WriteFails ==
  /\ mkfs \in {"super", "inode", "entries"}
  /\ mkfs' = "idle"
  /\ UNCHANGED <<size, cached, stable, linux_vars>>

-----------------------------------------------------------------------------
(* The module                                                              *)

\* Creating the cache or registering fails: nothing remains.
init_bkfs_fs ==
  /\ ~driver
  /\ driver' = TRUE
  /\ UNCHANGED <<disk_vars, mount, mem_vars, spoilt>>

exit_bkfs_fs ==
  /\ driver /\ mount = "none"
  /\ driver' = FALSE
  /\ UNCHANGED <<disk_vars, mount, mem_vars, spoilt>>

-----------------------------------------------------------------------------
(* Mounting: bkfs_fill_super                                               *)

bkfs_mount_NotStored ==
  /\ driver /\ mount = "none"
  /\ sbi' = TRUE /\ counts' = NoCounts
  /\ mount' = "super"
  /\ UNCHANGED <<disk_vars, driver, fs_info, root, inodes, heap, spoilt>>

\* mount_bdev calls bkfs_fill_super, which begins with kzalloc.
bkfs_mount ==
  /\ driver /\ mount = "none"
  /\ \/ /\ sbi' = TRUE /\ fs_info' = TRUE
        /\ counts' = NoCounts
        /\ mount' = "super"
     \/ mount' = "fail" /\ UNCHANGED <<sbi, fs_info, counts>>   \* -ENOMEM
  /\ UNCHANGED <<disk_vars, driver, root, inodes, heap, spoilt>>

\* Free the sbi, or what was one.
kfree == sbi' = FALSE /\ heap' = IF sbi THEN heap ELSE "corrupt"

\* Labels out_bh and out: the sbi is freed, the pointer to it stays.
GiveUp == mount' = "fail" /\ kfree /\ UNCHANGED <<fs_info, counts>>

ReadSuper_NoMagic ==
  /\ mount = "super"
  /\ counts' = [blocks |-> cached.blocks, free |-> cached.free]
  /\ mount' = "root"
  /\ UNCHANGED <<disk_vars, driver, sbi, fs_info, root, inodes, heap, spoilt>>

ReadSuper ==
  /\ mount = "super"
  /\ \/ /\ cached.magic
        /\ counts' = [blocks |-> cached.blocks, free |-> cached.free]
        /\ mount' = "root"
        /\ UNCHANGED <<sbi, fs_info, heap>>
     \/ GiveUp                                  \* no magic number, or -EIO
  /\ UNCHANGED <<disk_vars, driver, root, inodes, spoilt>>

iget_failed_Keeps == inodes' = 1

\* The inode of a failed bkfs_iget, or of a root without dentry, is put.
iget_failed == inodes' = 0

\* Where the driver looks for an inode in block 1.
SlotOf(ino) == ino % INODES_PER_BLOCK

bkfs_iget ==
  /\ mount = "root"
  /\ \/ /\ root' = cached.inode[SlotOf(ROOT_INO)]
        /\ inodes' = 1
        /\ mount' = "mounted"
        /\ UNCHANGED <<sbi, fs_info, counts, heap>>
     \/ GiveUp /\ iget_failed /\ UNCHANGED root
  /\ UNCHANGED <<disk_vars, driver, spoilt>>

-----------------------------------------------------------------------------
(* Unmounting and sync                                                     *)

bkfs_put_super_KeepsPointer == kfree /\ UNCHANGED fs_info

bkfs_put_super == kfree /\ fs_info' = FALSE

bkfs_evict_inode == inodes' = 0 /\ root' = "none"

\* kill_block_super, called by bkfs_kill_sb: generic_shutdown_super evicts the
\* inodes and calls put_super.
Unmount ==
  /\ mount = "mounted"
  /\ bkfs_evict_inode
  /\ bkfs_put_super
  /\ mount' = "shut"
  /\ UNCHANGED <<disk_vars, driver, counts, spoilt>>

\* The rest of bkfs_kill_sb frees what s_fs_info points at.  After an unmount
\* it is NULL; after a failed fill_super, which left no root and so no call of
\* put_super, it is what fill_super left in it.
bkfs_kill_sb ==
  /\ mount \in {"shut", "fail"}
  /\ IF fs_info THEN kfree ELSE UNCHANGED <<sbi, heap>>
  /\ fs_info' = FALSE
  /\ mount' = "none"
  /\ UNCHANGED <<disk_vars, driver, counts, root, inodes, spoilt>>

bkfs_sync_fs ==
  /\ mount = "mounted"
  /\ cached' = [cached EXCEPT !.free = counts.free]
  /\ spoilt' = (spoilt \/ heap = "corrupt")
  /\ UNCHANGED <<size, stable, mkfs, driver, mount, mem_vars>>

\* Somebody else whom a corrupt heap has given the memory of the sbi writes to
\* it, or frees it.
HandedOutTwice ==
  /\ heap = "corrupt" /\ mount \in {"super", "root", "mounted"}
  /\ \/ counts' \in [blocks : Garbage, free : Garbage] /\ UNCHANGED sbi
     \/ sbi' = FALSE /\ UNCHANGED counts
  /\ UNCHANGED <<disk_vars, driver, mount, fs_info, root, inodes, heap, spoilt>>

-----------------------------------------------------------------------------
(* The page cache and the power                                            *)

\* A block is written back: 0, the first of inodes, or the root directory.
Writeback ==
  /\ stable' \in {[stable EXCEPT !.magic = cached.magic, !.blocks = cached.blocks,
                                 !.free = cached.free],
                  [stable EXCEPT !.inode = cached.inode],
                  [stable EXCEPT !.entries = cached.entries]}
  /\ UNCHANGED <<size, cached, mkfs, linux_vars>>

PowerFails ==
  /\ cached' = stable
  /\ mkfs' = "idle" /\ driver' = FALSE /\ mount' = "none"
  /\ fs_info' = FALSE /\ sbi' = FALSE /\ counts' = NoCounts
  /\ root' = "none" /\ inodes' = 0 /\ heap' = "sound"
  /\ UNCHANGED <<size, stable, spoilt>>

DiskNext ==
  \/ main \/ write_superblock \/ write_root_inode \/ write_root_dir_block
  \/ WriteFails
  \/ init_bkfs_fs \/ exit_bkfs_fs
  \/ bkfs_mount \/ ReadSuper \/ bkfs_iget
  \/ Unmount \/ bkfs_kill_sb \/ bkfs_sync_fs \/ HandedOutTwice
  \/ Writeback \/ PowerFails

DiskSpec == DiskInit /\ [][DiskNext]_all_vars

-----------------------------------------------------------------------------
(* Properties                                                              *)

\* As long as no memory has been freed twice, the callbacks of a mounted file
\* system, statfs, sync_fs and put_super, find its sbi allocated, whatever
\* mounts and unmounts came before.
InfoWhileMounted == mount = "mounted" /\ heap = "sound" => fs_info /\ sbi

\* Only a mount that failed frees memory twice: a file system that got mounted
\* is unmounted with one kfree, of bkfs_put_super or of bkfs_kill_sb.
UnmountFreesOnce ==
  [][heap = "sound" /\ heap' = "corrupt" => mount = "fail"]_all_vars

\* When the module is unloaded its inode cache is empty, and no sbi remains.
NothingLeftBehind == ~driver => inodes = 0 /\ ~sbi

\* The counters of a mounted file system are those of its device, though
\* mkfs writes block 0 and sync_fs writes part of it back, in any order and
\* with power failures in between, unless memory was freed twice.  On a device
\* too small for its inode table more blocks are free than there are.
CountsMatchDevice ==
  mount = "mounted" /\ heap = "sound" /\ ~spoilt =>
    /\ counts.blocks = size % WORD
    /\ IF counts.blocks >= InodeBlocks + 2
       THEN counts.free = counts.blocks - InodeBlocks - 2
       ELSE counts.free > counts.blocks

\* No memory is freed twice.
NoDoubleFree == heap = "sound"
=============================================================================
