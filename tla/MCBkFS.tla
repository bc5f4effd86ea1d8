------------------------------- MODULE MCBkFS -------------------------------
(* Small instances of BkFS for TLC.                                         *)
EXTENDS BkFS, TLC

CONSTANT MaxFreeBlocks  \* free_blocks grows without bound once a write failed

MCBootTable ==
  << [name |-> "root", parent_inode |-> 1, type |-> FILE_DIR] >>

\* Texts are only copied and compared.
MCTexts == Permutations(Data)

MCNext == Next /\ free_blocks' <= MaxFreeBlocks

MCSpec == Init /\ [][MCNext]_fs_vars
=============================================================================
