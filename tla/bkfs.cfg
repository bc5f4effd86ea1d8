SPECIFICATION MCSpec
CONSTANTS
  MAX_FILES = 5
  MAX_INODES = 4
  MAX_BLOCKS = 4
  INODE_DIRECT_BLOCKS = 2
  BLOCK_SIZE = 2
  InitFileCount = 1
  BootTable <- MCBootTable
  Names = {"root", "a", "b", "a/b"}
  InvalidNames = {"a/b"}
  Data = {"text"}
  Sizes = {3, 5}
  MaxFreeBlocks = 4
INVARIANTS
  TypeOK
  EntriesMatchInodes
  ParentsFirst
  NamesUnique
  LeakOnlyBlockZero
  SoundUntilFailure
  BlockAccounting
PROPERTY
  WritesFit
