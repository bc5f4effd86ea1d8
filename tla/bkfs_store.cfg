SPECIFICATION MCSpec
CONSTANTS
  MAX_FILES = 4
  MAX_INODES = 3
  MAX_BLOCKS = 5
  INODE_DIRECT_BLOCKS = 2
  BLOCK_SIZE = 2
  InitFileCount = 1
  BootTable <- MCBootTable
  Names = {"root", "a", "b"}
  InvalidNames = {}
  Data = {old, new}
  Sizes = {1, 3}
  MaxFreeBlocks = 5
SYMMETRY MCTexts
PROPERTY
  ImplementsStore
