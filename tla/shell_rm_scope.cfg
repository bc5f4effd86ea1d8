SPECIFICATION ShellSpec
CHECK_DEADLOCK FALSE
CONSTANTS
  MAX_FILES = 5
  MAX_INODES = 4
  MAX_BLOCKS = 1
  INODE_DIRECT_BLOCKS = 1
  BLOCK_SIZE = 2
  InitFileCount = 1
  BootTable <- SmallTable
  Names = {"root", "a", "b"}
  InvalidNames = {}
  Data = {"text"}
  Sizes = {0, 1, 2, 3, 4, 5}
  TextSizes = {1}
  Lines = {}
  MAX_FILE_SIZE = 4
  Ttys = {0}
  Commands = {"cd", "mkdir", "touch", "rm", "rm -rf"}
  BootCalls <- SmallCalls
  SureNames = 1
  MaxNames = 2
  MaxFrames = 2
PROPERTY
  RmRemovesOnlyIt
