SPECIFICATION ShellSpec
CHECK_DEADLOCK FALSE
CONSTANTS
  MAX_FILES = 4
  MAX_INODES = 3
  MAX_BLOCKS = 5
  INODE_DIRECT_BLOCKS = 3
  BLOCK_SIZE = 4
  InitFileCount = 1
  BootTable <- SmallTable
  Names = {"root", "a", "b", ">"}
  InvalidNames = {">"}
  Data = {"text", "line"}
  Sizes = {0, 1, 2, 3, 4, 5}
  TextSizes = {0, 1}
  Lines = {"line"}
  MAX_FILE_SIZE = 4
  Ttys = {0}
  Commands = {"echo >>", "cat >", "cat >>", "rm"}
  BootCalls <- SmallCalls
  SureNames = 1
  MaxNames = 2
  MaxFrames = 1
INVARIANT
  CommandsFit
