SPECIFICATION ShellSpec
\* The machine stops when the kernel stack is overrun.
CHECK_DEADLOCK FALSE
CONSTANTS
  MAX_FILES = 4
  MAX_INODES = 3
  MAX_BLOCKS = 1
  INODE_DIRECT_BLOCKS = 1
  BLOCK_SIZE = 2
  InitFileCount = 1
  BootTable <- SmallTable
  Names = {"root", "a", "b"}
  InvalidNames = {}
  Data = {"text"}
  Sizes = {0, 1, 2, 3, 4, 5}
  TextSizes = {1}
  Lines = {}
  MAX_FILE_SIZE = 4
  Ttys = {0, 1}
  Commands = {"other", "cd", "mkdir", "touch", "echo >", "echo >>", "rm", "rm -rf", "pwd"}
  BootCalls <- SmallCalls
  SureNames = 1
  MaxNames = 2
  MaxFrames = 2
INVARIANTS
  ShellTypeOK
  TablesSurvive
  PathLeadsBack
PROPERTIES
  CommandsAreCalls
  WalkEnds
  WalksDescend
