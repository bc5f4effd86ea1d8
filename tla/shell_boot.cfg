SPECIFICATION ShellSpec
CONSTANTS
  MAX_FILES = 128
  MAX_INODES = 128
  MAX_BLOCKS = 1024
  INODE_DIRECT_BLOCKS = 12
  BLOCK_SIZE = 1024
  InitFileCount = 5
  BootTable <- KernelTable
  Names <- KernelNames
  InvalidNames = {}
  Data = {"priveeet"}
  Sizes <- KernelSizes
  TextSizes = {9}
  Lines = {}
  MAX_FILE_SIZE = 4096
  Ttys = {0, 1}
  Commands = {"other", "cd", "pwd", "exit", "pause"}
  BootCalls <- KernelCalls
  SureNames = 8
  MaxNames = 127
  MaxFrames = 1
INVARIANT
  BootEndsInInit
PROPERTY
  ImplementsReaders
