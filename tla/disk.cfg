SPECIFICATION DiskSpec
CONSTANTS
  Sizes = {2, 3, 30, 65538, 65566}
  INODES_COUNT = 1024
  BLOCK_SIZE = 4096
  INODE_SIZE = 96
  ROOT_INO = 2
  WORD = 65536
  Garbage = {7}
INVARIANTS
  DiskTypeOK
  InfoWhileMounted
  NothingLeftBehind
  CountsMatchDevice
PROPERTY
  UnmountFreesOnce
