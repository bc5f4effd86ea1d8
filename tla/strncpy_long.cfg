SPECIFICATION CopySpec
\* The machine stops when memory is overwritten.
CHECK_DEADLOCK FALSE
CONSTANTS
  N = 31
  Lengths = {0, 1, 15, 29, 30, 31, 32, 40}
  MEMORY = 36
  WORD = 65536
INVARIANT
  AtMostN
