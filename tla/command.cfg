SPECIFICATION CommandSpec
\* The machine stops when memory is overwritten, or rm -rf never returns.
CHECK_DEADLOCK FALSE
CONSTANTS
  N = 31
  Lengths <- MCLengths
  MEMORY = 36
  WORD = 65536
  INT_MAX = 32767
  ClockBytes = {0, 9, 89, 146}
  CommandLines <- MCCommandLines
  Lower <- MCLower
  InvalidChars = {">"}
  Handlers <- MCHandlers
  Rf <- MCRf
  Eth0 <- MCEth0
  MAX_CMD_LEN = 256
  ARGS = 6
  PRINTF_SIZE = 256
  Pids <- MCPids
INVARIANTS
  CopyTypeOK
  ShortStringsCopied
  WordsAreTyped
  RedirectsGiven
  NumbersPrinted
  NumbersFit
PROPERTY
  LinesAnswered
