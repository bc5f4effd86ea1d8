SPECIFICATION ConsoleSpec
CONSTANTS
  Ttys = {0, 1}
  Chars = {" ", "p", "P"}
  NAME_LEN = 1
  MAX_CMD_LEN = 3
  HISTORY_SIZE = 2
  Root <- MCRoot
  One <- MCOne
  ExitLines <- MCExitLines
  PauseLines <- MCPauseLines
  MaxLog = 3
  ShiftKeys = {"lshift", "rshift"}
  CtrlKeys = {"ctrl"}
  AltKeys = {"alt"}
  DirectKeys = {"enter", "backspace", "space"}
  direct <- MCDirect
  MapKeys = {"keyP"}
  keyboard_map_lower <- MCLower
  keyboard_map_upper <- MCUpper
  control <- MCControl
  BeyondKeys = {"arrow"}
  Beyond <- MCBeyond
  Nul = "nul"
  MaxHeld = 2
INVARIANTS
  SessionTypeOK
  ShellServesLoggedIn
  LinesFit
  HistoryIsRecent
  NoStuckModifier
PROPERTIES
  ImplementsSession
  ImplementsReaders
