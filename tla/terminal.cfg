SPECIFICATION TerminalSpec
CONSTANTS
  SCREEN_WIDTH = 2
  SCREEN_HEIGHT = 2
  Ttys = {0, 1}
  Chars = {"a"}
  Space = " "
  MaxRows = 3
INVARIANTS
  TerminalTypeOK
  ScreensShowPages
PROPERTY
  KeepsOtherScreens
