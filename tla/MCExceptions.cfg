CONSTANTS
  cols = 2
  rows = 2
  TAB = 4
  Messages <- MCMessages
  Colors = {"red", "white", "none"}
  Scancodes = {"a", "b", "release"}
  ascii <- MCascii
  NUL = NUL
  MaxPrints = 2
  MaxKeys = 2
  Dumps <- MCDumps
  MaxFaults = 1
SPECIFICATION ExceptionSpec
INVARIANTS ConsoleInv MessagesWhole EchoInOrder CursorSafe
PROPERTIES PrintfReturns KeysAreRead DumpHalts
