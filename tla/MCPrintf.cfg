CONSTANTS
  cols = 3
  rows = 2
  TAB = 2
  Directives <- MCDirectives
  MaxDirectives = 3
  SIZE = 6
  MaxInt = 127
SPECIFICATION PrintfSpec
INVARIANTS ShowsLastLines MessageAsMeant
CHECK_DEADLOCK FALSE
