SPECIFICATION FairSpec
CONSTANTS
  MaxLineBytes = 3
  RecvBytes = 3
  MaxStream = 10
INVARIANTS
  LinesOfTheStream
  FramingInv
PROPERTIES
  GivesUpOnlyLongLines
  NothingAfterQuit
  LinesAreHandled
CHECK_DEADLOCK FALSE
