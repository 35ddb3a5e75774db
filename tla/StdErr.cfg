\* Three calls, lines from none to twice what the scanner takes.
SPECIFICATION Spec
CONSTANTS
  PipeSize = 2
  TokenSize = 2
  MaxLine = 4
  MaxCalls = 3
INVARIANTS LinesInOrder
PROPERTIES Unblocked LastWords ReaderEnds
