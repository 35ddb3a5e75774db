\* A line longer than the scanner takes.
SPECIFICATION Spec
CONSTANTS
  PipeSize = 2
  TokenSize = 2
  MaxLine = 4
  MaxCalls = 3
PROPERTIES EachLine
