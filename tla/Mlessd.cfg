\* Two requests; the developer writes the template or the file of the code, once.
SPECIFICATION Spec
CONSTANTS
  Requests = {r1, r2}
  Opener = Opener
  Ticker = Ticker
  Nobody = Nobody
  MaxVersion = 2
  MaxWrites = 1
  Defs <- Versions
  NodeDefs = {}
  Debuggers = {}
  NoDebugger = NoDebugger
  Resources = {}
  ReservationKey <- NoKeys
  Files = {f1}
  CodeOf <- AllFiles
  MaxCode = 2
  MaxEdits = 1
  KeyOf <- Keys
SYMMETRY Symmetry
INVARIANTS UpToDate
