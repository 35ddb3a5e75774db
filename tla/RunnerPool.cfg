\* Two requests that hash two files while both are edited, for whichever debugger.
SPECIFICATION Spec
CONSTANTS
  Requests = {r1, r2}
  Nobody = Nobody
  fn = fn
  dbg = dbg
  ibg = ibg
  res = res
  Defs = {fn}
  NodeDefs = {fn}
  Debuggers = {dbg, ibg}
  NoDebugger = NoDebugger
  Resources = {res}
  ReservationKey <- SameResource
  Asked <- AskedEdited
  Files = {f1, f2}
  CodeOf <- AllFiles
  MaxVersion = 2
SYMMETRY Symmetry
INVARIANTS TypeOK FreshCode RunnerMatches DebuggerExclusive ReservationAccounted
PROPERTIES NotCutOff
