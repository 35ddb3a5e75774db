\* Two requests that compete for the debugger of a python function: everybody is
\* answered, and the process of a failed start shares the debugger with no runner.
SPECIFICATION LiveSpec
CONSTANTS
  Requests = {r1, r2}
  Nobody = Nobody
  fn = fn
  dbg = dbg
  ibg = ibg
  res = res
  Defs = {fn}
  NodeDefs = {}
  Debuggers = {dbg, ibg}
  NoDebugger = NoDebugger
  Resources = {res}
  ReservationKey <- SameResource
  Asked <- AskedOne
  Files = {f1}
  CodeOf <- AllFiles
  MaxVersion = 2
INVARIANTS DebuggerExclusive
PROPERTIES Answered DebuggerReleased
