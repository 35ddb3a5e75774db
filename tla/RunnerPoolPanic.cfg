\* A container without its debugger fails to start.
SPECIFICATION Spec
CONSTANTS
  Requests = {r1, r2}
  Nobody = Nobody
  fn = fn
  dbg = dbg
  ibg = ibg
  res = res
  Defs = {fn}
  NodeDefs = {fn}
  Debuggers = {dbg, ibg}
  NoDebugger = NoDebugger
  Resources = {res}
  ReservationKey <- SameResource
  Asked <- AskedOne
  Files = {f1}
  CodeOf <- AllFiles
  MaxVersion = 1
INVARIANTS StartErrorReturned
