\* Three calls, one of them a retry of another, and a Close; functions terminate.
SPECIFICATION LiveSpec
CONSTANTS
  g1 = g1
  g2 = g2
  g3 = g3
  Calls = {g1, g2, g3}
  Closers = {c1}
  Starter = Starter
  Nobody = Nobody
  RequestId <- Retried
INVARIANTS TypeOK OwnReply FaultAttribution
PROPERTIES KillsBetween ImplementsInvoker CallReturns CloseEnds
