\* Three calls, one a retry of another, and a Close; functions end, and one may write on stdout.
SPECIFICATION LiveSpec
CONSTANTS
  g1 = g1
  g2 = g2
  g3 = g3
  Calls = {g1, g2, g3}
  Closers = {c1}
  Starter = Starter
  Nobody = Nobody
  Chatty = {g3}
  RequestId <- Retried
INVARIANTS TypeOK OwnReply ServerProtocol NoReuse
PROPERTIES KillsBetween ImplementsInvoker CallReturns CloseEnds
