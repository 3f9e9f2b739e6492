CONSTANTS
  r1 = r1
  r2 = r2
  r3 = r3
  A = A
  B = B
  Requests <- MCRequests
  Asks <- MCAsks
  Documents = {A, B}
  None = None
  MaxQueue = 1
  MaxUpdates = 1
  MaxAnswers = 1
SPECIFICATION Spec
INVARIANTS
  SocketsAreOwned
  LiveEdge
  ShutdownFinal
PROPERTIES
  CallEndFreesMedia
CHECK_DEADLOCK FALSE
