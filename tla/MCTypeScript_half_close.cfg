CONSTANTS
  Calls = {a1, a2}
  ExplicitIds = {x}
  MaxSafe = 0
  MaxPending = 2
  NoCall = NoCall
  NoId = NoId
  Capacity = 1
  MaxArrivals = 4
  MaxChunk = 3
  Peers = {k1, k2}
  FirstPeer = k1
  MaxQueued = 2
  MaxReceived = 3
  RequestIds = {1, 2, 3}
  maxPendingCalls = 2
  maxInFlight = 2
  MaxLines = 4
  MaxLinesRead = 3
SPECIFICATION Spec
INVARIANT TsAnswersWritten
CHECK_DEADLOCK FALSE
