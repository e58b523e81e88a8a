SPECIFICATION FairSpec
CONSTANTS
  Calls = {c1, c2}
  ExplicitIds = {0}
  MaxSafe = 1
  MaxPending = 2
  MaxBatch = 1
  ReuseIds = TRUE
  Pump = Pump
  NoCall = NoCall
  NoId = NoId
  Malformed = Malformed
CHECK_DEADLOCK FALSE
INVARIANTS
  PendingServesCalls
PROPERTIES
  SettlesOnce
  TerminalEndsCalls
  ExchangeEnds
