SPECIFICATION Spec
CONSTANTS
  Calls = {c1, c2, c3}
  ExplicitIds = {x}
  MaxSafe = 1
  MaxPending = 2
  MaxBatch = 1
  ReuseIds = FALSE
  Pump = Pump
  NoCall = NoCall
  NoId = NoId
  Malformed = Malformed
SYMMETRY Symmetry
CHECK_DEADLOCK FALSE
INVARIANTS
  AnswersOwnCall
  SettledByOwnExchange
PROPERTY
  ImplementsContract
