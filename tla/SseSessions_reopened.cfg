SPECIFICATION SseSpec
CONSTANTS
  Streams = {s1, s2}
  Posts = {p1, p2}
  Sessions = {n1, n2}
  EventQueue = 1
  ReuseNames = TRUE
  NoStream = NoStream
  NoSession = NoSession
CHECK_DEADLOCK FALSE
INVARIANT
  OpenStreamsFound
