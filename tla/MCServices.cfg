CONSTANTS
  Conns = {c1, c2, c3}
  MaxConnections = 2
  MaxDocuments = 1
  Keys = {k1, k2}
  Requests = {r1, r2, r3}
  Pushes = {u1}
  NoPush = NoPush
  MaxPollKeys = 1
  MaxWaitersPerKey = 2
  Streams = {s1, s2}
  Posts = {p1, p2}
  Sessions = {n1, n2}
  EventQueue = 1
  ReuseNames = FALSE
  NoStream = NoStream
  NoSession = NoSession
  EVENT_BATCH = 2
  MaxEvents = 5
  MaxReads = 3
  Err = Err
  Pids = {i1, i2}
  MaxAttempts = 2
  Deletes = {d1, d2}
  max_runs = 2
  MaxRuns = 4
SPECIFICATION Spec
INVARIANTS PoolInOrder WaitersInOrder OneEventPerPoll StreamsInOrder HandoffKeepsPace FileStaysWhole
PROPERTIES RunsRetained ServerStops BacklogIsServed PollsEnd ClosedStreamsEnd DecoderCallsReturn
CHECK_DEADLOCK FALSE
