CONSTANTS
  MaxWraps = 2
  MaxLawWraps = 1
  MAX_ARRAY_GROWTH = 3
  MAX_EVAL_DEPTH = 12
  MAX_PRODUCED = 6
  Streams <- MCStreams
  MaxGrowth = 3
  MaxCalls = 3
  MaxFailures = 1
  TOONL_TAGGED_LANE_LIMIT = 1
  LF = LF
  Base = 2
  MaxLengthDigits = 2
  MaxFrameBytes = 2
  Others = {x}
  MaxInput = 6
  CR = CR
  DATA = DATA
  BRACE = BRACE
  ANY = ANY
  MaxEventBytes = 2
  MaxText = 5
  MaxRead = 3
  Entries <- MCEntries
  Registered <- MCRegistered
  Handler <- MCHandler
  max_batch_length = 2
  DEFAULT_MAX_DEPTH = 2
  MaxNesting = 7
  MAX_INT = 40000
  MAX_SAFE_INTEGER = 50000
  MaxEntries = 3
SPECIFICATION MCSpec
CHECK_DEADLOCK FALSE
INVARIANTS
  ReadsTheFramesSent
  ReadsTheEventsSent
  MessagesAnswered
PROPERTIES
  PathsFollowValues
  DefinitionsHold
  RowModesAgree
  TextsKeepMeaning
  StreamFilesKeepRecords
