SPECIFICATION FairSpec
CONSTANTS
  Base = 2
  MaxLengthDigits = 2
  MaxFrameBytes = 2
  LF = LF
  Others = {x}
  Closer = Closer
  Messages <- MCMessages
  Senders = {s1, s2}
  PipeSize = 2
  MayCancel = FALSE
CHECK_DEADLOCK FALSE
INVARIANT
  CarriesWholeDocuments
PROPERTIES
  ImplementsChannel
  TransportCallsEnd
  EverythingArrives
