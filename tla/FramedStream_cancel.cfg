SPECIFICATION Spec
CONSTANTS
  Base = 2
  MaxLengthDigits = 2
  MaxFrameBytes = 2
  LF = LF
  Others = {x}
  Closer = Closer
  Messages <- MCMessages
  Senders = {s1, s2}
  PipeSize = 3
  MayCancel = TRUE
CHECK_DEADLOCK FALSE
INVARIANT
  CarriesWholeDocuments
