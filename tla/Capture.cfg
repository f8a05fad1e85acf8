SPECIFICATION CaptureSpec
CONSTANTS
  Scenarios <- All
  SegmentFrames = 2
  QueueCapacity = 1
  BufferCapacity = 2
  MaxEvents = 3
INVARIANTS KeptReadable RecordsContiguous ZstFaithful TailerExact CorruptOnlyWhenOvertaken ReplayFaithful
PROPERTIES TailerCatchesUp
CHECK_DEADLOCK FALSE
