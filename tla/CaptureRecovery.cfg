SPECIFICATION CaptureSpec
CONSTANTS
  Scenarios <- OneCrash
  SegmentFrames = 2
  QueueCapacity = 1
  BufferCapacity = 2
  MaxEvents = 3
INVARIANTS RecoveryRepeats
CHECK_DEADLOCK FALSE
