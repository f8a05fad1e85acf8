SPECIFICATION CaptureSpec
CONSTANTS
  Scenarios <- NoFault
  SegmentFrames = 2
  QueueCapacity = 1
  BufferCapacity = 2
  MaxEvents = 3
INVARIANTS NeverCorruptWhileRunning
CHECK_DEADLOCK FALSE
