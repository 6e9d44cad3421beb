CONSTANTS
  Payloads <- TwoFrames
  MaxFrames = 2
  BufferSize = 40
  Stale = {0}
SPECIFICATION Spec
INVARIANTS HandledAtMostOnce
CHECK_DEADLOCK FALSE
