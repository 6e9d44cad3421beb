CONSTANTS
  Payloads <- ThreeFrames
  MaxFrames = 3
  BufferSize = 13
  Stale = {0, 1}
SPECIFICATION Spec
INVARIANTS TypeOK OnlySentHandled ReassembledUnlessCut ChecksumIsRemainder
CHECK_DEADLOCK FALSE
