CONSTANTS
  BufferSize = 4
  MaxBytes = 10
  Byte <- MCByte
  Blocks <- MCBlocks
  Lengths <- MCLengths
  BlockLengths <- MCBlockLengths
SPECIFICATION PreemptSpec
INVARIANTS  CopyIsStable WindowOnlyWhenFull
CHECK_DEADLOCK FALSE
