CONSTANTS
  Byte = {0, 1}
  BufferSize = 4
  Blocks <- MCBlocks
  Lengths <- MCLengths
SPECIFICATION Spec
INVARIANTS TypeOK MirrorsOrderIndices
 
