CONSTANTS
  Byte = {0, 1}
  bufsz = 4
  Sizes = {1, 3, 5}
SPECIFICATION Spec
INVARIANTS TypeOK FlagBesideGap
PROPERTY ImplementsLossyFifo
