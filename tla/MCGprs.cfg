CONSTANTS
  Often = 2
  Some = 2
  MaxLate = 2
SPECIFICATION FairSpec
INVARIANTS TypeOK 
PROPERTY BringUpEnds
CHECK_DEADLOCK FALSE
