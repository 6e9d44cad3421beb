CONSTANTS
  LowMark = 3
  HighMark = 6
  Top = 9
  ColdMark = 2
  HotMark = 4
  MaxTemp = 7
SPECIFICATION FairSpec
INVARIANTS TypeOK NoOverflow  HeatBounded
PROPERTIES OpenedOnlyWhenLow ColdIsHeated LowIsFilled
