CONSTANTS
  Frames <- AllFrames
  MaxFrames = 4
SPECIFICATION FairSpec
INVARIANTS TypeOK ExecutedInOrder FlagTellsBusy
PROPERTIES NeverStops AcceptedExecuted
