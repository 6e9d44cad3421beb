CONSTANTS
  Frames <- ControlFrames
  MaxFrames = 2
SPECIFICATION FairSpec
PROPERTY StopTakesEffect
