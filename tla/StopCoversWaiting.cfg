CONSTANTS
  Frames <- ControlFrames
  MaxFrames = 2
SPECIFICATION Spec
PROPERTY StopCoversWaiting
