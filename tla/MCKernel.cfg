CONSTANTS
  main = main
  waterout = waterout
  android = android
  gprs = gprs
  idle = idle
  Thread <- Threads
  Priority <- Priorities
  Ticks = 8
  Main = main
  Idle = idle
  InitPriority <- Urgencies
  Slice <- Slices
  StartOrder <- Starts
  SlowStarts = {gprs}
  Naps = {0, 1, 2}
  MaxNest = 2
  Nobody = Nobody
SPECIFICATION FairSpec
INVARIANTS TypeOK ListsTellTheTruth FreedIsOutOfUse StartedTogether
PROPERTIES ImplementsPriorityCpu SleeperReturns
