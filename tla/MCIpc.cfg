CONSTANTS
  main = main
  shell = shell
  android = android
  gprs = gprs
  idle = idle
  Thread <- Threads
  Priority <- Priorities
  Ticks = 5
  Main = main
  Idle = idle
  InitPriority <- Urgencies
  Slice <- Slices
  StartOrder <- Starts
  SlowStarts = {}
  Naps = {1}
  MaxNest = 0
  Nobody = Nobody
  Heap = Heap
  RxSem = RxSem
  Lock = Lock
  Shell = shell
  Users <- UsersOf
  PrioFlag = {Lock}
  Times = {1, FOREVER}
  FOREVER = FOREVER
  MaxValue = 1
  Room = 2
  MaxHold = 2
SPECIFICATION IpcSpec
INVARIANTS UnitsAccountedFor NobodyForgotten OnlyRunningRuns PriorityInherited ShellHears
PROPERTIES InversionOnlyByRelease
