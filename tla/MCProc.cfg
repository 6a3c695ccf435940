SPECIFICATION ProcFairSpec
CONSTANTS
  idle = idle
  init = init
  p1 = p1
  p2 = p2
  disk = disk
  RunQ = RunQ
  NoQueue = NoQueue
  IdleThread = idle
  InitProc = init
  PROC_MAX_COUNT = 4
  Thread <- MCThread
  WaitQueue <- MCWaitQueue
  DevQueue <- MCDevQueue
CHECK_DEADLOCK FALSE
INVARIANTS
  ProcessesSound
  WaitSound
PROPERTIES
  UsesScheduler
  DeadChildIsReaped
  HaltCompletes
