SPECIFICATION FairSpec
CONSTANTS
  idle = idle
  t1 = t1
  t2 = t2
  plainq = plainq
  devq = devq
  RunQ = RunQ
  NoQueue = NoQueue
  IdleThread = idle
  Thread <- MCThread
  WaitQueue <- MCWaitQueue
  DevQueue <- MCDevQueue
INVARIANTS
  QueuesSound
  NeverLost
  HaltsOnlyIdle
PROPERTIES
  RunQueueFifo
  CancelIsReported
  RunnableRuns
CHECK_DEADLOCK FALSE
