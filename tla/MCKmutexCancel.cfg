SPECIFICATION MutexSpec
CONSTANTS
  idle = idle
  t1 = t1
  t2 = t2
  mtx = mtx
  devq = devq
  RunQ = RunQ
  NoQueue = NoQueue
  IdleThread = idle
  Thread <- MCThread
  Mutex <- MCMutex
  WaitQueue <- MCWaitQueue
  DevQueue <- MCDevQueue
CHECK_DEADLOCK FALSE
PROPERTY EINTRMeansNotHeld
