SPECIFICATION FairSpec
CONSTANTS
  t1 = t1
  m1 = m1
  m2 = m2
  Threads <- NoThreads
  Messages <- TwoMessages
  MessageLength = 2
  HighWaterMark = 2
  MaxPending = 3
  Programs <- LoopPrograms
INVARIANTS
  
  DestroyedClean
PROPERTIES
  ClosedIsDestroyed
  ShutdownCompletes
