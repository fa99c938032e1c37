SPECIFICATION FairSpec
CONSTANTS
  LoopThread = LoopThread
  WakeupChannel = WakeupChannel
  t1 = t1
  t2 = t2
  f1 = f1
  f2 = f2
  f3 = f3
  ch1 = ch1
  Threads <- MCThreads
  Functors <- MCFunctors
  Channels <- MCChannels
INVARIANTS
  NoLostWakeup
  NoLostQuit
PROPERTIES
  ImplementsTaskQueue
  LoopResponds
