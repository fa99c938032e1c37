SPECIFICATION MCSpec
CONSTANTS
  c1 = c1
  c2 = c2
  c3 = c3
  c4 = c4
  NoChannel = NoChannel
  Channels <- MCChannels
  FdOf <- MCFdOf
  EnableFirst = TRUE
  InitEventListSize = 1
INVARIANTS
  IndexConsistent
  KernelWatches
  HandlersExist
  EPollAgrees
