SPECIFICATION Spec
CONSTANTS
  t1 = t1
  Threads <- MCThreads
  Addrs <- MCAddrs
  MaxSequence = 3
  MaxNow = 3
  Whens <- MCWhens
  Intervals <- MCIntervals
  MinDelay = 1
  ClockSteps <- MCClockSteps
  Handover = TRUE
INVARIANT
  CancelIsFinal
