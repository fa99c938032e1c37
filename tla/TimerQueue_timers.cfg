SPECIFICATION FairSpec
CONSTANTS
  t1 = t1
  Threads <- MCThreads
  Addrs <- MCAddrs
  MaxSequence = 2
  MaxNow = 3
  Whens <- MCWhens
  Intervals <- MCIntervals
  MinDelay = 1
  ClockSteps <- MCClockSteps
  Handover = FALSE
INVARIANTS
  OwnedOnce
  TimerfdArmed
  CancelIsFinal
PROPERTIES
  OnlyOwnCancel
  TimersExpire
