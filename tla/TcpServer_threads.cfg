SPECIFICATION Spec
CONSTANTS
  t1 = t1
  m1 = m1
  m2 = m2
  Threads <- OneThread
  Messages <- TwoMessages
  MessageLength = 2
  HighWaterMark = 2
  MaxPending = 2
  Programs <- ThreadPrograms
INVARIANTS
  OutputInOrder
