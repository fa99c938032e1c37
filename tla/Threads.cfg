SPECIFICATION MCSpec
CONSTANTS
  Producers = {p1, p2}
  Consumers = {c1, c2}
  MaxSize = 2
  MaxPuts = 5
  Workers = {"w1", "w2"}
  Tasks = {"a", "b", "c"}
  NoTask = "no task"
  PoolPrograms <- MCPoolPrograms
  NULL = NULL
  rollSize_ = 2
  flushInterval_ = 1
  checkEveryN_ = 2
  kRollPerSeconds_ = 2
  kLargeBuffer = 2
  kDropAbove = 3
  kKeep = 2
  MaxLines = 5
  MaxTime = 3
  LockThreads = {t1, t2, t3}
  NoThread = NoThread
  ClientPrograms <- MCClientPrograms
  kInitRetryDelayMs = 1
  kMaxRetryDelayMs = 3
  MaxFailures = 3
  MaxConnections = 3
  ServerPrograms <- MCServerPrograms
  PoolThreads = {1, 2}
  Hashes = {0, 1, 2, 3}
  MaxFds = 3
  MaxClients = 4
  Calls <- MCCalls
  NestedIn <- MCNestedIn
  ErrorOf <- MCErrorOf
  NoCall = "none"
  RpcPrograms <- MCRpcPrograms
INVARIANTS
  NobodyStranded
  HolderIsOwner
  
  ConnectorSound
  
  
PROPERTIES
  
  
  
  Connected
  PoolStartsAndEnds
  
  EveryCallAnswered
CHECK_DEADLOCK FALSE
