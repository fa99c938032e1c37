SPECIFICATION MCSpec
CONSTANTS
  kCheapPrepend = 2
  kInitialSize = 2
  ExtraBuf = 2
  ByteBase = 2
  ZeroByte = 0
  Chunks <- MCChunks
  IntSizes = {1, 2}
  MaxSize = 6
  LogThreads = {"t1", "t2"}
  kSmallBuffer = 20
  kMaxNumericSize = 4
  Messages <- MCMessages
  Zones = {"zone"}
  UTC = "UTC"
  NoSecond <- MCNoSecond
  MaxSecond = 1
  MaxHeld = 1
  FirstDays <- MCFirstDays
  MaxDays = 370
  Instants = {0, 59, 3600, 86399}
  ZoneFiles <- MCZoneFiles
  DayUnits = 48
  HourUnits = 2
  LastTime = 200
INVARIANTS
  RoomIsFound
  
  AnsweredAtOnce
  FramesInOrder
  RecordsRight
  DatesAgree
  LocalRoundTrip
  NumbersReadBack
PROPERTIES
  IsByteQueue
CHECK_DEADLOCK FALSE
