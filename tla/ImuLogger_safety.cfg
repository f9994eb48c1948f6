CONSTANTS
  Main = Main
  Logger = Logger
  Imu = Imu
  Battery = Battery
  Started = {}
  NoTask = NoTask
  NumCallbacks = 4
  QueueMax = 1
  NumBuffers = 2
  MaxSeq = 1
  Fault = {"initialize", "createQueue", "openQueue", "junkCallback", "device", "poll"}
SPECIFICATION FairSpec
INVARIANTS
  TypeOK
  OffMeansSaved
PROPERTY ShutdownCompletes
\* tasks come to rest when the shutdown is over, or wait for ever
CHECK_DEADLOCK FALSE
