CONSTANTS
  Main = Main
  Logger = Logger
  Imu = Imu
  Battery = Battery
  Started = {}
  NoTask = NoTask
  NumCallbacks = 4
  QueueMax = 1
  NumBuffers = 2
  MaxSeq = 1
  Fault = {}
SPECIFICATION FairSpec
CHECK_DEADLOCK FALSE
PROPERTY UnregisteredIsNotAwaited
