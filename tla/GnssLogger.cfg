CONSTANTS
  Main = Main
  Logger = Logger
  Imu = Imu
  Battery = Battery
  Gnss = Gnss
  Started = {Gnss}
  NoTask = NoTask
  NumCallbacks = 4
  QueueMax = 1
  NumBuffers = 2
  MaxSeq = 1
  Fault = {}
SPECIFICATION GnssSpec
CHECK_DEADLOCK FALSE
PROPERTY GnssShutdownCompletes
