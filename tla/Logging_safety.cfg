\* Two counted producers and every failure.
CONSTANTS
  Producer = {imu, gnss}
  Counted = {imu, gnss}
  Notifier = Notifier
  QueueMax = 2
  NumBuffers = 2
  MaxSeq = 2
  Fault = {"initialize", "createQueue", "openQueue", "junkCallback", "poll", "abandon"}
SPECIFICATION Spec
SYMMETRY CountedSymmetry
INVARIANTS
  TypeOK
  OpenCountExact
  EndMeansAllWritten
PROPERTY CleanStop
\* tasks wait for ever once the logger has stopped, failed or crashed
CHECK_DEADLOCK FALSE
