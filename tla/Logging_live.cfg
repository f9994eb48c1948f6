\* Both programs, with a ring the producers lap.
CONSTANTS
  Producer = {imu, battery}
  Counted = {imu}
  Notifier = Notifier
  QueueMax = 1
  NumBuffers = 2
  MaxSeq = 4
  Fault = {}
SPECIFICATION FairSpec
INVARIANT OverrunBounded
PROPERTY LoggerStops
\* the battery task waits for ever once the logger has stopped
CHECK_DEADLOCK FALSE
