\* Two readers on one channel, the handler on the other; a lower half of two
\* counts, an int of four: the counter carries, and leaves the int.
CONSTANTS
  imu = imu
  battery = battery
  handler = handler
  Reader = {imu, battery}
  Capturer = {handler}
  Pps = handler
  Channel <- MCChannel
  PreMod = 2
  MaxCount = 5
  NumTimes = 2
  IntMod = 4
  WideMod = 16
  MaxPulses = 3
SPECIFICATION Spec
INVARIANTS
  TypeOK
  ReadsAnInstant
  OneStampPerPulse
  LatestStamps
CHECK_DEADLOCK FALSE
