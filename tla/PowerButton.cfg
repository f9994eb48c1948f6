\* The button moves up to ten times; a check is three delays long.
CONSTANTS
  CheckTicks = 3
  MaxChanges = 10
SPECIFICATION FairSpec
INVARIANTS
  TypeOK
  NoDrift
PROPERTIES
  SwitchedByHolding
  LongPressStops
\* the task ends, or waits for a button nobody presses
CHECK_DEADLOCK FALSE
