\* Four clients and two slots, any of them may abandon: a full table, error
\* returns, dead owners and the races that follow are all reached.
CONSTANTS
  Client = {c1, c2, c3, c4}
  Main = Main
  NoTask = NoTask
  NumCallbacks = 2
  Quitter = {c1, c2, c3, c4}
SPECIFICATION FairSpec
INVARIANTS
  TypeOK
  SlotOwnership
  OffMeansStopped
  EveryoneNotified
  NoLostWakeup
PROPERTIES
  ImplementsBarrier
  OrderlyShutdownCompletes
\* the system stops once the PowerCtrl task is off and the clients are gone
CHECK_DEADLOCK FALSE
