\* Three tasks and three slots: one is refused and dies with the mutex locked.
CONSTANTS
  Client = {c1, c2, c3}
  Main = Main
  NoTask = NoTask
  NumCallbacks = 3
  Quitter = {}
SPECIFICATION FairSpec
PROPERTY ShutdownCompletes
CHECK_DEADLOCK FALSE
