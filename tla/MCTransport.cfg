SPECIFICATION FairSpec
CHECK_DEADLOCK FALSE
CONSTANTS
  t1 = t1  t2 = t2
  Transports = {t1, t2}
  Fds = {1, 2, 3}
  MaxMsgs = 3
  Room = 3
  Habits = {}
  None = None
INVARIANTS
    Sound
    EndsAreClean
PROPERTIES
    ImplementsConnections
    EndIsNoticed
