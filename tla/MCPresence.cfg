SPECIFICATION PresenceSpec
CONSTANTS
  watcher = watcher
  a = a
  Token = {watcher, t2, t3}
  Name = {a, b}
  None = None
  MaxStale = 1
  Timer = {k1, k2}
  Room = {r1}
SYMMETRY Symmetry
CONSTRAINT Watched
INVARIANT PresenceTypeOK
INVARIANT NamedReturnCancels
PROPERTY EveryAbsenceIsTimed
CHECK_DEADLOCK FALSE
