SPECIFICATION SessionsSpec
CONSTANTS
  Token = {t1, t2}
  Name = {a}
  None = None
  MaxStale = 1
SYMMETRY Symmetry
INVARIANT LiveStreamIsCounted
CHECK_DEADLOCK FALSE
