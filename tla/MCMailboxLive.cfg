SPECIFICATION FairMailboxSpec
CONSTANTS
  Token = {t1, t2}
  Name = {a}
  None = None
  MaxStale = 1
  Thread = {}
  LateMail = FALSE
  MaxQueue = 2
  MaxNotice = 1
CONSTRAINT OneConnected
INVARIANT IdleMeansRead
PROPERTY WakeupsAreAnswered
PROPERTY ReopenEventuallyAllowed
CHECK_DEADLOCK FALSE
