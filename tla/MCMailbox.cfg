SPECIFICATION MailboxSpec
CONSTANTS
  Token = {t1, t2}
  Name = {a}
  None = None
  MaxStale = 1
  Thread = {th}
  LateMail = TRUE
  MaxQueue = 2
  MaxNotice = 2
SYMMETRY Symmetry
INVARIANT MailboxTypeOK
INVARIANT InterlockNeverStuck
INVARIANT KickedNamesHaveMail
PROPERTY MailOutlivesSessions
CHECK_DEADLOCK FALSE
