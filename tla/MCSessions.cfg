SPECIFICATION SessionsSpec
CONSTANTS
  Token = {t1, t2, t3}
  Name = {a, b}
  None = None
  MaxStale = 1
SYMMETRY Symmetry
CONSTRAINT OneConnected
INVARIANT SessionsTypeOK
INVARIANT OneVoicePerName
INVARIANT ReadsWhereItSpeaks
INVARIANT HeldNamesRegistered
INVARIANT NoPhantomGovernor
INVARIANT NoPhantomConnection
PROPERTY NoTakeover
PROPERTY OnlyDeletionForgets
PROPERTY ImplementsDirectory
CHECK_DEADLOCK FALSE
