SPECIFICATION GovernanceSpec
CONSTANTS
  Token = {t1, t2}
  Name = {a, b}
  None = None
  MaxStale = 1
  ClaimSlot = {c1}
  TransferSlot = {x1}
SYMMETRY Symmetry
CONSTRAINT BoundByListen
INVARIANT GovernanceTypeOK
PROPERTY NoDanglingInstallation
CHECK_DEADLOCK FALSE
