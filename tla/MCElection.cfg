SPECIFICATION GovernanceSpec
CONSTANTS
  Token = {t1, t2, t3}
  Name = {a, b, c}
  None = None
  MaxStale = 0
  ClaimSlot = {c1}
  TransferSlot = {}
SYMMETRY Symmetry
CONSTRAINT BoundByListen
INVARIANT VotesAreForTheClaimant
PROPERTY OnlyClaimantIsElected
CHECK_DEADLOCK FALSE
