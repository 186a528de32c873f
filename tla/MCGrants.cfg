SPECIFICATION GrantsSpec
CONSTANTS
  Token = {t1, t2, t3}
  Name = {a, b}
  None = None
  RequestSlot = {r1}
  MaxGrants = 1
  Terms <- TermsMC
  Consent = Consent
  Unnamed = Unnamed
  Unlimited = Unlimited
CONSTRAINT OneAtATime
SYMMETRY Symmetry
INVARIANT GrantsTypeOK
INVARIANT NothingOutlivesItsParties
INVARIANT RecipientStageHasApprover
CHECK_DEADLOCK FALSE
