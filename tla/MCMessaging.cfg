SPECIFICATION MessagingSpec
CONSTANTS
  Token = {t1, t2}
  Name = {a, b}
  None = None
  RequestSlot = {r1}
  MaxGrants = 2
  Terms <- TermsMC
  Consent = Consent
  Unnamed = Unnamed
  Unlimited = Unlimited
  HoldSlot = {h1}
  MaxWindows = 1
  MaxUses = 2
CONSTRAINT Detailed
SYMMETRY Symmetry
INVARIANT MessagingTypeOK
INVARIANT BudgetIsKept
INVARIANT NoColdContact
INVARIANT HeldMailMatchesItsGrant
PROPERTY GoneGrantsStayGone
CHECK_DEADLOCK FALSE
