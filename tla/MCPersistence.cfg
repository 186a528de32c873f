SPECIFICATION PersistenceSpec
CONSTANTS
  Token = {t1, t2, t3}
  Name = {a, b}
  None = None
  RequestSlot = {r1}
  MaxGrants = 2
  Terms <- DirectTerms
  Consent = Consent
  Unnamed = Unnamed
  Unlimited = Unlimited
  Writer = {w1, w2}
SYMMETRY Symmetry
CONSTRAINT Apart
INVARIANT PersistenceTypeOK
INVARIANT SpeakersAreSound
INVARIANT GovernorIsRegistered
INVARIANT AnsweredIsDurable
INVARIANT GrantRowsAreNumbered
INVARIANT PartiesSurviveRestart
CHECK_DEADLOCK FALSE
