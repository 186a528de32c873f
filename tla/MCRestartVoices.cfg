SPECIFICATION PersistenceSpec
CONSTANTS
  Token = {t1, t2, t3}
  Name = {a, b}
  None = None
  RequestSlot = {r1}
  MaxGrants = 2
  Terms <- DirectTerms
  Consent = Consent
  Unnamed = Unnamed
  Unlimited = Unlimited
  Writer = {w1, w2}
SYMMETRY Symmetry
CONSTRAINT OnlyNames
INVARIANT StoredNamesAreApart
CHECK_DEADLOCK FALSE
