SPECIFICATION AttachmentsSpec
CONSTANTS
  Token = {t1, t2, t3}
  Name = {a, b}
  None = None
  RequestSlot = {r1}
  MaxGrants = 1
  Terms <- Plain
  Consent = Consent
  Unnamed = Unnamed
  Unlimited = Unlimited
  HoldSlot = {h1}
  MaxWindows = 1
  MaxUses = 1
  File = {f1, f2}
CONSTRAINT OnlyFiles
SYMMETRY Symmetry
INVARIANT AttachmentsTypeOK
INVARIANT ToldCanFetch
INVARIANT OneReaderPerFile
CHECK_DEADLOCK FALSE
