SPECIFICATION Spec
CONSTANTS
  None = None
  Call = {c1, c2, c3}
  Key = {k1}
  Input = {i1, i2}
  Complete = {i1}
SYMMETRY Symmetry
INVARIANTS
  SyncTypeOK
  AnswersAreDurableAndOwn
  KeyedAnswersAgree
  PublishedIsHeld
  ConflictIsReal
