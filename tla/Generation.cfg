SPECIFICATION Spec
CONSTANTS
  Previews = {v1, v2}
  Confirmations = {c1, c2}
  Tasks = {t1, t2}
  Series = {s1}
  Capabilities = {a, b}
  None = None
  MaxVersions = 2
SYMMETRY MCSymmetry
INVARIANTS OneRunPerPreview SentAsShown DraftsBacked
PROPERTIES RetiredIsClosed
