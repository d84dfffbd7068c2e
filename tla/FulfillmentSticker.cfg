SPECIFICATION Spec
CONSTANTS
  Orders = {o1}
  Garments = {g1}
  Staff = {ann}
  Supervisors = {ann}
  Nodes = {s1, s2}
  Stores = {s1, s2}
  Calls = {c1}
  None = None
  MaxCodes = 1
CHECK_DEADLOCK FALSE
INVARIANTS
  StickerNamesTheRecord
