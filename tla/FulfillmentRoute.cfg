SPECIFICATION Spec
CONSTANTS
  Orders = {o1}
  Garments = {g1}
  Staff = {ann}
  Supervisors = {ann}
  Nodes = {s1, s2, w}
  Stores = {s1, s2}
  Calls = {c1, c2}
  None = None
  MaxCodes = 2
SYMMETRY RouteSymmetry
CHECK_DEADLOCK FALSE
INVARIANTS
  TypeOK
  PathsAreExclusive
