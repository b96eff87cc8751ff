CONSTANTS
  Dept = {root, d1, d2}
  Root = root
  User = {u1, u2}
  Request = {r1, r2}
  None = None
SPECIFICATION Spec
SYMMETRY Symmetry
INVARIANTS TypeOK NoDangling TreeUnlessRaced
