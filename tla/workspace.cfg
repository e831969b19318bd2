SPECIFICATION Spec
CONSTANTS
  Users = {ann, bob}
  Workspaces = {w1, w2}
  Projects = {p1}
  Names = {n1, n2}
  Reqs = {r1, r2}
  None = None
SYMMETRY Symmetry
INVARIANTS TypeOK NoOrphans Announced
PROPERTIES ChangePermitted AbandonedForGood
CHECK_DEADLOCK FALSE
