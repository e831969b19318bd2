SPECIFICATION Spec
CONSTANTS
  Users = {ann, bob, cy}
  Texts = {t1, t2}
  Reqs = {r1, r2, r3}
  NoUser = NoUser
  NoText = NoText
  MaxVersions = 3
  Faults <- NoFaults
SYMMETRY Symmetry
INVARIANTS TypeOK ExclusiveWriters CommittedFile RegularRead
PROPERTIES HistorySpec
CHECK_DEADLOCK FALSE
