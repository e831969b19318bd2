SPECIFICATION Spec
CONSTANTS
  Users = {ann, bob}
  Texts = {t1, t2}
  Reqs = {r1, r2, r3}
  NoUser = NoUser
  NoText = NoText
  MaxVersions = 2
  Faults <- LapseOnly
SYMMETRY Symmetry

PROPERTIES OnlyHolderWrites
CHECK_DEADLOCK FALSE
