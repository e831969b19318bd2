SPECIFICATION FairSpec
CONSTANTS
  Users = {ann, bob}
  Texts = {t1}
  Reqs = {r1, r2}
  NoUser = NoUser
  NoText = NoText
  MaxVersions = 3
  Faults <- AllFaults
INVARIANTS VersionsContiguous
PROPERTIES LeaseSpec DeletedFileUnlocks
CHECK_DEADLOCK FALSE
