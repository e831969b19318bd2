SPECIFICATION FairSpec
CONSTANTS
  Clients = {ann, bob}
  Nobody = Nobody
  TTL = 4
  Interval = 2
  Prompt = FALSE
  MaxWire = 2
PROPERTIES AbandonedLockFrees LockTakenAgain
INVARIANTS AskedInTime
