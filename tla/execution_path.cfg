SPECIFICATION Spec
CONSTANTS
  r1 = r1
  r2 = r2
  Requests <- MCRequests
  Events <- MCRequests
  Callers = {ann}
  UserLimit = 1
  IpLimit = 2
  ExecuteLimit = 1
  LastMinute = 1
  MaxCount = 2
  Capacity = 1
  Attempts = 2
  None = None
INVARIANTS TypeOK WithinLimit Expires SlotsExact Consistent ResultTold
CHECK_DEADLOCK FALSE
PROPERTIES RunEnds ForwardedEnds
