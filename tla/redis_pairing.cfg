SPECIFICATION Spec
CONSTANTS
  c1 = c1
  c2 = c2
  c3 = c3
  Callers <- MCCallers
  MaxCommands = 4
  Rests = 2
  None = None
INVARIANT TypeOK
PROPERTIES OwnReply CallEnds
CHECK_DEADLOCK FALSE
