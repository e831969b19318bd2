SPECIFICATION Spec
CONSTANTS
  Clients = {ann, bob}
  Nobody = Nobody
  TTL = 2
  Interval = 1
  Prompt = TRUE
  MaxWire = 2
PROPERTIES HeartbeatKeepsLock
