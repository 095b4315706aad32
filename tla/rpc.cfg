CONSTANTS
  Xid = {x1}
  Addr = {a1, a2}
  Conn = {c1, c2}
  Retention = 2
  MaxFlight = 2
  Faults = {"error", "panic", "close", "lost"}
  None = None
  Error = Error
SPECIFICATION FairSpec
INVARIANTS TypeOK
PROPERTIES AtMostOnce Answered
