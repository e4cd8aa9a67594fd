CONSTANTS
  r1 = r1
  r2 = r2
  Requests = {r1, r2}
  Limit = 1
  Length = 2
  MaxWindow = 1
  FailClosed = FALSE
  Sends = 2
  MaxLate = 1
  Faults = {"redis"}
SPECIFICATION FairSpec
CHECK_DEADLOCK FALSE
INVARIANT TypeOK
INVARIANT KeyOutlivesWindow
INVARIANT WindowLimit
INVARIANT NoEarlyRefusal
PROPERTY KeyExpires
PROPERTY ImplementsAtomicLimiter
