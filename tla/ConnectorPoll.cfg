CONSTANTS
  Jobs = {j1, j2}
  Runs = {r1, r2}
  Polls = {p1}
  Scheduled = {j1, j2}
  MaxRetries = 1
  MaxCrashes = 1
  MaxRequests = 2
  Kinds = {"cancel", "status", "disconnect", "reconnect"}
  Faults = {"abort", "provider", "transient", "raise"}
SPECIFICATION Spec
CHECK_DEADLOCK FALSE
INVARIANT TypeOK
INVARIANT OneActiveRun
SYMMETRY Symmetry
