CONSTANTS
  Jobs = {j1, j2}
  Runs = {r1, r2}
  Polls = {p1}
  Scheduled = {j1, j2}
  MaxRetries = 1
  MaxCrashes = 1
  MaxRequests = 1
  Kinds = {"start", "retry", "cancel", "status", "disconnect", "reconnect"}
  Faults = {"provider", "transient"}
SPECIFICATION FairSpec
CHECK_DEADLOCK FALSE
INVARIANT ActiveRunIsServed
PROPERTY ActiveRunEnds
PROPERTY DueJobGetsRun
