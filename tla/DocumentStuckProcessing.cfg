CONSTANTS
  Docs = {d1}
  Requests = {r1}
  MaxChunks = 1
  MaxRetries = 1
  MaxCrashes = 0
  Kinds = {"upload"}
  Contents = {"clean"}
  Faults = {"transient"}
  Serial = FALSE
  NoRun = NoRun
SPECIFICATION Spec
CHECK_DEADLOCK FALSE
INVARIANT NoStrandedProcessing
