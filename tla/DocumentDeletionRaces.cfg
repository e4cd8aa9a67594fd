CONSTANTS
  Docs = {d1}
  Requests = {r1, r2, r3}
  MaxChunks = 1
  MaxRetries = 0
  MaxCrashes = 1
  Kinds = {"upload", "delete", "retryDelete"}
  Contents = {"clean"}
  Faults = {"permanent"}
  Serial = FALSE
  NoRun = NoRun
SPECIFICATION Spec
CHECK_DEADLOCK FALSE
INVARIANT NoStrandedDelete
INVARIANT ErasureInv
INVARIANT DeletingIsOwned
SYMMETRY Symmetry
