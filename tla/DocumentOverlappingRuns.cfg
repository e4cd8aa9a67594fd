CONSTANTS
  Docs = {d1}
  Requests = {r1, r2, r3}
  MaxChunks = 2
  MaxRetries = 1
  MaxCrashes = 0
  Kinds = {"upload", "reindex", "retryJob"}
  Contents = {"clean", "corrupt", "warn", "reject"}
  Faults = {"abort", "publish", "terminal"}
  Serial = FALSE
  NoRun = NoRun
SPECIFICATION Spec
CHECK_DEADLOCK FALSE
INVARIANT IndexIsComplete
INVARIANT IndexedHasChunks
SYMMETRY Symmetry
