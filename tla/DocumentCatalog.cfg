CONSTANTS
  Docs = {d1}
  Requests = {r1, r2, r3}
  MaxChunks = 2
  MaxRetries = 1
  MaxCrashes = 1
  Kinds = {"upload", "delete", "reindex"}
  Contents = {"clean", "corrupt"}
  Faults = {"abort", "publish", "transient", "permanent"}
  Serial = TRUE
  NoRun = NoRun
SPECIFICATION FairSpec
CHECK_DEADLOCK FALSE
INVARIANT IndexIsExact
PROPERTY HeldSourceKept
PROPERTY RowsChangeWithStatus
PROPERTY ImplementsCatalog
PROPERTY DeletionEnds
