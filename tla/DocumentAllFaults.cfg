CONSTANTS
  Docs = {d1}
  Requests = {r1, r2}
  MaxChunks = 1
  MaxRetries = 1
  MaxCrashes = 1
  Kinds = {"upload", "delete", "retryDelete", "reindex", "retryJob"}
  Contents = {"clean", "warn", "quarantine", "corrupt"}
  Faults = {"abort", "publish", "transient", "permanent", "terminal"}
  Serial = FALSE
  NoRun = NoRun
SPECIFICATION FairSpec
CHECK_DEADLOCK FALSE
PROPERTY TasksFinish
INVARIANT TypeOK
INVARIANT DeletedHasNoObject
