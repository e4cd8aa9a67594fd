CONSTANTS
  i1 = i1
  i2 = i2
  text = text
  virus = virus
  secret = secret
  Items = {i1, i2}
  Docs = {d1, d2}
  Tasks = {t1}
  Bytes = {text, virus, secret}
  Content <- TwoItems
  Infected = {virus}
  Blocked = {secret}
  Budget = 6
  MaxPages = 2
  Faults = {"provider", "auth", "item", "scan", "crash", "task"}
  NoDoc = NoDoc
  NoBytes = NoBytes
SPECIFICATION Spec
CHECK_DEADLOCK FALSE
INVARIANT TypeOK
INVARIANT TasksHaveDocuments
INVARIANT OnlyCleanIsIndexed
INVARIANT LinkIsExact
PROPERTY FullSyncMirrors
SYMMETRY Symmetry
