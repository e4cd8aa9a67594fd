CONSTANTS
  r1 = r1
  q1 = q1
  q2 = q2
  Runs = {r1}
  Questions = {q1, q2}
  MaxRetries = 2
  MaxCrashes = 2
  Faults = {"abort", "publish", "transient", "permanent", "terminal"}
SPECIFICATION FairSpec
CHECK_DEADLOCK FALSE
INVARIANT TypeOK
INVARIANT EachQuestionOnce
INVARIANT CompletedIsConsistent
INVARIANT ActiveRunHasTask
PROPERTY CompletedNeverReruns
PROPERTY ActiveRunEnds
PROPERTY ImplementsReport
