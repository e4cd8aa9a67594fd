CONSTANTS
  c1 = c1
  c2 = c2
  Clients = {c1, c2}
  MaxApprovals = 3
SPECIFICATION FairSpec
CHECK_DEADLOCK FALSE
INVARIANT TypeOK
INVARIANT WaitingIsAnswerable
PROPERTY OnlyStaleRequestsUndo
PROPERTY WaitingEnds
