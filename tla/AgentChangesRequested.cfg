CONSTANTS
  c1 = c1
  c2 = c2
  Clients = {c1}
  MaxApprovals = 1
SPECIFICATION Spec
CHECK_DEADLOCK FALSE
PROPERTY ChangesRequestedWaits
