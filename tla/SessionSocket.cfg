CONSTANTS
  Devices = {d1}
  Requests = {r1}
  Sockets = {w1}
  None = None
SPECIFICATION FairSpec
PROPERTY CancelledCloses
CHECK_DEADLOCK FALSE
