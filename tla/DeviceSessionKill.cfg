CONSTANTS
  Devices = {d1}
  Requests = {r1, r2}
  Sockets = {}
  None = None
SPECIFICATION Spec
PROPERTY WatcherSparesOthers
CHECK_DEADLOCK FALSE
