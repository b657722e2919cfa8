CONSTANTS
  Devices = {d1}
  Requests = {r1, r2}
  Sockets = {}
  None = None
SPECIFICATION Spec
SYMMETRY Symmetric
PROPERTIES
  ImplementsWeb
  ImplementsServer
CONSTRAINT Narrow
CHECK_DEADLOCK FALSE
