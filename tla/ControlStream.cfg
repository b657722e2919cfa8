CONSTANTS
  Conns = {c1}
  Pointers = {p1, p2}
  Points <- MCPoints
  DeviceSizes <- MCSizes
  Cap = 2
  Word <- SmallWord
  Half <- SmallHalf
  MaxReports = 2
  None = None
SPECIFICATION Spec
SYMMETRY Symmetry
INVARIANTS
  TypeOK
  DeviceFollows
PROPERTY ScaledRight
