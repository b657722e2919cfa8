CONSTANTS
  Devices = {d1, d2}
  Requests = {r1, r2}
  Sockets = {s1}
  None = None
SPECIFICATION FairSpec
INVARIANTS
  TypeOK
  ReservationExclusive
  KillHandleOwned
  HandleFresh
  RegistryBacked
  ChildWatched
PROPERTIES
  ReservationReleased
  KilledChildReaped
CHECK_DEADLOCK FALSE
