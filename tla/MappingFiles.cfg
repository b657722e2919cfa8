CONSTANTS
  Requests = {r1, r2}
  Ops <- AllOps
  Names = {default, a}
  Default = default
  MaxRestarts = 1
  Absent = Absent
  Empty = Empty
  Broken = Broken
  None = None
SPECIFICATION FairSpec
INVARIANTS
  TypeOK
  ActiveFresh
  ConfigFollows
  SavedFollows
PROPERTIES
  RestartKeeps
  Answered
