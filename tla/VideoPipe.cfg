CONSTANTS
  Streams = {s1, s2}
  VCap = 2
  RCap = 7
  MaxScripts = 1
  None = None
SPECIFICATION FairSpec
INVARIANTS
  TypeOK
  BuffersBounded
  HudEndsWithStream
PROPERTY StreamCloses
CHECK_DEADLOCK FALSE
