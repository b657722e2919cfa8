CONSTANTS
  Streams = {s1}
  VCap = 3
  RCap = 7
  MaxScripts = 1
  None = None
SPECIFICATION FairSpec
PROPERTY FullChannelDrains
CHECK_DEADLOCK FALSE
