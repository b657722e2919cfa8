CONSTANTS
  Kind <- AllKinds
  Profiles <- AllProfiles
  Switches <- AllSwitches
  Slots = {1, 2}
  None = None
SPECIFICATION FairSpec
INVARIANTS
  TypeOK
  DownOwned
  EntryHeld
  BlockOwned
  CastBlocksPads
PROPERTIES
  ScreenClears
  ModesMeet
CHECK_DEADLOCK FALSE
