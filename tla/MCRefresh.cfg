CONSTANTS
  a = a
  b = b
  None = None
  Client = {c1}
  Key = {a, b}
  Anchors = {a, b}
  MinIndexVersion = 2
  Pubs <- Rotation
  MaxClock = 2
  MaxCrash = 1
  MaxFault = 1
SPECIFICATION FairSpec
INVARIANTS TypeOK CacheNotBehind ServedBetweenCommands
PROPERTIES FloorNeverLowered Unwedged
