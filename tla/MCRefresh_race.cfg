CONSTANTS
  a = a
  b = b
  None = None
  Client = {c1, c2}
  Key = {a, b}
  Anchors = {a, b}
  MinIndexVersion = 2
  Pubs <- Rotation
  MaxClock = 0
  MaxCrash = 0
  MaxFault = 0
SPECIFICATION RefreshSpec
PROPERTY FloorNeverLowered
