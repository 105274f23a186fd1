SPECIFICATION Spec
CONSTANTS
  none = none
  None = none
  k1 = k1
  k2 = k2
  p = p
  q = q
  LocalSource = "local"
  Process = {p}
  OutDir <- Alone
  Manifest <- MCManifest
  RootOrder <- MCRoots
  NameOrder <- MCNames
  Listed <- MCListed
  Pool <- MCPool
  Change <- MCRebuilt
  Mode <- JustBuild
  Key = {k1, k2}
  MaxRuns = 1
INVARIANT ImageAsRequested
CHECK_DEADLOCK FALSE
