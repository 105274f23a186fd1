SPECIFICATION OverlapSpec
CONSTANTS
  none = none
  None = none
  k1 = k1
  k2 = k2
  p = p
  q = q
  LocalSource = "local"
  Process = {p, q}
  OutDir <- Apart
  Manifest <- MCManifest
  RootOrder <- MCRoots
  NameOrder <- MCNames
  Listed <- MCListed
  Pool <- MCPool
  Change <- MCChange
  Mode <- MCModes
  Key = {k1, k2}
  MaxRuns = 2
SYMMETRY Swap
INVARIANTS TypeOK ImageWhole ImageAsRequested Reproducible
CHECK_DEADLOCK FALSE
