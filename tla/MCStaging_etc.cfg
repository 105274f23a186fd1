SPECIFICATION Spec
CONSTANTS
  PkgOrder <- EOrder
  Path <- MCPath
  Dir <- MCDir
  Above <- MCAbove
  EtcPath <- MCEtc
  NewName <- MCNewName
  Role = {}
  Relative <- MCRelative
  Release <- MCNoRelease
  Manifest <- EManifest
  OperatorEntry <- MCOperator
  Options <- MCOptions
  None = none
  none = none
  MaxOps = 2
  Together <- MCTogether
  MaxEdited = 1
  MaxKept = 1
  MaxClaimPaths = 2
  Racing = FALSE
PROPERTY EtcContentKept
CHECK_DEADLOCK FALSE
