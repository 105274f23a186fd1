SPECIFICATION Spec
CONSTANTS
  PkgOrder <- MCOrder
  Path <- MCPath
  Dir <- MCDir
  Above <- MCAbove
  EtcPath <- MCEtc
  NewName <- MCNewName
  Role = {"r"}
  Relative <- MCRelative
  Release <- MCNoRelease
  Manifest <- MCManifest
  OperatorEntry <- MCOperator
  Options <- MCOptions
  None = none
  none = none
  MaxOps = 2
  Together <- MCTogether
  MaxEdited = 1
  MaxKept = 1
  MaxClaimPaths = 2
  Racing = FALSE
INVARIANTS TypeOK DatabaseMatchesDisk LinksAsClaimed
PROPERTIES UnownedKept EditsKept HoldersKept
CHECK_DEADLOCK FALSE
