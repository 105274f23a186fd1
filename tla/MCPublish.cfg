SPECIFICATION FairSpec
CONSTANTS
  lib1 = lib1
  lib2 = lib2
  lib2b = lib2b
  app1 = app1
  app1y = app1y
  none = none
  None = none
  k1 = k1
  k2 = k2
  Publisher = {p, q}
  Artifacts <- MCArtifacts
  KeyStatus <- MCKeys
  SigningKey = {k1, k2}
  Template <- MCTemplates
  StoredTemplate <- Full
  Option <- MCOptions
  MaxVersion = 3
  MaxCrash = 1
  Named <- MCNamed
INVARIANTS TypeOK AdvertisedServed FloorServed ProtectedInstalls
PROPERTIES PublishedForGood TornHeals
CHECK_DEADLOCK FALSE
