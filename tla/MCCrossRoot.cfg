CONSTANTS
  NRoots = 2
  Txn = {t1, t2}
  Recoverer = {q1}
  PlanRoots <- Several
  Reach <- AnchorReach
  RecoverAt = {1}
  StaleScan = FALSE
  MaxCrash = 2
  MaxFault = 2
SPECIFICATION FairSpec
INVARIANTS TypeOK NotTorn SettledMatchesDisk BackstopUnused
PROPERTIES EventuallySettled
CHECK_DEADLOCK FALSE
