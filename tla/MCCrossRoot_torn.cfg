CONSTANTS
  NRoots = 2
  Txn = {t1}
  Recoverer = {q1}
  PlanRoots <- Several
  Reach <- AnchorReach
  RecoverAt = {1}
  StaleScan = TRUE
  MaxCrash = 1
  MaxFault = 1
SPECIFICATION Spec
INVARIANT NotTorn
CHECK_DEADLOCK FALSE
