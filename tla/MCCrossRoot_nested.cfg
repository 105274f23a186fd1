CONSTANTS
  NRoots = 2
  Txn = {t1}
  Recoverer = {q1}
  PlanRoots <- Several
  Reach <- AnchorReach
  RecoverAt = {2}
  StaleScan = FALSE
  MaxCrash = 1
  MaxFault = 0
SPECIFICATION Spec
INVARIANT NotTorn
CHECK_DEADLOCK FALSE
