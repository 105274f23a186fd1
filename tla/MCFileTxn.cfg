CONSTANTS
  p1 = p1
  p2 = p2
  p3 = p3
  old = old
  new = new
  Absent = Absent
  Content = {old, new}
  Path = {p1, p2}
  Stem = {p1, p2}
  ClaimPath = {p2}
  stem <- MCStem
  Plans <- OnePerPath
  MaxOps = 2
  MaxTxn = 2
  MaxCrash = 1
  MaxFault = 1
  MaxEdit = 1
SPECIFICATION FairSpec
INVARIANTS TypeOK Recoverable KeepsDisplaced NoLitter
PROPERTIES Refines PendingResolved
