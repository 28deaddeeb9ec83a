SPECIFICATION Spec
CONSTANTS
  Proc = {p1, p2}
  Roots = {r1, r2}
  Owners = {1, 2, 3}
  NoDir = NoDir
  Batches <- MCBatches
  Fees = {1, 2}
  Amount = 40
  MaxEvents = 1
  Directories <- MCDirectories
  SecondRoot = r2
  Attempt = 1
  Lease = 2
  Window = 1
  LedgerWindow = 1
  MaxAge = 1
  Week = 2
  MaxTime = 4
  NoPlan = NoPlan
SYMMETRY ProcSymmetry
INVARIANTS PotCovers OldRequestsDead PlanFromOneDirectory
PROPERTY NobodySkipped
CHECK_DEADLOCK FALSE
