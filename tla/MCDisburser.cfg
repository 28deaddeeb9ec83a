SPECIFICATION Spec
CONSTANTS
  p1 = p1
  p2 = p2
  NoPlan = NoPlan
  Proc <- MCProc
  Fees = {1}
  AgeDen = 4
  AgeCap = 1
  BonusPct = 95
  Lease = 1
  MinGap = 1
  StartTime = 1
  MaxTime = 3
  DedupWindow = 1
  AgingSince = 1
  BatchAmount = 200
  MaxBatches = 2
  DepositAmount = 3
  MaxDeposits = 0
  MaxPlans = 2
SYMMETRY MCSymmetry
INVARIANTS LeaseExclusive IdentityPaidOnce PlanFunded SentIsExecuted AgeSnapshot
PROPERTY PlanOnlyAdvances
