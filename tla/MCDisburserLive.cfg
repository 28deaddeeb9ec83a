SPECIFICATION FairSpec
CONSTANTS
  p1 = p1
  p2 = p2
  NoPlan = NoPlan
  Proc <- MCProc
  Fees = {1, 2}
  AgeDen = 4
  AgeCap = 1
  BonusPct = 95
  Lease = 1
  MinGap = 1
  StartTime = 1
  MaxTime = 2
  DedupWindow = 1
  AgingSince = 1
  BatchAmount = 200
  MaxBatches = 0
  DepositAmount = 200
  MaxDeposits = 1
  MaxPlans = 1
INVARIANT PlanFunded
PROPERTY ActivationEnds
