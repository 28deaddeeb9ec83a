\* Two targets and one raw-ICP recipient; two overlapping activations.
CONSTANTS
  Proc = {p1, p2}
  self = self
  t1 = t1
  r1 = r1
  Targets <- TwoTargets
  Self = self
  Recipients <- OneRecipient
  Threshold = 2
  MaxPerTick = 1
  Fees = {1, 2}
  Rates = {1}
  Bootstrap = 2
  BootstrapFee = 1
  HeadroomNum = 101
  HeadroomDen = 100
  MinRaw = 1
  InitialCycles = 1
  DepositAmount = 9
  Budgets <- SmallBudgets
  None = None
SYMMETRY Activations
SPECIFICATION Spec
INVARIANTS
  SurplusAfterRecovery
  FailedIsUnspent
  MintedOnce
PROPERTY DebtRemembered
CHECK_DEADLOCK FALSE
