SPECIFICATION Spec
CONSTANTS
  Proc = {p1, p2}
  p1 = p1
  p2 = p2
  Percentages <- MCTwo
  MinNet = 4
  Bootstrap = 6
  Fees = {1, 6}
  Amount = 10
  MaxDeposits = 2
  Stride = 4
  Lease = 8
  MaxTime = 16
  Window = 4
  LedgerWindow = 12
  NoJob = NoJob
  NoFee = NoFee
SYMMETRY MCSymmetry
INVARIANTS EndsJustified LegPaidOnce Covered
PROPERTY Attributable
\* The clock is bounded, so the system may stop.
CHECK_DEADLOCK FALSE
