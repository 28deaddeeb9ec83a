SPECIFICATION Spec
CONSTANTS
  Proc = {p1, p2}
  p1 = p1
  p2 = p2
  Rounds <- MCRounds
  PageSize = 2
  Fee = 1
  Pot = 17
  Stride = 8
  Lease = 8
  MaxAge = 12
  Skew = 8
  NoJob = NoJob
  NoPending = NoPending
  NoDispatch = NoDispatch
SYMMETRY MCSymmetry
INVARIANTS Accounted PaidOnce OutcomesTrue NoneSkipped NoFalseRescue TranchesInOrder
\* The clock is bounded, so the system may stop.
CHECK_DEADLOCK FALSE
