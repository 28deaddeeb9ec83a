SPECIFICATION Spec
CONSTANTS
  a = a
  b = b
  p1 = p1
  p2 = p2
  Proc <- MCProc
  Requests <- MCRequests
  Forbidden = {}
  Canonical <- MCCanonical
  MaxTargets = 2
  MaxRecipients = 2
  MaxCreating = 1
  Slots <- MCSlots
  Attempts = 2
  Window = 2
  Lease = 1
  MaxTime = 2
  MaxTokens = 3
  SetupMin = 6
  Extra = 1
  Margin = 1
  Seed = 1
  InitialCycles = {3, 5}
  Fees = {1, 2}
  Rates = {2}
  Amount = 8
  NoTx = NoTx
SYMMETRY Symmetry
INVARIANTS ReservationSafe SpendingIsJournalled PromiseKept
PROPERTY ImplementsContract
CHECK_DEADLOCK FALSE
