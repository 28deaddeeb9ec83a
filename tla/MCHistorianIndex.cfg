SPECIFICATION Spec
CONSTANTS
  Ticks = {t1, t2}
  Pokes = {p1}
  Loads <- MCLoads
  Targets = {"g"}
  Target <- MCTarget
  PageSize = 2
  MaxPages = 2
  PokePages = 1
  Retained = 1
  MainLease = 1
  IndexLease = 1
  MinGap = 2
  PokeGap = 1
  MaxTime = 2
  NoTarget = NoTarget
  NoCatchUp = NoCatchUp
  NoSweep = NoSweep
SYMMETRY TickSymmetry
INVARIANTS TotalsExact ClaimsTrue
CHECK_DEADLOCK FALSE
