SPECIFICATION Spec
CONSTANTS
  Ticks = {t1, t2}
  Roots = {r1, r2}
  Neurons = {1, 2, 3}
  Kinds <- MCKinds
  Starts <- MCStarts
  PageSize = 1
  MaxPages = 3
  Lease = 1
  Interval = 2
  MaxTime = 4
  MaxChanges = 1
  MaxUpgrades = 1
  MaxStarts = 2
  Absent = Absent
  NoRoot = NoRoot
  NoOwner = NoOwner
  NoScan = NoScan
  NoSnap = NoSnap
  NoDir = NoDir
SYMMETRY TickSymmetry
INVARIANTS SnapshotFaithful ScanMovesOn
PROPERTY ImplementsDirectory
CHECK_DEADLOCK FALSE
