SPECIFICATION Spec
CONSTANTS
  Addresses = {x, y}
  Names <- MCNames
  x = x
  y = y
  a = a
  b = b
  Bare = Bare
  Setups <- MCSetups
  Sessions = {s}
  UserCap = 1
  Grace = 0
  Retention = 1
  MaxNow = 3
  MaxRuns = 2
  None = None
SYMMETRY MCSymmetry
INVARIANTS ConnectedRowsKept EvictedStaysGone 
