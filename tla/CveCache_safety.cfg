SPECIFICATION Spec
CONSTANTS
  a = a
  b = b
  d = d
  wide = wide
  big = big
  empty = empty
  None = None
  Calls = {g1, g2, g3, g4, g5}
  Keys = {a, b, wide, big}
  EmptyKey = empty
  Weight <- Weights
  Limits <- Caching
SYMMETRY Symmetry
INVARIANTS SingleFlight QueueIsData Accounting Bounded UnlimitedNeverFails
PROPERTY ImplementsMemo
