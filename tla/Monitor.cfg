SPECIFICATION Spec
CONSTANTS
  n1 = n1
  a = a
  b = b
  c = c
  v1 = v1
  h1 = h1
  h2 = h2
  Names = {n1}
  Items <- MCItems
  Cves = {v1}
  Affected <- OneAffected
  BatchSize = 2
  Handlers = {h1, h2}
  Wrong <- Right
  MaxRequests = 2
  MaxImports = 1
  MaxFaults = 1
  MaxCrashes = 1
SYMMETRY Symmetry
INVARIANTS Inv RecordedIsPosted
PROPERTY OkMeansDone
