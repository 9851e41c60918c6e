SPECIFICATION Spec
CONSTANTS
  n1 = n1
  a = a
  b = b
  c = c
  v1 = v1
  h1 = h1
  h2 = h2
  Names = {n1}
  Items <- MCItems
  Cves = {v1}
  Affected <- OneAffected
  BatchSize = 2
  Handlers = {h1}
  Wrong <- Right
  MaxRequests = 1
  MaxImports = 1
  MaxFaults = 0
  MaxCrashes = 0
INVARIANTS ExistingIsReturned
