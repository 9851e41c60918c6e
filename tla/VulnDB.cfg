SPECIFICATION FairSpec
CONSTANTS
  p1 = p1
  p2 = p2
  i1 = i1
  i2 = i2
  t1 = t1
  t2 = t2
  c1 = c1
  c2 = c2
  c3 = c3
  c4 = c4
  c5 = c5
  Providers = {p1, p2}
  Datasets <- ThreeFiles
  Importers = {i1, i2}
  Trimmers = {t1, t2}
  BatchSize = 4
  DeleteLimit = 3
  TrimLatest = {FALSE}
  SlowImports = FALSE
  MaxVersion = 2
  MaxFaults = 2
INVARIANT Inv
PROPERTIES KeepsPromise TrimKeepsLatest OrphansArePurged
