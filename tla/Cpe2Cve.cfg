SPECIFICATION PipeFairSpec
\* cpe2cve exits
CHECK_DEADLOCK FALSE
CONSTANTS
  a = a
  wide = wide
  empty = empty
  f1 = f1
  f2 = f2
  fix = fix
  c1 = c1
  c2 = c2
  r1 = r1
  r2 = r2
  r3 = r3
  short = short
  None = None
  Calls = {r1, r2, r3}
  Keys = {a, wide}
  EmptyKey = empty
  Weight <- Weights
  Limits <- AllLimits
  Workers = {w1, w2}
  Files = {f1, f2, fix}
  Feeds = {f1, f2}
  Overrides = {fix}
  Ids = {c1, c2}
  Has <- AllHas
  Input <- Records
  Hits <- AllHits
INVARIANTS PipeInv ExitsComplete
PROPERTIES ComesToAnEnd RowsComeOut
