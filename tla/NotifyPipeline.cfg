SPECIFICATION FairSpec
CONSTANTS
  g1 = g1
  g2 = g2
  g3 = g3
  Workers = {g1, g2, g3}
  Cases <- Mixed
  Cap = 2
  QueriesFail = TRUE
INVARIANTS Inv LossIsBounded
PROPERTY RoundEndsUnlessFull
CHECK_DEADLOCK FALSE
