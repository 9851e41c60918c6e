SPECIFICATION FairSpec
CONSTANTS
  g1 = g1
  g2 = g2
  g3 = g3
  Workers = {g1, g2}
  Cases <- Long
  Cap = 1
  QueriesFail = FALSE
PROPERTY RoundEnds
CHECK_DEADLOCK FALSE
