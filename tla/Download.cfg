SPECIFICATION FairSpec
\* the command exits
CHECK_DEADLOCK FALSE
CONSTANTS
  Kinds <- AllKinds
  Listed <- AllListed
  PageSize = 2
  Counts = {0, 1, 3, 4}
  Fetchers = 2
INVARIANTS Inv LossIsExplained
PROPERTY RunComesToAnEnd
