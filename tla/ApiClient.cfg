SPECIFICATION FairSpec
CONSTANTS
  Callers = {c1, c2}
  PerPeriod = 2
  Retries = {0, 2}
  Delay = 1
  Statuses = {0, 200, 404, 503}
  Retried = {503}
  FailAt = {0, 2}
INVARIANTS Inv DelaysDouble
PROPERTY EveryRequestEnds
