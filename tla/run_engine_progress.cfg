SPECIFICATION FairSpec
CONSTANTS
  Runs = {r1, r2}
  Workers = {w1, w2}
  Callers = {c1}
  MaxAttempts = 2
  RunLimit = 2
  Overlap = "Allow"
  Outcomes = {"ok", "retryable", "terminal", "BlockedByBudget"}
  Requests = {"cancel"}
  Mishaps = {}
  MaxMishaps = 0
INVARIANTS InFlightIsWorkedOn NoRunIsForgotten
PROPERTY EveryQueuedRunEnds
CHECK_DEADLOCK FALSE
