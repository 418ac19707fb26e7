SPECIFICATION Spec
CONSTANTS
  Runs = {r1}
  Workers = {w1, w2}
  Callers = {c1}
  MaxAttempts = 2
  RunLimit = 1
  Overlap = "Allow"
  Outcomes = {"ok", "retryable", "BlockedByBudget"}
  Requests = {"cancel", "resume", "wait", "topUp"}
  Mishaps = {"crash", "stall", "requestDies", "writeFails", "releaseFails"}
  MaxMishaps = 2
SYMMETRY Symmetric
INVARIANT RowBeforeJob
PROPERTIES ImplementsOutcome UnfinishedRunsCanBeCancelled
CHECK_DEADLOCK FALSE
