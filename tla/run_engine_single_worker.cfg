SPECIFICATION Spec
CONSTANTS
  Runs = {r1, r2}
  Workers = {w1, w2}
  Callers = {c1}
  MaxAttempts = 2
  RunLimit = 1
  Overlap = "Allow"
  Outcomes = {"ok", "retryable", "BlockedByBudget"}
  Requests = {"cancel", "resume", "topUp"}
  Mishaps = {"writeFails", "requestDies"}
  MaxMishaps = 1
SYMMETRY Symmetric
INVARIANT OneWorkerPerRun
CHECK_DEADLOCK FALSE
