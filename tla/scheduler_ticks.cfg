SPECIFICATION Spec
CONSTANTS
  Schedulers = {k1, k2}
  Schedules <- Plans
  Policies = {"RunAll", "RunOnce", "Skip"}
  Minute = 2
  MaxGap = 4
  SlowTicks = FALSE
  LastInstant = 11
  MaxChanges = 1
  MaxDeaths = 1
  None = None
SYMMETRY Symmetric
INVARIANTS CatchesUp OneCatchUp
PROPERTY NothingReplayed
CHECK_DEADLOCK FALSE
