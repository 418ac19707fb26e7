SPECIFICATION Spec
CONSTANTS
  c = c
  d = d
  Company = c
  Wallets = {c, d}
  Level <- Levels
  Paths <- Spends
  Work = {"open", "reserve", "settle", "release", "sweep", "set", "adjust"}
  Reservations = {r1, r2}
  Sessions = {s1, s2, s3}
  NoReservation = NoReservation
  Estimates = {2}
  Actuals = {0, 3}
  Allowances = {4}
  Deltas <- UpDown
  Opening = 4
  HardStopPercent = 100
  MaxChanges = 2
  LastPeriod = 0
INVARIANTS TypeOK WalletsMatchReservations BalanceMatchesLedger OutermostFirstNeverDeadlocks
PROPERTIES NeverPastHardStop ImplementsBudget
SYMMETRY Symmetric
CHECK_DEADLOCK FALSE
