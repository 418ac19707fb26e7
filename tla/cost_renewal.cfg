SPECIFICATION Spec
CONSTANTS
  c = c
  d = d
  Company = c
  Wallets = {c, d}
  Level <- Levels
  Paths <- Spends
  Work = {"reserve", "set", "reset"}
  Reservations = {r1}
  Sessions = {s1, s2}
  NoReservation = NoReservation
  Estimates = {2}
  Actuals = {3}
  Allowances = {2, 4}
  Deltas <- UpDown
  Opening = 4
  HardStopPercent = 100
  MaxChanges = 2
  LastPeriod = 3
INVARIANT BalanceMatchesLedger
PROPERTY LapsesWhatWasLeft
SYMMETRY Symmetric
CHECK_DEADLOCK FALSE
