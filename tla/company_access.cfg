SPECIFICATION Spec
CONSTANTS
  lapse = lapse
  pay = pay
  small = small
  large = large
  Events = {lapse, pay}
  Stamp <- Occurred
  Verdict <- Mapped
  Sells <- Sold
  Plans = {small, large}
  Handlers = {h1}
  People = {ann, bob}
  MaxMoves = 1
  MaxFailures = 0
  MaxDeaths = 1
  NoEvent = NoEvent
  Watched = {}
INVARIANTS DeletedOnlyWhenClosed FollowsTheNewest
PROPERTIES ClosedStaysClosed PeopleAreNotOverruled
SYMMETRY Symmetric
CHECK_DEADLOCK FALSE
