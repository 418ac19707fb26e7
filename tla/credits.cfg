SPECIFICATION Spec
CONSTANTS
  Events = {p}
  Quoted = {p}
  Handlers = {h1, h2}
  Requests = {r}
  o1 = o1
  o2 = o2
  Operators = {o1, o2}
  Routes <- Desk
  Base = 1
  MaxGrants = 2
  MaxFailures = 1
  MaxDeaths = 1
  NoEvent = NoEvent
  Watched = {"pay"}
INVARIANTS CreditedOnce CreditedIsNotAbandoned ApprovedIsFunded TakenBackIsTaken
PROPERTY PaidIsCredited
CHECK_DEADLOCK FALSE
