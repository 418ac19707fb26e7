SPECIFICATION FairSpec
CONSTANTS
  raises = raises
  other = other
  key = key
  Requests = {raises, other}
  Raises = {raises}
  Keys = {key}
  KeyOf <- SameKey
  Servers = {s1, s2}
  NoRequest = NoRequest
  Messages <- Mails
  Dispatchers = {d1, d2}
  Limit = 1
  MaxAttempts = 2
  NoMessage = NoMessage
  MaxMishaps = 1
INVARIANTS RepeatedWithReason UnansweredIsWorkedOn
PROPERTIES ImplementsOncePerKey EveryRequestIsAnswered EveryMessageIsTried
CHECK_DEADLOCK FALSE
