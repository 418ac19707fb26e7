SPECIFICATION FairSpec
CONSTANTS
  raises = raises
  other = other
  key = key
  Requests = {raises, other}
  Raises = {raises}
  Keys = {key}
  KeyOf <- SameKey
  Servers = {s1}
  NoRequest = NoRequest
  Messages <- Mails
  Dispatchers = {d1}
  Limit = 1
  MaxAttempts = 2
  NoMessage = NoMessage
  MaxMishaps = 0
PROPERTY EveryMessageSettles
CHECK_DEADLOCK FALSE
