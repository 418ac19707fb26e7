SPECIFICATION Spec
CONSTANTS
  Handlers = {h1, h2}
  People = {ann, bob}
  NoOne = NoOne
  Counted <- ActiveAndInvited
  Ceiling = 1
  MaxLinks = 2
  MaxNotices = 1
INVARIANTS LinkIsUsedOnce SeatsWithinCeiling
PROPERTY DismissalHolds
SYMMETRY Symmetric
CHECK_DEADLOCK FALSE
