CONSTANTS
  Reporters = {r1}
  Retriers = {q1}
  Terminators = {}
  Deleters = {d1}
  Recurring = FALSE
  HasPlugins = TRUE
  StartCreated = FALSE
  MaxFaults = 0
  MaxTimeouts = 0
  MaxTouches = 0
SPECIFICATION FairSpec
CHECK_DEADLOCK FALSE
PROPERTIES DeletedStaysDeleted ObsoleteIsCollected
