CONSTANTS
  Reporters = {r1}
  Retriers = {}
  Terminators = {t1}
  Deleters = {}
  Recurring = TRUE
  HasPlugins = TRUE
  StartCreated = FALSE
  MaxFaults = 1
  MaxTimeouts = 0
  MaxTouches = 1
SPECIFICATION FairSpec
CHECK_DEADLOCK FALSE
INVARIANT LabelledIsPersisted
PROPERTIES OnlyPersistedIsCollected FinalStateIsStable RunSettles FinishedIsLabelled
