CONSTANTS
  Reporters = {r1, r2}
  Retriers = {q1}
  Terminators = {}
  Deleters = {}
  Recurring = FALSE
  HasPlugins = FALSE
  StartCreated = TRUE
  MaxFaults = 0
  MaxTimeouts = 1
  MaxTouches = 0
SPECIFICATION Spec
CHECK_DEADLOCK FALSE
SYMMETRY Symmetry
INVARIANT LabelMeansRecorded
