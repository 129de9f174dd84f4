CONSTANTS
  Never = 9
  Controllers = {c1}
  Specs <- AllSpecs
  MaxConcurrency = 2
  MaxHistory = 1
  MaxVersion = 4
  MaxNow = 3
  MaxEvents = 1
SPECIFICATION Spec
CHECK_DEADLOCK FALSE
INVARIANTS RecordedWasCreated TriggersFollowSchedule
PROPERTY RecordMovesForward
