CONSTANTS
  Never = 40
  Plans <- MCPlans
  CreatedAt = 2
  Horizon = 12
SPECIFICATION TimerSpec
CHECK_DEADLOCK FALSE
INVARIANTS CatchupMissesNothing NoCatchupIsCurrent
