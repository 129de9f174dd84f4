CONSTANTS
  Launchers <- AllLaunchers
  RetryLimit = 5
  MaxRestarts = 2
  MaxFaults = 6
SPECIFICATION FairSpec
CHECK_DEADLOCK FALSE
INVARIANTS SuccessIsReal NoSecondJob TerminationReachesTheJob
PROPERTIES RecordedJobIsKept ContainerEnds
