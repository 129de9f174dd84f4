CONSTANTS
  a = a
  Param = {a}
  MaxTasks = 2
  MaxParts = 3
SPECIFICATION Spec
CHECK_DEADLOCK FALSE
INVARIANTS
  TasksReadWhatWasWritten
  BlocksReadWhatWasWritten
  TasksRunWhereWritten
  ReadersWait
  DagsAreAcyclic
