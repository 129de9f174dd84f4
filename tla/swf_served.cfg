CONSTANTS
  Never = 9
  Controllers = {c1}
  Specs <- ServedSpecs
  MaxConcurrency = 1
  MaxHistory = 1
  MaxVersion = 20
  MaxNow = 3
  MaxEvents = 0
SPECIFICATION FairSpec
CHECK_DEADLOCK FALSE
PROPERTIES EveryTriggerIsServed
