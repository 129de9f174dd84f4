CONSTANTS
  Never = 9
  Controllers = {c1, c2}
  Specs <- ServedSpecs
  MaxConcurrency = 0
  MaxHistory = 1
  MaxVersion = 3
  MaxNow = 3
  MaxEvents = 0
SPECIFICATION Spec
CHECK_DEADLOCK FALSE
INVARIANT OneWorkflowPerTrigger
