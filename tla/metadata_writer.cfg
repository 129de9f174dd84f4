CONSTANTS
  a = a
  b = b
  flow = flow
  other = other
  Pods = {a, b}
  Workflows = {flow, other}
  Outputs = {o1}
  Shapes <- MCShapes
  MaxBacklog = 3
  MaxFaults = 1
SPECIFICATION FairSpec
CHECK_DEADLOCK FALSE
INVARIANTS RecordedOnce WrittenIsRecorded LineageIsComplete
PROPERTIES LabelsAreFinal OutputsAreRecorded
