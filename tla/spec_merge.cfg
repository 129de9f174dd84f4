CONSTANTS
  Name <- AllNames
  Indexed <- WithIndex
  NoLabel <- None
  MaxIndex = 6
  Id <- Ids
  Task <- Known
  Mains <- AllMains
  Subs <- AllSubs
SPECIFICATION Spec
CHECK_DEADLOCK FALSE
INVARIANTS RefsAreKept OuterIsKept ExecutorsAreKept
