SPECIFICATION Spec
CONSTANTS
  MaxRequest = 2
  Ranges <- SomeRanges
  Speeds = {"prompt"}
  Refusals = {}
  MaxUnanswered = 2
INVARIANT MemoryIsRead
CHECK_DEADLOCK FALSE
