SPECIFICATION FairSpec
CONSTANTS
  MaxRequest = 2
  Ranges <- SomeRanges
  Speeds = {"prompt", "slow"}
  Refusals = {1, 2}
  MaxUnanswered = 2
INVARIANTS TypeOK AsksInRange EndsWithAsked FirstRefusalThrows
PROPERTY CallEnds
CHECK_DEADLOCK FALSE
