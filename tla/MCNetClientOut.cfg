CONSTANTS
  Kind = "out"
  ReadRestarts = TRUE
  MaxSends = 3
  MaxChunks = 3
SPECIFICATION FairSpec
INVARIANTS TypeOK StateMatchesStream NoDanglingStream AssertionsUnlessDeleted GivenUpIsFreed
PROPERTIES MissingStreamOnlyOvertaken LinkSpec ClosingEnds InboxRead
CHECK_DEADLOCK FALSE
