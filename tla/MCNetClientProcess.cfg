CONSTANTS
  Kind = "out"
  ReadRestarts = TRUE
  MaxSends = 2
  MaxChunks = 1
SPECIFICATION Spec
INVARIANTS ProcessAssertionHolds
CHECK_DEADLOCK FALSE
