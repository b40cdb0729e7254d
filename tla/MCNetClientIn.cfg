CONSTANTS
  Kind = "in"
  ReadRestarts = FALSE
  MaxSends = 3
  MaxChunks = 3
SPECIFICATION Spec
INVARIANTS ReadsToTheEnd
CHECK_DEADLOCK FALSE
