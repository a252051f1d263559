SPECIFICATION JsonSpec
CONSTANTS
  Bytes     = {65, 169, 195}
  Signed    = {TRUE}
  MaxLength = 2
INVARIANT EscapesAreCodepoints
CHECK_DEADLOCK FALSE
