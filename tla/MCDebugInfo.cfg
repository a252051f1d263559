SPECIFICATION DebugSpec
CONSTANTS
  Programs  <- MCPrograms
  Addresses = {0, 1, 2}
  MaxDies   = 5
INVARIANT FunctionHasTheAddress
CHECK_DEADLOCK FALSE
