SPECIFICATION Spec
CONSTANTS
  t1         = t1
  t2         = t2
  Threads    <- MCThreads
  Initial    = t1
  Signals    <- MCSignals
  Stacks     <- MCStacks
  Above      <- MCAbove
  FunctionOf <- f
  MaxAddress = 15
  Depth      = 2
  Slack      = 1
  MaxSignals = 2
INVARIANTS
  TraceIsWhole
  FirstCrashIsTold
PROPERTY CrashEnds
CHECK_DEADLOCK FALSE
