SPECIFICATION FairSpec
CONSTANTS
  Threads  = {t1}
  MaxCalls = 2
  MaxBody  = 3
  MaxChunk = 2
PROPERTY CallsReturn
CHECK_DEADLOCK FALSE
