SPECIFICATION LogSpec
CONSTANTS
  Threads  = {t1}
  Lengths  = {0, 510, 511, 512, 513}
  CanFail  = TRUE
  LogLevel = 1
  MaxLines = 2
INVARIANT ErrorsAreReported
CHECK_DEADLOCK FALSE
