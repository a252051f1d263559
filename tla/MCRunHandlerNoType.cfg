SPECIFICATION Spec
CONSTANTS
  Threads       = {t1}
  RequestIds    = {r1}
  InvocationIds = {i1, i2}
  NoId          = NoId
  Codes         = {202, 300}
  IdSent        = {TRUE}
  Asserts       = FALSE
  MaxFaults     = 3
PROPERTY NonSuccessIsRetried
CHECK_DEADLOCK FALSE
