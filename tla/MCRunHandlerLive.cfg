SPECIFICATION FairSpec
CONSTANTS
  Threads       = {t1, t2}
  RequestIds    = {r1}
  InvocationIds = {i1, i2, i3}
  NoId          = NoId
  Codes         = {202, 300}
  IdSent        = {TRUE}
  Asserts       = TRUE
  MaxFaults     = 2
PROPERTIES
  GivesUp
  EventuallyAnswered
  ImplementsInvocations
CHECK_DEADLOCK FALSE
