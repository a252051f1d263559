SPECIFICATION Spec
CONSTANTS
  Threads       = {t1, t2}
  RequestIds    = {r1, r2}
  InvocationIds = {i1, i2, i3}
  NoId          = NoId
  Codes         = {202, 300}
  IdSent        = {TRUE, FALSE}
  Asserts       = TRUE
  MaxFaults     = 3
SYMMETRY Symmetry
INVARIANTS
  TypeOK
  NoCrossWiring
  ResultMatchesRequest
  PostedAtMostOnce
  ReturnsOnlyWhenSpent
  NoAttemptWasted
CHECK_DEADLOCK FALSE
