SPECIFICATION Spec
CONSTANTS
  Threads  = {t1, t2}
  MaxCalls = 2
  MaxBody  = 2
  MaxChunk = 2
SYMMETRY Symmetry
INVARIANTS
  TypeOK
  PointersFresh
  AnswerIsOwn
  TakenIsWhole
  TakenOnce
CHECK_DEADLOCK FALSE
