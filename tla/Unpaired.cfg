SPECIFICATION BlocksSpec
CONSTANTS
  t1 = t1
  t2 = t2
  x = x
  Remote = remote
  Ctx <- MCCtx
  CallerId <- MCCallerId
  Outcomes = {"sent"}
  Reuse = TRUE
  Generators = TRUE
  MaxTraces = 3
  MaxSpans = 4
INVARIANTS
  BlocksTypeOK
  SentOnce
  NoTraceLeft
CHECK_DEADLOCK FALSE
