SPECIFICATION BlocksSpec
CONSTANTS
  t1 = t1
  t2 = t2
  x = x
  Remote = remote
  Ctx <- MCCtx
  CallerId <- MCCallerId
  Outcomes = {"sent"}
  Reuse = TRUE
  Generators = FALSE
  MaxTraces = 3
  MaxSpans = 4
PROPERTY ParentRunning
CHECK_DEADLOCK FALSE
