SPECIFICATION MiddlewareSpec
CONSTANTS
  c1 = c1
  c2 = c2
  id1 = id1
  parent1 = parent1
  Ctx <- MCCtx
  CallerId <- MCCallerId
  Remote = parent1
  Outcomes = {"sent", "raised"}
  Reuse = FALSE
  MaxTraces = 3
  MaxSpans = 4
  Frameworks = {"django", "flask", "wsgi", "lambda"}
SYMMETRY Threads
INVARIANTS
  MiddlewareTypeOK
  OwnTree
  StackIsOpen
  ReportedOnce
PROPERTIES
  RootLast
  ReportsOwn
CHECK_DEADLOCK FALSE
