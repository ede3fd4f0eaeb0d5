SPECIFICATION TasksSpec
CONSTANTS
  m = m
  a = a
  b = b
  Remote = remote
  Ctx <- MCCtx
  Main = m
  CallerId = {}
  Outcomes = {"sent"}
  Reuse = FALSE
  MaxTraces = 3
  MaxSpans = 3
  MaxFrames = 2
INVARIANTS
  TasksTypeOK
  TasksApart
  TasksBalanced
  AttachedHasParent
PROPERTIES
  AwaitedStartsInside
SYMMETRY Others
CHECK_DEADLOCK FALSE
