SPECIFICATION FieldsSpec
CONSTANTS
  t1 = t1
  t2 = t2
  x = x
  Remote = remote
  Ctx <- MCCtx
  CallerId = {}
  Outcomes = {"sent"}
  Reuse = FALSE
  Generators = FALSE
  MaxTraces = 2
  MaxSpans = 2
  Name = {}
  Removable = {}
  Dataset = {}
  MaxRollup = 1
PROPERTIES
  TotalIsWhole
SYMMETRY Threads
CHECK_DEADLOCK FALSE
