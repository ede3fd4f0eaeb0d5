SPECIFICATION FieldsSpec
CONSTANTS
  t1 = t1
  t2 = t2
  x = x
  Remote = remote
  Ctx <- MCCtx
  CallerId <- MCCallerId
  Outcomes = {"sent"}
  Reuse = FALSE
  Generators = FALSE
  MaxTraces = 3
  MaxSpans = 3
  Name = {0, 1}
  Removable = {0}
  Dataset = {flights}
  MaxRollup = 2
CONSTRAINT OneKind
INVARIANTS
  FieldsTypeOK
  OwnFields
  UncopiedIsWhole
  Balanced
  SpansFormTrees
PROPERTIES
  FrozenWhenSent
  NewSpansCarryAsked
  OpenSpansGetAsked
  ParentRunning
  GrowsTrees
SYMMETRY Threads
CHECK_DEADLOCK FALSE
