SPECIFICATION FairSpec
CONSTANTS
  t1 = t1
  t2 = t2
  x = x
  Remote = remote
  Ctx <- MCCtx
  CallerId <- MCCallerId
  Outcomes = {"sent", "raised"}
  Reuse = FALSE
  MaxTraces = 2
  MaxSpans = 3
INVARIANTS
  TypeOK
  StackIds
  StackIsPath
  Private
PROPERTIES
  Isolated
  SendAllFlushes
  SendAllTerminates
