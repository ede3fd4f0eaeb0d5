SPECIFICATION PropagationSpec
CONSTANTS
  a1 = a1
  b1 = b1
  front = front
  back = back
  uuid = uuid
  Remote = remote
  Ctx <- MCCtx
  Service = {front, back}
  ServiceOf <- MCServiceOf
  CallerId = {uuid}
  HexId = {}
  HooksOf <- MCHooksOf
  Field = {user}
  NotJson = {user}
  Shared = FALSE
  Outcomes = {"dropped"}
  Reuse = FALSE
  MaxTraces = 2
  MaxSpans = 4
INVARIANTS
  CarriesOwnSpan
CHECK_DEADLOCK FALSE
