SPECIFICATION PropagationSpec
CONSTANTS
  a1 = a1
  b1 = b1
  front = front
  back = back
  uuid = uuid
  Remote = remote
  Ctx <- MCCtx
  Service = {front, back}
  ServiceOf <- MCServiceOf
  CallerId = {uuid}
  HexId = {}
  HooksOf <- MCHooksOf
  Field = {user}
  NotJson = {}
  Shared = FALSE
  Outcomes = {"dropped"}
  Reuse = FALSE
  MaxTraces = 3
  MaxSpans = 4
CONSTRAINT FieldsEarly
INVARIANTS
  PropagationTypeOK
  TraceIsOneTree
  CarriesOwnSpan
PROPERTIES
  ContinuesCall
CHECK_DEADLOCK FALSE
