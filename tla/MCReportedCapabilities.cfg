SPECIFICATION Spec
CONSTANTS
  manual_entity = manual_entity
  auto_entity = auto_entity
  stranger = stranger
  gpt = gpt
  t1 = t1
  t2 = t2
  NoWasm = NoWasm
  EntityId <- MCEntityId
  Model    <- MCModel
  Wasm     <- MCWasm
  Policies <- MCPolicies
  Verdicts <- MCVerdicts
  Task     <- MCTask
  SessionTTL    = 1
  MaxNow        = 2
  MaxSessions   = 2
  MaxRestarts   = 1
  MaxClockSteps = 0
INVARIANT
  ReportedCapabilitiesCoverSessions
