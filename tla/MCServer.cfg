SPECIFICATION FairServerSpec
CONSTANTS
  manual_entity = manual_entity
  auto_entity = auto_entity
  stranger = stranger
  gpt = gpt
  t1 = t1
  t2 = t2
  NoWasm = NoWasm
  Unloadable = Unloadable
  NoEntity = NoEntity
  EntityId <- MCServerEntityId
  Model    <- MCModel
  Wasm     <- MCNone
  Policies <- MCServerPolicies
  Verdicts <- MCNone
  Task     <- MCTask
  SessionTTL    = 1
  MaxNow        = 1
  MaxSessions   = 2
  MaxRestarts   = 2
  MaxClockSteps = 0
INVARIANTS
  ConnectionsOK
  AckedSessionsHeld
  AnswersAgree
  StatsCountAcknowledged
PROPERTY
  RequestsAnswered
