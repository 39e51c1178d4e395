SPECIFICATION FairAnalyzedSpec
CONSTANTS
  manual_entity = manual_entity
  auto_entity = auto_entity
  other_auto = other_auto
  stranger = stranger
  gpt = gpt
  deepseek = deepseek
  t1 = t1
  t2 = t2
  NoWasm = NoWasm
  NotAnObject = NotAnObject
  EntityId <- MCAnalyzedEntityId
  Model    <- MCAnalyzedModel
  Wasm     <- MCAnalyzedWasm
  Policies <- MCAnalyzedPolicies
  Verdicts <- MCAnalyzedVerdicts
  Replies  <- MCReplies
  Task     <- MCTask
  SessionTTL    = 1
  MaxNow        = 0
  MaxSessions   = 2
  MaxRestarts   = 1
  MaxClockSteps = 0
  MaxAsks       = 2
INVARIANTS
  ExchangesOK
  GrantsFromFirstChoice
  OnlyImportListsPosted
  AnalyzedCallsAreReadable
PROPERTY
  AnsweredCallsReturn
