SPECIFICATION Spec
CONSTANTS
  frozen_app = frozen_app
  other_app = other_app
  NoText = NoText
  EntityId <- MCEntityId
  Wasm     <- MCWasm
  Verdicts <- MCVerdicts
INVARIANTS
  FileIsOneFreeze
  RunsWithinVerdict
  WholeFilesDecideAlike
