SPECIFICATION Spec
CONSTANTS
  a = a
  b = b
  v1 = v1
  clock = clock
  gpu = gpu
  NoText = NoText
  Version   <- MCVersion
  EntityId  <- MCEntityId
  Interface <- MCInterface
  Drafts    <- MCDrafts
INVARIANTS
  TypeOK
  AcceptsExactly
  ErrorIsDeterministic
  LookupUnambiguous
