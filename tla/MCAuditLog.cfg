SPECIFICATION Spec
CONSTANTS
  app = app
  app2 = app2
  t1 = t1
  t2 = t2
  AnyEntity = AnyEntity
  EntityId <- MCEntityId
  Task     <- MCTask
  Limits   <- MCLimits
  PollLimit     = 2
  MaxNow        = 2
  MaxEvents     = 4
  MaxClockSteps = 1
  MaxRestarts   = 1
SYMMETRY Renaming
INVARIANTS
  TypeOK
  LoggedOnceInOrder
  DisorderOnlyWhenConcurrent
  PageIsNewest
  CollectorMissesOnlyLost
