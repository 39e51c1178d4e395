SPECIFICATION Spec
CONSTANTS
  Workloads <- MCWorkloads
  Grants    <- MCGrants
INVARIANTS
  TypeOK
  VerdictCorrect
  FirstViolationReported
  CheckedInOrder
