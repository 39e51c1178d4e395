SPECIFICATION Spec
CONSTANTS
  Workloads <- BareWorkloads
  Grants    <- MCGrants
INVARIANT
  EveryHalImportGranted
