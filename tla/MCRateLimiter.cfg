SPECIFICATION Spec
CONSTANTS
  Pair        <- MCPair
  rate_limits <- MCRateLimits
  default_rate_limit = 1
  Sec   = 2
  Jumps <- Back
  MaxTime     = 5
  MaxJumps    = 1
  MaxRestarts = 1
INVARIANTS
  TypeOK
  WindowBudget
  SlidingBound
  RefusalJustified
