SPECIFICATION Spec
CONSTANTS
  Pair        <- MCPair
  rate_limits <- MCRateLimits
  default_rate_limit = 1
  Sec   = 2
  Jumps = {}
  MaxTime     = 5
  MaxJumps    = 0
  MaxRestarts = 1
INVARIANT
  LimitIsPerEntity
