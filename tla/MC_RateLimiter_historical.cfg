SPECIFICATION LimiterSpec
CONSTANTS
  Callers = {c1}
  Buckets = {"historical"}
  Capacity <- IBCapacity
  Rate <- IBRate
  Unit <- IBUnit
  Requests = {2}
  MaxTime = 8
  Window = 24
  Limit = 60
INVARIANT PacingLimit
