SPECIFICATION PartsSpec
CONSTANTS
  Callers = {c1, c2}
  Buckets = {"fast", "slow"}
  Capacity <- SmallCapacity
  Rate <- SmallRate
  Unit <- SmallUnit
  Requests = {1, 2}
  MaxTime = 4
  Window = 1
  Limit = 1
  Instruments <- OneSymbol
  Targets <- LongShort
  MaxBars = 2
  Resolvers = {r1, r2}
  LookedUp = {i1, i2}
  MaxTruth = 2
  MinTicks = {0, 3}
  MaxPrice = 16
INVARIANT DriverInv
INVARIANT OneWorkingOrder
INVARIANT LocalViewLag
INVARIANT AtMostOneWhileArmed
PROPERTY PathRunEnds
INVARIANT WindowBound
INVARIANT NoFutileWait
INVARIANT ClearedMeansFresh
INVARIANT SnapLegal
CHECK_DEADLOCK FALSE
