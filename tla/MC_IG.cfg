SPECIFICATION FairPartsSpec
CONSTANTS
  Callers = {c1, c2}
  Orders = {o1}
  MaxTokens = 2
  MaxPolls = 2
  MaxCalls = 2
  Tasks = {t1, t2}
  Instruments = {i1, i2}
  Slots = 2
  MaxStreams = 3
  CandleLength = 1
  MaxUpdates = 3
INVARIANT PlacedOnce
INVARIANT StreamTruthful
INVARIANT WalksFSM
INVARIANT SessionInv
INVARIANT SubscriptionsInv
 
PROPERTY CallsEnd
CHECK_DEADLOCK FALSE
