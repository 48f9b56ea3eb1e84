SPECIFICATION Spec
CONSTANTS
  Instruments <- TwoSymbols
  Targets <- LongShort
  MaxBars = 1
CHECK_DEADLOCK FALSE
INVARIANT ViewFollowsFills
