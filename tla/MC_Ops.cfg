SPECIFICATION PartsSpec
CONSTANTS
  Tickers <- IBTickers
  Tradables <- IBTickers
  MaxRefreshes = 3
  Cap = 2
  Targets = {0, 1}
  MaxRuns = 2
  MaxPlaced = 5
  MaxFlattens = 2
  SmaWindow = 2
  Closes = {18, 20, 21}
  MaxDays = 4
INVARIANT RefreshIsWhole
INVARIANT SignalsNeverNewer
INVARIANT ExitTellsRun
 
INVARIANT SettledFlattenIsFlat
 
INVARIANT ProbeTellsOrder
INVARIANT SignalsInv
PROPERTY NoLookahead
CHECK_DEADLOCK FALSE
