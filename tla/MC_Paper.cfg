SPECIFICATION PartsSpec
CONSTANTS
  StartingCash = 30
  SliceNum = 1
  SliceDen = 5
  Commission = 1
  Leverage <- Unlevered
  Signals <- ShortFlatLong
  Prices = {2, 3, 40}
  Gaps = {2}
  FileSets <- Artefacts
  MaxBars = 4
  MaxStaleness = 1
  OutsideRth = FALSE
  HardAge = 4
  WarningAge = 2
  MaxDeviation = 50
  Orders = {o1, o2}
  Quantities = {1, 2}
  MaxSubmits = 2
CHECK_DEADLOCK FALSE
INVARIANT BooksInv
INVARIANT OpenedWithTheLeg
INVARIANT FirstBrokenRule
 
INVARIANT BookInv
PROPERTY MarketOrderSettles
PROPERTY WalksFSM
PROPERTY PaperRunEnds
