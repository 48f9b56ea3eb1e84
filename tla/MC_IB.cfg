SPECIFICATION PartsSpec
CONSTANTS
  e1 = e1
  e2 = e2
  e3 = e3
  Execs = {e1, e2, e3}
  ExecQty <- MCExecQty
  Qty = 2
  NoOrder = NoOrder
  NoExec = NoExec
  Orders = {o1}
  Callers = {c1, c2}
  MaxWires = 2
  MaxSubmits = 2
  Sessions = {s1, s2}
  Values <- SessionValues
  Threshold = 2
  MaxEvents = 4
  ConcurrentReuse = FALSE
  LateInactive = TRUE
INVARIANT PlacedOnce
INVARIANT TerminalIsLast
INVARIANT ExecutionsInv
PROPERTY ReasonKept
PROPERTY PunctualRefinesFSM
PROPERTY TerminalReported
INVARIANT SessionInv
