SPECIFICATION Spec
CONSTANTS
  e1 = e1
  e2 = e2
  e3 = e3
  Execs = {e1, e2, e3}
  ExecQty <- MCExecQty
  Qty = 2
  NoOrder = NoOrder
  NoExec = NoExec
  Orders = {o1}
  Callers = {c1, c2}
  MaxWires = 2
  MaxSubmits = 2
  ConcurrentReuse = TRUE
  LateInactive = FALSE
INVARIANT PlacedOnce
