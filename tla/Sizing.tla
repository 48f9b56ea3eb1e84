------------------------------- MODULE Sizing -------------------------------
(***************************************************************************)
(* The Sizer (blive/sizing/sizer.py) and the position arithmetic           *)
(* (blive/domain/positions.py) for one instrument: the order a target      *)
(* weight asks for, and what a fill makes of a position.  Prices are       *)
(* integers, weights and average costs are ratios.                         *)
(***************************************************************************)
EXTENDS Integers, FiniteSetsExt

CONSTANTS SliceNum, SliceDen      \* nav_slice, a ratio

ASSUME SliceAssumption == {SliceNum, SliceDen} \subseteq Nat \ {0}

Never == -1        \* opened_at is None

Ratios == [num : Int, den : Nat \ {0}]

Ratio(n, d) ==
  LET g == Max({k \in 1..d : n % k = 0 /\ d % k = 0})
  IN [num |-> n \div g, den |-> d \div g]

Same(r, s) == r.num * s.den = s.num * r.den
Whole(n) == [num |-> n, den |-> 1]
Plus(r, s) == Ratio(r.num * s.den + s.num * r.den, r.den * s.den)
Times(n, r) == Ratio(n * r.num, r.den)
Over(r, n) == IF n > 0 THEN Ratio(r.num, r.den * n) ELSE Ratio(-r.num, r.den * (-n))

Magnitude(n) == IF n >= 0 THEN n ELSE -n

Sign(n) == IF n > 0 THEN 1 ELSE IF n < 0 THEN -1 ELSE 0

(* Where size_orders raises.                                               *)
Unsizable(equity, weight) == equity <= 0 \/ Magnitude(weight.num) > weight.den

(* In shares, not reduced.                                                 *)
Desired(equity, weight, price) ==
  IF weight.num = 0 THEN Whole(0)
  ELSE [num |-> equity * SliceNum * weight.num, den |-> SliceDen * weight.den * price]

(* mutant: rounded down, not toward zero                                   *)
QuantizeDown(n, d) == n \div d

Quantize(n, d) == IF n >= 0 THEN n \div d ELSE -((-n) \div d)

(* The signed quantity of the order, 0 for none.                           *)
SizeOrder(wanted, held) == Quantize(wanted.num - held * wanted.den, wanted.den)
-----------------------------------------------------------------------------
Positions == [qty : Int, avg : Ratios, opened : Int]

Flat == [qty |-> 0, avg |-> Whole(0), opened |-> Never]

Opened(qty, price, time) == [qty |-> qty, avg |-> Whole(price), opened |-> time]

Averaged(pos, qty, price) ==
  [pos EXCEPT !.qty = @ + qty,
              !.avg = Over(Plus(Times(pos.qty, pos.avg), Whole(qty * price)), pos.qty + qty)]

(* mutant: the average cost of the leg that was closed is kept             *)
FlippedAtCost(pos, qty, price, time) == [pos EXCEPT !.qty = @ + qty, !.opened = time]

Flipped(pos, qty, price, time) == Opened(pos.qty + qty, price, time)

(* mutant: adding to a position moves opened_at                            *)
ApplyFillReopening(pos, qty, price, time) ==
  IF pos.qty = 0 THEN Opened(qty, price, time)
  ELSE IF Sign(pos.qty) = Sign(qty) THEN [Averaged(pos, qty, price) EXCEPT !.opened = time]
  ELSE IF pos.qty + qty = 0 THEN Flat
  ELSE IF Sign(pos.qty) # Sign(pos.qty + qty) THEN Flipped(pos, qty, price, time)
  ELSE [pos EXCEPT !.qty = @ + qty]

(* A fill of qty shares, negative for a sale.                              *)
ApplyFill(pos, qty, price, time) ==
  IF pos.qty = 0 THEN Opened(qty, price, time)
  ELSE IF Sign(pos.qty) = Sign(qty) THEN Averaged(pos, qty, price)
  ELSE IF pos.qty + qty = 0 THEN Flat
  ELSE IF Sign(pos.qty) # Sign(pos.qty + qty) THEN Flipped(pos, qty, price, time)
  ELSE [pos EXCEPT !.qty = @ + qty]
=============================================================================
