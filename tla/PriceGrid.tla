----------------------------- MODULE PriceGrid -----------------------------
(***************************************************************************)
(* The prices of an order on their way to the wire: the increments of its  *)
(* contract (ib/price_rules.py), the snapping onto them                    *)
(* (shared/price_grid.py) and what the IB broker makes of an order with a  *)
(* limit or a stop (ib/broker.py, _snap_order_prices, ADR-051).            *)
(*                                                                         *)
(* Prices are whole numbers of the smallest decimal in use.                *)
(***************************************************************************)
EXTENDS Integers, Sequences, FiniteSetsExt, TLC

CONSTANTS
  Rules,        \* market rules, sequences of [low, inc] as the venue sends them
  MinTicks,     \* the minTick of the details; 0 for none
  MaxPrice      \* bound: the dearest price asked for

NoPrice == -1
Sides == {"BUY", "SELL"}
Policies == {"NEAREST", "CONSERVATIVE", "AGGRESSIVE"}
Prices == {NoPrice} \cup 0..MaxPrice

VARIABLES
  rule, minTick,    \* what the venue says of the contract
  policy,           \* _rounding_policy
  order,            \* side, limit_price and stop_price
  asked,            \* history: the order as it was submitted
  fate              \* what submit made of it

gridVars == <<rule, minTick, policy, order, asked, fate>>
-----------------------------------------------------------------------------
(* _fetch_market_rule: unusable rows dropped, sorted by the lower edge; or *)
(* one band of the minTick; or nothing.                                    *)
Usable(row) == row.inc > 0

ByEdge(a, b) == a.low < b.low

Banded(rows) == SortSeq(SelectSeq(rows, Usable), ByEdge)

Increments(rows, tick) ==
  IF Banded(rows) # <<>> THEN Banded(rows)
  ELSE IF tick > 0 THEN <<[low |-> 0, inc |-> tick]>>
  ELSE <<>>

(* mutant: the lowest band governs every price.                            *)
LowestBand(price, table) ==
  table[CHOOSE i \in DOMAIN table : \A j \in DOMAIN table : table[i].low <= table[j].low]

(* The band of the greatest edge at or below the price, else the lowest.   *)
BandFor(price, table) ==
  LET scan[i \in 0..Len(table)] ==
        IF i = 0
        THEN table[CHOOSE k \in DOMAIN table : \A j \in DOMAIN table : table[k].low <= table[j].low]
        ELSE IF scan[i - 1].low <= table[i].low /\ table[i].low <= price
        THEN table[i]
        ELSE scan[i - 1]
  IN  scan[Len(table)]

(* to_integral_value, of the quotient n / d.                               *)
Down(n, d) == n \div d
Up(n, d) == -((-n) \div d)
HalfAwayFromZero(n, d) == IF n >= 0 THEN (2 * n + d) \div (2 * d) ELSE -((d - 2 * n) \div (2 * d))

Steps(n, d, side, pol) ==
  CASE pol = "NEAREST" -> HalfAwayFromZero(n, d)
    [] pol = "CONSERVATIVE" -> IF side = "BUY" THEN Down(n, d) ELSE Up(n, d)
    [] pol = "AGGRESSIVE" -> IF side = "BUY" THEN Up(n, d) ELSE Down(n, d)

(* The last decimal of an increment, and rounding to it, half to even.     *)
Quantum(inc) == Max({q \in {1, 10, 100} : inc % q = 0})

Quantize(v, q) ==
  LET down == v \div q  rest == v % q IN
  q * IF 2 * rest > q \/ (2 * rest = q /\ down % 2 = 1) THEN down + 1 ELSE down

SnapPrice(price, table, side, pol) ==
  LET band == BandFor(price, table) IN
  Quantize(band.low + band.inc * Steps(price - band.low, band.inc, side, pol),
           Quantum(band.inc))

(* _snap_order_prices: each price that is there.                           *)
Snapped(o, table, pol) ==
  [o EXCEPT !.limit = IF @ = NoPrice THEN @ ELSE SnapPrice(@, table, o.side, pol),
            !.stop = IF @ = NoPrice THEN @ ELSE SnapPrice(@, table, o.side, pol)]
-----------------------------------------------------------------------------
GridInit ==
  /\ rule \in Rules /\ minTick \in MinTicks
  /\ policy \in Policies
  /\ order \in [side : Sides, limit : Prices, stop : Prices]
  /\ asked = order
  /\ fate = "submitted"

Decides(f) == fate = "submitted" /\ fate' = f /\ UNCHANGED <<rule, minTick, policy, asked>>

Priced == {order.limit, order.stop} \ {NoPrice}

PlaceUnpriced == Priced = {} /\ Decides("placed") /\ UNCHANGED order

(* PriceRuleUnavailable: submit rejects the order itself.                  *)
RejectUnpriceable ==
  /\ Priced # {} /\ Increments(rule, minTick) = <<>>
  /\ Decides("rejected") /\ UNCHANGED order

(* snap_price raises on a price that is not positive; submit lets it.      *)
NotPositive ==
  /\ 0 \in Priced /\ Increments(rule, minTick) # <<>>
  /\ Decides("raised") /\ UNCHANGED order

PlaceSnapped ==
  /\ Priced # {} /\ 0 \notin Priced /\ Increments(rule, minTick) # <<>>
  /\ order' = Snapped(order, Increments(rule, minTick), policy)
  /\ Decides("placed")

GridNext == PlaceUnpriced \/ RejectUnpriceable \/ NotPositive \/ PlaceSnapped
-----------------------------------------------------------------------------
(* What the venue takes: in every band, up to the next, its edge and whole *)
(* increments from there.                                                  *)
LegalIn(table) ==
  {p \in 0..(2 * MaxPrice) :
     \E i \in DOMAIN table :
       /\ (p - table[i].low) % table[i].inc = 0
       /\ table[i].low <= p
       /\ i = Len(table) \/ p < table[i + 1].low}

(* A venue's bands cover from 0 and meet: an edge is a tick of the band    *)
(* below it, and has no more decimals than its own increment.              *)
Meet(table) ==
  /\ table[1].low = 0
  /\ \A i \in DOMAIN table : table[i].low % Quantum(table[i].inc) = 0
  /\ \A i \in 1..(Len(table) - 1) :
       (table[i + 1].low - table[i].low) % table[i].inc = 0

AtOrBelow(p, legal) == Max({l \in legal : l <= p})
AtOrAbove(p, legal) == Min({l \in legal : l >= p})

(* What the policies promise, of all the legal prices.                     *)
Promised(p, s, pol, legal) ==
  LET below == AtOrBelow(p, legal)  above == AtOrAbove(p, legal) IN
  CASE pol = "NEAREST" -> IF p - below < above - p THEN below ELSE above
    [] pol = "CONSERVATIVE" -> IF s = "BUY" THEN below ELSE above
    [] pol = "AGGRESSIVE" -> IF s = "BUY" THEN above ELSE below

(* Where the bands meet, an order reaches the wire with the legal price    *)
(* its policy promises, whichever side of an edge it is snapped to, and a  *)
(* stop below the limit does not pass it.                                  *)
SnapLegal ==
  LET table == Increments(rule, minTick)  legal == LegalIn(table) IN
  fate = "placed" /\ Priced # {} /\ Meet(table) =>
    /\ asked.limit # NoPrice => order.limit = Promised(asked.limit, asked.side, policy, legal)
    /\ asked.stop # NoPrice => order.stop = Promised(asked.stop, asked.side, policy, legal)
    /\ NoPrice \notin {asked.limit, asked.stop} /\ asked.stop <= asked.limit
         => order.stop <= order.limit
=============================================================================
