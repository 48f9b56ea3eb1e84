----------------------------- MODULE Paper_proofs -----------------------------
(***************************************************************************)
(* Proofs about the paper pipeline, for every tape, slice, leverage and    *)
(* commission: what a rebalance leaves the position at, when a position    *)
(* was opened, that the cash ledger and the average cost explain each      *)
(* other, and that a refusal names the first rule that is broken.  For the *)
(* books a step brings all ratios to a unit in which they are whole        *)
(* numbers, and the books become integer sums.  The last part is about the *)
(* paper broker, for any ids, quantities and number of submits: every      *)
(* submit is paid once, and every open order is watched.                   *)
(***************************************************************************)
EXTENDS PaperPipeline, PaperBroker, SumLemmas, SequenceTheorems, TLAPS

(* Integer division by a positive number.                                  *)
LEMMA Division ==
  ASSUME NEW n \in Nat, NEW d \in Nat \ {0}
  PROVE  n \div d \in Nat /\ (n \div d) * d <= n /\ n < (n \div d) * d + d
  OBVIOUS

(* quantize_share_qty truncates toward zero and loses less than one share. *)
LEMMA QuantizeTruncates ==
  ASSUME NEW n \in Int, NEW d \in Nat \ {0}
  PROVE  /\ Quantize(n, d) \in Int
         /\ n >= 0 => /\ 0 <= Quantize(n, d)
                      /\ Quantize(n, d) * d <= n /\ n < Quantize(n, d) * d + d
         /\ n < 0 => /\ Quantize(n, d) <= 0
                     /\ Quantize(n, d) * d >= n /\ n > Quantize(n, d) * d - d
<1>1. CASE n >= 0
  <2>1. n \in Nat BY <1>1
  <2>2. Quantize(n, d) = n \div d BY <1>1 DEF Quantize
  <2> QED BY <2>1, <2>2, Division, <1>1
<1>2. CASE ~(n >= 0)
  <2>1. -n \in Nat BY <1>2
  <2> DEFINE q == (-n) \div d
  <2>2. q \in Nat /\ q * d <= -n /\ -n < q * d + d BY <2>1, Division
  <2>3. Quantize(n, d) = -q BY <1>2 DEF Quantize
  <2>4. (-q) * d = -(q * d) BY <2>2
  <2> HIDE DEF q
  <2>5. q * d \in Int BY <2>2
  <2> QED BY <2>2, <2>3, <2>4, <2>5, <1>2
<1> QED BY <1>1, <1>2

(* An order of the Sizer takes the position as far towards what was asked  *)
(* for as whole shares go.                                                 *)
LEMMA OrderMovesTowards ==
  ASSUME NEW wanted \in Ratios, NEW held \in Int
  PROVE  /\ SizeOrder(wanted, held) \in Int
         /\ WholeSharesTowards(held, held + SizeOrder(wanted, held), wanted)
<1> DEFINE num == wanted.num  den == wanted.den  n == num - held * den  x == SizeOrder(wanted, held)
<1>1. num \in Int /\ den \in Nat \ {0} BY DEF Ratios
<1>2. held * den \in Int /\ n \in Int BY <1>1
<1>3. x = Quantize(n, den) BY DEF SizeOrder
<1>4. /\ x \in Int
      /\ n >= 0 => 0 <= x /\ x * den <= n /\ n < x * den + den
      /\ n < 0 => x <= 0 /\ x * den >= n /\ n > x * den - den
  BY <1>1, <1>2, <1>3, QuantizeTruncates
<1>5. /\ x * den \in Int
      /\ (held + x) * den = held * den + x * den
      /\ ((held + x) + 1) * den = held * den + x * den + den
      /\ ((held + x) - 1) * den = held * den + x * den - den
  BY <1>1, <1>4
<1>6. WholeSharesTowards(held, held + x, wanted)
      <=> IF held * den <= num
          THEN held <= held + x /\ (held + x) * den <= num /\ num < ((held + x) + 1) * den
          ELSE held >= held + x /\ (held + x) * den >= num /\ num > ((held + x) - 1) * den
  BY DEF WholeSharesTowards
<1> HIDE DEF x
<1>7. ASSUME held * den <= num PROVE WholeSharesTowards(held, held + x, wanted)
  <2>1. n >= 0 BY <1>7, <1>1, <1>2
  <2>2. 0 <= x /\ x * den <= num - held * den /\ num - held * den < x * den + den BY <2>1, <1>4
  <2>3. held <= held + x BY <2>2, <1>4
  <2>4. held * den + x * den <= num /\ num < held * den + x * den + den
    BY <2>2, <1>1, <1>2, <1>5
  <2>5. (held + x) * den <= num /\ num < ((held + x) + 1) * den BY ONLY <2>4, <1>5
  <2> QED BY <2>3, <2>5, <1>6, <1>7
<1>8. ASSUME ~(held * den <= num) PROVE WholeSharesTowards(held, held + x, wanted)
  <2>1. n < 0 BY <1>8, <1>1, <1>2
  <2>2. x <= 0 /\ x * den >= num - held * den /\ num - held * den > x * den - den BY <2>1, <1>4
  <2>3. held >= held + x BY <2>2, <1>4
  <2>4. held * den + x * den >= num /\ num > held * den + x * den - den
    BY <2>2, <1>1, <1>2, <1>5
  <2>5. (held + x) * den >= num /\ num > ((held + x) - 1) * den BY ONLY <2>4, <1>5
  <2> QED BY <2>3, <2>5, <1>6, <1>8
<1> QED BY <1>4, <1>7, <1>8 DEF x
-----------------------------------------------------------------------------
(* The books are numbers, and the order in the drain is the one the last   *)
(* rebalance asked for: nothing moved the position in between.             *)
BooksOK ==
  /\ pc \in {"bar", "drain", "done", "raised"}
  /\ close \in Prices /\ cash \in Int /\ order \in Int /\ desired \in Ratios
  /\ position = [qty |-> position.qty, avg |-> position.avg, opened |-> position.opened]
  /\ position.qty \in Int
  /\ result \in [fills : Nat, breaches : Nat, points : Nat, equity : Int]

InDrain ==
  pc = "drain" => order # 0 /\ order = SizeOrder(desired, position.qty)

PInv == BooksOK /\ InDrain /\ OpenedWithTheLeg

(* What the Sizer asks for is a ratio.                                     *)
LEMMA DesiredType ==
  ASSUME NEW money \in Int, NEW price \in Prices, NEW signal \in Signals
  PROVE  Desired(money, Weight(signal), price) \in Ratios
<1>1. /\ price \in Nat \ {0} /\ signal \in Int /\ Leverage \in Ratios
      /\ SliceNum \in Nat \ {0} /\ SliceDen \in Nat \ {0}
  BY TapeAssumption, SliceAssumption
<1>2. /\ Weight(signal).num = signal * Leverage.num /\ Weight(signal).den = Leverage.den
      /\ Leverage.num \in Int /\ Leverage.den \in Nat \ {0}
  BY <1>1 DEF Weight, Ratios
<1>3. Whole(0) \in Ratios BY DEF Whole, Ratios
<1>4. money * SliceNum * Weight(signal).num \in Int BY <1>1, <1>2
<1>5. SliceDen * Weight(signal).den \in Nat \ {0} BY <1>1, <1>2
<1>6. SliceDen * Weight(signal).den * price \in Nat \ {0} BY <1>1, <1>5
<1> QED BY <1>3, <1>4, <1>6 DEF Desired, Ratios

(* apply_fill adds the shares, and moves opened_at exactly when the        *)
(* position changes sign.                                                  *)
LEMMA FillOpens ==
  ASSUME NEW pos, pos = [qty |-> pos.qty, avg |-> pos.avg, opened |-> pos.opened],
         pos.qty \in Int, NEW qty \in Int \ {0}, NEW price, NEW time
  PROVE  LET new == ApplyFill(pos, qty, price, time) IN
         /\ new = [qty |-> new.qty, avg |-> new.avg, opened |-> new.opened]
         /\ new.qty = pos.qty + qty
         /\ new.opened = IF Sign(pos.qty + qty) = Sign(pos.qty) THEN pos.opened
                         ELSE IF pos.qty + qty = 0 THEN Never ELSE time
<1> DEFINE new == ApplyFill(pos, qty, price, time)
<1>1. CASE pos.qty = 0
  <2>1. new = Opened(qty, price, time) BY <1>1 DEF ApplyFill
  <2> QED BY <1>1, <2>1 DEF Opened, Sign
<1>2. CASE pos.qty # 0 /\ Sign(pos.qty) = Sign(qty)
  <2>1. new = Averaged(pos, qty, price) BY <1>2 DEF ApplyFill
  <2>2. Sign(pos.qty + qty) = Sign(pos.qty) BY <1>2 DEF Sign
  <2> QED BY <2>1, <2>2 DEF Averaged
<1>3. CASE pos.qty # 0 /\ Sign(pos.qty) # Sign(qty) /\ pos.qty + qty = 0
  <2>1. new = Flat BY <1>3 DEF ApplyFill
  <2>2. Sign(pos.qty + qty) # Sign(pos.qty) BY <1>3 DEF Sign
  <2> QED BY <1>3, <2>1, <2>2 DEF Flat
<1>4. CASE /\ pos.qty # 0 /\ Sign(pos.qty) # Sign(qty) /\ pos.qty + qty # 0
           /\ Sign(pos.qty) # Sign(pos.qty + qty)
  <2>1. new = Flipped(pos, qty, price, time) BY <1>4 DEF ApplyFill
  <2> QED BY <1>4, <2>1 DEF Flipped, Opened
<1>5. CASE /\ pos.qty # 0 /\ Sign(pos.qty) # Sign(qty) /\ pos.qty + qty # 0
           /\ Sign(pos.qty) = Sign(pos.qty + qty)
  <2>1. new = [pos EXCEPT !.qty = @ + qty] BY <1>5 DEF ApplyFill
  <2> QED BY <1>5, <2>1
<1> QED BY <1>1, <1>2, <1>3, <1>4, <1>5

(* An order that is not approved leaves a breach.                          *)
LEMMA RefusalCounts ==
  ASSUME NEW inp PROVE Len(Breaches(inp)) \in Nat /\ (~Approved(inp) => Len(Breaches(inp)) >= 1)
<1> DEFINE B == {Block("RC-13"), Block("RC-08"), Block("RC-09"), Block("RC-12"),
                 Block("RC-10"), Warn("RC-12")}
<1>1. /\ Block("RC-13") \in B /\ Block("RC-08") \in B /\ Block("RC-09") \in B
      /\ Block("RC-12") \in B /\ Block("RC-10") \in B /\ Warn("RC-12") \in B
  OBVIOUS
<1>2. Breaches(inp) \in Seq(B)
  <2> HIDE DEF B
  <2> QED BY <1>1 DEF Breaches
<1> HIDE DEF B
<1>3. Len(Breaches(inp)) \in Nat /\ DOMAIN Breaches(inp) = 1..Len(Breaches(inp)) BY <1>2
<1>4. ~Approved(inp) => \E i \in DOMAIN Breaches(inp) : TRUE BY DEF Approved
<1> QED BY <1>3, <1>4
-----------------------------------------------------------------------------
LEMMA InitInv == Init => PInv
BY TapeAssumption DEF Init, PInv, BooksOK, InDrain, OpenedWithTheLeg, Flat, Whole, Never, Ratios

(* A rebalance types desired and touches neither the position nor cash.    *)
LEMMA RebalanceTypes ==
  ASSUME PInv, NEW gap \in Gaps, NEW price \in Prices, NEW signal \in Signals,
         Rebalances(gap, price, signal)
  PROVE  desired' \in Ratios /\ close' \in Prices /\ SizeOrder(desired', position.qty) \in Int
<1>1. cash \in Int /\ position.qty \in Int /\ price \in Int
  BY TapeAssumption DEF PInv, BooksOK
<1>2. Equity(cash, position, price) \in Int BY <1>1 DEF Equity
<1>3. desired' \in Ratios BY <1>2, DesiredType DEF Rebalances
<1> QED BY <1>1, <1>3, OrderMovesTowards DEF Rebalances, Advance

(* A row of the curve keeps result a record of numbers.                    *)
LEMMA MarkedType ==
  ASSUME NEW res \in [fills : Nat, breaches : Nat, points : Nat, equity : Int],
         NEW money \in Int, NEW price \in Prices, NEW pos, pos.qty \in Int
  PROVE  /\ Marked(res, money, pos, price)
              \in [fills : Nat, breaches : Nat, points : Nat, equity : Int]
         /\ Marked(res, money, pos, price).fills = res.fills
         /\ Marked(res, money, pos, price).breaches = res.breaches
         /\ Marked(res, money, pos, price).points = res.points + 1
<1>1. price \in Int BY TapeAssumption
<1>2. Equity(money, pos, price) \in Int BY <1>1 DEF Equity
<1>3. res.fills \in Nat /\ res.breaches \in Nat /\ res.points + 1 \in Nat OBVIOUS
<1> QED BY <1>2, <1>3 DEF Marked

(* What a fill does to the books: BooksOK again, and the position moves by *)
(* the order.                                                              *)
LEMMA DrainedBooks ==
  ASSUME PInv, Drained
  PROVE  PInv' /\ position'.qty = position.qty + order
<1>1. /\ order \in Int \ {0} /\ close \in Int /\ Commission \in Nat /\ cash \in Int
      /\ position.qty \in Int /\ close \in Prices
  BY TapeAssumption DEF PInv, BooksOK, InDrain, Drained
<1>2. /\ position' = [qty |-> position'.qty, avg |-> position'.avg, opened |-> position'.opened]
      /\ position'.qty = position.qty + order
      /\ position'.opened = IF Sign(position.qty + order) = Sign(position.qty) THEN position.opened
                            ELSE IF position.qty + order = 0 THEN Never ELSE clock
  <2> DEFINE new == ApplyFill(position, order, close, clock)
  <2>1. position' = new BY DEF Drained
  <2>2. position = [qty |-> position.qty, avg |-> position.avg, opened |-> position.opened]
    BY DEF PInv, BooksOK
  <2> HIDE DEF new
  <2>3. /\ new = [qty |-> new.qty, avg |-> new.avg, opened |-> new.opened]
        /\ new.qty = position.qty + order
        /\ new.opened = IF Sign(position.qty + order) = Sign(position.qty) THEN position.opened
                        ELSE IF position.qty + order = 0 THEN Never ELSE clock
    BY <1>1, <2>2, FillOpens DEF new
  <2> QED BY <2>1, <2>3
<1>3. position'.qty \in Int BY <1>1, <1>2
<1>4. Magnitude(order) \in Int BY <1>1 DEF Magnitude
<1>5. cash' \in Int BY <1>1, <1>4 DEF Drained, Paid
<1>6. result' \in [fills : Nat, breaches : Nat, points : Nat, equity : Int]
  <2> DEFINE m == Marked(result, cash', position', close)
  <2>1. result \in [fills : Nat, breaches : Nat, points : Nat, equity : Int]
    BY DEF PInv, BooksOK
  <2>2. m \in [fills : Nat, breaches : Nat, points : Nat, equity : Int]
    BY <1>1, <1>3, <1>5, <2>1, MarkedType
  <2>3. result' = [m EXCEPT !.fills = @ + 1] BY DEF Drained
  <2> QED BY <2>2, <2>3
<1>7. position'.opened = heldSince'
  BY <1>2 DEF Drained, PInv, OpenedWithTheLeg
<1> QED BY <1>1, <1>2, <1>3, <1>5, <1>6, <1>7
        DEF PInv, BooksOK, InDrain, OpenedWithTheLeg, Drained
(* A settling step rebalances to what was asked for.                       *)
Rebalanced == Settles => WholeSharesTowards(position.qty, position'.qty, desired')

LEMMA StepInv == ASSUME PInv, [Next]_vars PROVE PInv' /\ Rebalanced
<1> USE DEF PInv, BooksOK, InDrain, OpenedWithTheLeg
<1>1. CASE Drained
  <2>1. PInv' /\ position'.qty = position.qty + order BY <1>1, DrainedBooks
  <2>2. order = SizeOrder(desired, position.qty) /\ desired' = desired BY <1>1 DEF Drained
  <2>3. WholeSharesTowards(position.qty, position.qty + SizeOrder(desired, position.qty), desired)
    BY OrderMovesTowards
  <2> QED BY <2>1, <2>2, <2>3 DEF Rebalanced
<1>2. ASSUME NEW gap \in Gaps, NEW price \in Prices, SkipBar(gap, price)
      PROVE  PInv' /\ Rebalanced
  BY <1>2 DEF SkipBar, Advance, Rebalanced, Settles
<1>3. ASSUME NEW gap \in Gaps, NEW price \in Prices, NEW signal \in Signals,
             SizerRaises(gap, price, signal)
      PROVE  PInv' /\ Rebalanced
  BY <1>3 DEF SizerRaises, Advance, Rebalanced, Settles
<1>4. ASSUME NEW gap \in Gaps, NEW price \in Prices, NEW signal \in Signals,
             NoOrder(gap, price, signal)
      PROVE  PInv' /\ Rebalanced
  <2>1. desired' \in Ratios /\ close' \in Prices
    BY <1>4, RebalanceTypes DEF NoOrder
  <2>2. result' \in [fills : Nat, breaches : Nat, points : Nat, equity : Int]
    BY <1>4, MarkedType DEF NoOrder
  <2>3. PInv' BY <1>4, <2>1, <2>2 DEF NoOrder, Rebalances, Advance
  <2>4. WholeSharesTowards(position.qty, position.qty + 0, desired')
    BY <1>4, <2>1, OrderMovesTowards DEF NoOrder
  <2>5. position'.qty = position.qty + 0 BY <1>4 DEF NoOrder
  <2> QED BY <2>3, <2>4, <2>5 DEF Rebalanced
<1>5. ASSUME NEW gap \in Gaps, NEW price \in Prices, NEW signal \in Signals,
             NEW files \in FileSets, OrderRefused(gap, price, signal, files)
      PROVE  PInv' /\ Rebalanced
  <2> DEFINE inp == Inputs(clock + gap, files)
             m == Marked(result, cash, position, price)
  <2>1. desired' \in Ratios /\ close' \in Prices
    BY <1>5, RebalanceTypes DEF OrderRefused
  <2>2. /\ m \in [fills : Nat, breaches : Nat, points : Nat, equity : Int]
        /\ m.breaches = result.breaches
    BY MarkedType
  <2>3. Len(Breaches(inp)) \in Nat /\ Len(Breaches(inp)) >= 1
    BY <1>5, RefusalCounts DEF OrderRefused
  <2>4. result' = [m EXCEPT !.breaches = @ + Len(Breaches(inp))] BY <1>5 DEF OrderRefused
  <2> HIDE DEF inp, m
  <2>5. /\ result' \in [fills : Nat, breaches : Nat, points : Nat, equity : Int]
        /\ result'.breaches > result.breaches
    BY <2>2, <2>3, <2>4
  <2>6. pc = "bar" BY <1>5 DEF OrderRefused, Rebalances, Advance
  <2>7. ~Settles BY <2>5, <2>6 DEF Settles
  <2>8. PInv' BY <1>5, <2>1, <2>5 DEF OrderRefused, Rebalances, Advance
  <2> QED BY <2>7, <2>8 DEF Rebalanced
<1>6. ASSUME NEW gap \in Gaps, NEW price \in Prices, NEW signal \in Signals,
             NEW files \in FileSets, OrderPlaced(gap, price, signal, files)
      PROVE  PInv' /\ Rebalanced
  <2> DEFINE inp == Inputs(clock + gap, files)
  <2>1. /\ desired' \in Ratios /\ close' \in Prices
        /\ SizeOrder(desired', position.qty) \in Int
    BY <1>6, RebalanceTypes DEF OrderPlaced
  <2>2. Len(Breaches(inp)) \in Nat BY RefusalCounts
  <2>3. result' = [result EXCEPT !.breaches = @ + Len(Breaches(inp))] BY <1>6 DEF OrderPlaced
  <2> HIDE DEF inp
  <2>4. result' \in [fills : Nat, breaches : Nat, points : Nat, equity : Int] BY <2>2, <2>3
  <2>5. ~Settles BY <1>6 DEF OrderPlaced, Settles
  <2>6. PInv' BY <1>6, <2>1, <2>4 DEF OrderPlaced, Rebalances, Advance
  <2> QED BY <2>5, <2>6 DEF Rebalanced
<1>7. CASE Finish BY <1>7 DEF Finish, Rebalanced, Settles
<1>8. CASE Arm BY <1>8 DEF Arm, Rebalanced, Settles
<1>9. CASE Clear BY <1>9 DEF Clear, Rebalanced, Settles
<1>10. CASE UNCHANGED vars BY <1>10 DEF vars, Rebalanced, Settles
<1> HIDE DEF PInv
<1> QED BY <1>1, <1>2, <1>3, <1>4, <1>5, <1>6, <1>7, <1>8, <1>9, <1>10 DEF Next, Driver

LEMMA BooksKept == Spec => []PInv
<1>1. PInv /\ [Next]_vars => PInv' BY StepInv
<1> QED BY <1>1, InitInv, PTL DEF Spec

(* opened_at is always the bar at which the present leg began.             *)
THEOREM OpeningTimeKept == Spec => []OpenedWithTheLeg
<1>1. PInv => OpenedWithTheLeg BY DEF PInv
<1> QED BY <1>1, BooksKept, PTL

(* Every bar that is not refused leaves the position as near to what the   *)
(* weight asks for as whole shares allow, seen from where it was.          *)
THEOREM RebalancesWholly == Spec => NoShareLeft
<1>1. PInv /\ [Next]_vars => [Rebalanced]_vars BY StepInv
<1>2. [Rebalanced]_vars <=> [Settles => WholeSharesTowards(position.qty, position'.qty, desired')]_vars
  BY DEF Rebalanced
<1> QED BY <1>1, <1>2, BooksKept, PTL DEF Spec, NoShareLeft
-----------------------------------------------------------------------------
(* Ratios.  Scaled(r, v, m): the ratio r is v in units of 1/m.             *)
Scaled(r, v, m) == v * r.den = r.num * m

(* Products of whole numbers.                                              *)
LEMMA CancelFactor == ASSUME NEW m \in Nat \ {0}, NEW x \in Int, NEW y \in Int, x * m = y * m PROVE x = y
<1>1. ASSUME NEW u \in Int, NEW v \in Int, u < v PROVE u * m < v * m
  <2>1. PICK k \in Nat : v = u + 1 + k
    <3>1. v - u - 1 \in Nat /\ v = u + 1 + (v - u - 1) BY <1>1
    <3> QED BY <3>1
  <2>2. k * m \in Nat OBVIOUS
  <2>3. v * m = u * m + m + k * m BY <2>1
  <2>4. u * m \in Int OBVIOUS
  <2> QED BY <2>2, <2>3, <2>4
<1>2. ~(x < y) BY <1>1
<1>3. ~(y < x) BY <1>1
<1> QED BY <1>2, <1>3

LEMMA Products ==
  ASSUME NEW a \in Int, NEW b \in Int, NEW c \in Int
  PROVE  /\ a * b \in Int /\ a * b = b * a /\ (a * b) * c = a * (b * c)
         /\ (a + b) * c = a * c + b * c /\ (a - b) * c = a * c - b * c
         /\ a * (b + c) = a * b + a * c /\ (-a) * b = -(a * b)
  OBVIOUS

LEMMA PositiveProduct ==
  ASSUME NEW a \in Nat \ {0}, NEW b \in Nat \ {0} PROVE a * b \in Nat \ {0}
  OBVIOUS

(* Reducing a fraction keeps its value.                                    *)
LEMMA LargestOf ==
  ASSUME NEW d \in Nat, NEW S, S \subseteq 1..d, S # {}
  PROVE  Max(S) \in S
<1> DEFINE T == {n \in Nat : \E x \in S : n = d - x}
<1>1. T # {}
  <2>1. PICK x \in S : TRUE OBVIOUS
  <2>2. d - x \in Nat BY <2>1
  <2> QED BY <2>2
<1>2. PICK n \in T : \A y \in T : n <= y BY <1>1, SmallestOf
<1>3. PICK x \in S : n = d - x BY <1>2
<1>4. \A y \in S : x >= y
  <2> TAKE y \in S
  <2>1. d - y \in T OBVIOUS
  <2> QED BY <1>2, <1>3, <2>1
<1> QED BY <1>3, <1>4 DEF Max

LEMMA Exact ==
  ASSUME NEW n \in Int, NEW g \in Nat \ {0}, n % g = 0
  PROVE  n \div g \in Int /\ n = (n \div g) * g
  OBVIOUS

LEMMA Reduced ==
  ASSUME NEW n \in Int, NEW d \in Nat \ {0}
  PROVE  Ratio(n, d) \in Ratios /\ \E g \in Nat \ {0} : n = Ratio(n, d).num * g /\ d = Ratio(n, d).den * g
<1> DEFINE S == {k \in 1..d : n % k = 0 /\ d % k = 0}
           g == Max(S)
<1>1. 1 \in S OBVIOUS
<1>2. g \in S
  <2> HIDE DEF S
  <2>1. S \subseteq 1..d BY DEF S
  <2> QED BY <1>1, <2>1, LargestOf
<1>3. Ratio(n, d) = [num |-> n \div g, den |-> d \div g] BY DEF Ratio
<1> HIDE DEF g
<1>4. g \in Nat \ {0} /\ n % g = 0 /\ d % g = 0 BY <1>2
<1>5. n \div g \in Int /\ n = (n \div g) * g BY <1>4, Exact
<1>6. d \div g \in Int /\ d = (d \div g) * g BY <1>4, Exact
<1>7. d \div g > 0
  <2> DEFINE e == d \div g
  <2>1. e \in Int /\ d = e * g /\ d > 0 BY <1>6
  <2> HIDE DEF e
  <2>2. e <= 0 => e * g <= 0 BY <1>4, <2>1
  <2>3. e > 0 BY <2>1, <2>2, <1>4
  <2> QED BY <2>3 DEF e
<1> QED BY <1>3, <1>4, <1>5, <1>6, <1>7 DEF Ratios

LEMMA RatioScaled ==
  ASSUME NEW n \in Int, NEW d \in Nat \ {0}, NEW v \in Int, NEW m \in Int, v * d = n * m
  PROVE  Ratio(n, d) \in Ratios /\ Scaled(Ratio(n, d), v, m)
<1>1. PICK r : r = Ratio(n, d) OBVIOUS
<1>2. r \in Ratios /\ r.num \in Int /\ r.den \in Nat \ {0} BY <1>1, Reduced DEF Ratios
<1>3. PICK g \in Nat \ {0} : n = r.num * g /\ d = r.den * g BY <1>1, Reduced
<1>4. (v * r.den) * g = (r.num * m) * g
  <2>1. (v * r.den) * g = v * d BY <1>2, <1>3, Products
  <2>2. (r.num * m) * g = n * m
    <3>1. (r.num * m) * g = (m * r.num) * g BY <1>2
    <3>2. (m * r.num) * g = m * (r.num * g) BY <1>2, Products
    <3> QED BY <1>3, <3>1, <3>2
  <2> QED BY <2>1, <2>2
<1>5. v * r.den \in Int /\ r.num * m \in Int BY <1>2
<1>6. v * r.den = r.num * m BY <1>4, <1>5, CancelFactor
<1> QED BY <1>1, <1>2, <1>6 DEF Scaled

LEMMA Shuffle ==
  ASSUME NEW a \in Int, NEW b \in Int, NEW c \in Int
  PROVE  (a * b) * c = (a * c) * b /\ a * (b * c) = (a * b) * c /\ a * (b * c) = b * (a * c)
  OBVIOUS

LEMMA WholeScaled ==
  ASSUME NEW n \in Int, NEW m \in Int
  PROVE  Whole(n) \in Ratios /\ n * m \in Int /\ Scaled(Whole(n), n * m, m)
<1>1. n * m \in Int /\ (n * m) * 1 = n * m OBVIOUS
<1> QED BY <1>1 DEF Whole, Ratios, Scaled

LEMMA PlusScaled ==
  ASSUME NEW r \in Ratios, NEW s \in Ratios, NEW m \in Int, NEW v \in Int, NEW w \in Int,
         Scaled(r, v, m), Scaled(s, w, m)
  PROVE  Plus(r, s) \in Ratios /\ v + w \in Int /\ Scaled(Plus(r, s), v + w, m)
<1>1. PICK a, b, c, d : a = r.num /\ b = r.den /\ c = s.num /\ d = s.den OBVIOUS
<1>2. a \in Int /\ b \in Nat \ {0} /\ c \in Int /\ d \in Nat \ {0} BY <1>1 DEF Ratios
<1>3. v * b = a * m /\ w * d = c * m BY <1>1 DEF Scaled
<1>4. b * d \in Nat \ {0} /\ a * d \in Int /\ c * b \in Int BY <1>2, PositiveProduct
<1>5. v * (b * d) = (a * d) * m
  <2>1. v * (b * d) = (v * b) * d BY <1>2, Shuffle
  <2>2. (a * m) * d = (a * d) * m BY <1>2, Shuffle
  <2> QED BY <1>3, <2>1, <2>2
<1>6. w * (b * d) = (c * b) * m
  <2>1. w * (b * d) = b * (w * d) BY <1>2, Shuffle
  <2>2. b * (c * m) = c * (b * m) BY <1>2, Shuffle
  <2>3. c * (b * m) = (c * b) * m BY <1>2, Shuffle
  <2> QED BY <1>3, <2>1, <2>2, <2>3
<1>7. (v + w) * (b * d) = v * (b * d) + w * (b * d) BY <1>4, Products
<1>8. (a * d + c * b) * m = (a * d) * m + (c * b) * m BY <1>4, Products
<1>9. a * d + c * b \in Int BY <1>4
<1>10. (v + w) * (b * d) = (a * d + c * b) * m BY <1>5, <1>6, <1>7, <1>8
<1>11. Plus(r, s) = Ratio(a * d + c * b, b * d) BY <1>1 DEF Plus
<1>12. PICK x, y : x = a * d + c * b /\ y = b * d OBVIOUS
<1>13. x \in Int /\ y \in Nat \ {0} BY <1>4, <1>9, <1>12
<1>14. v + w \in Int /\ (v + w) * y = x * m BY <1>10, <1>12
<1>15. Plus(r, s) = Ratio(x, y) BY <1>11, <1>12
<1> QED BY <1>13, <1>14, <1>15, RatioScaled

LEMMA TimesScaled ==
  ASSUME NEW n \in Int, NEW r \in Ratios, NEW m \in Int, NEW v \in Int, Scaled(r, v, m)
  PROVE  Times(n, r) \in Ratios /\ n * v \in Int /\ Scaled(Times(n, r), n * v, m)
<1>1. PICK a, b : a = r.num /\ b = r.den OBVIOUS
<1>2. a \in Int /\ b \in Nat \ {0} /\ n * a \in Int /\ n * v \in Int BY <1>1 DEF Ratios
<1>3. v * b = a * m BY <1>1 DEF Scaled
<1>4. (n * v) * b = (n * a) * m
  <2>1. (n * v) * b = n * (v * b) BY <1>2, Shuffle
  <2>2. n * (a * m) = (n * a) * m BY <1>2, Shuffle
  <2> QED BY <1>3, <2>1, <2>2
<1>5. Times(n, r) = Ratio(n * a, b) BY <1>1 DEF Times
<1>6. PICK x, u : x = n * a /\ u = n * v OBVIOUS
<1>7. x \in Int /\ u \in Int /\ u * b = x * m BY <1>2, <1>4, <1>6
<1>8. Times(n, r) = Ratio(x, b) BY <1>5, <1>6
<1>9. Times(n, r) \in Ratios /\ Scaled(Times(n, r), u, m) BY <1>2, <1>7, <1>8, RatioScaled
<1> QED BY <1>6, <1>7, <1>9

LEMMA OverScaled ==
  ASSUME NEW n \in Int \ {0}, NEW r \in Ratios, NEW m \in Int, NEW w \in Int, Scaled(r, n * w, m)
  PROVE  Over(r, n) \in Ratios /\ Scaled(Over(r, n), w, m)
<1>1. PICK a, b : a = r.num /\ b = r.den OBVIOUS
<1>2. a \in Int /\ b \in Nat \ {0} BY <1>1 DEF Ratios
<1>3. (n * w) * b = a * m BY <1>1 DEF Scaled
<1>4. w * (b * n) = a * m
  <2>1. w * (b * n) = (w * b) * n BY <1>2, Shuffle
  <2>2. (w * b) * n = (w * n) * b BY <1>2, Shuffle
  <2>3. w * n = n * w BY Products
  <2> QED BY <1>3, <2>1, <2>2, <2>3
<1>5. CASE n > 0
  <2>1. b * n \in Nat \ {0} BY <1>2, <1>5, PositiveProduct
  <2>2. Over(r, n) = Ratio(a, b * n) BY <1>1, <1>5 DEF Over
  <2>3. PICK y : y = b * n OBVIOUS
  <2>4. y \in Nat \ {0} /\ w * y = a * m /\ Over(r, n) = Ratio(a, y) BY <1>4, <2>1, <2>2, <2>3
  <2> QED BY <1>2, <2>4, RatioScaled
<1>6. CASE n < 0
  <2>1. -n \in Nat \ {0} /\ -a \in Int BY <1>2, <1>6
  <2>2. b * (-n) \in Nat \ {0} BY <1>2, <2>1, PositiveProduct
  <2>3. w * (b * (-n)) = (-a) * m
    <3>1. b * (-n) = -(b * n) /\ b * n \in Int BY <1>2
    <3>2. w * (-(b * n)) = -(w * (b * n)) BY <3>1
    <3>3. (-a) * m = -(a * m) BY <1>2, Products
    <3> QED BY <1>4, <3>1, <3>2, <3>3
  <2>4. Over(r, n) = Ratio(-a, b * (-n)) BY <1>1, <1>6 DEF Over
  <2>5. PICK x, y : x = -a /\ y = b * (-n) OBVIOUS
  <2>6. x \in Int /\ y \in Nat \ {0} /\ w * y = x * m /\ Over(r, n) = Ratio(x, y)
    BY <2>1, <2>2, <2>3, <2>4, <2>5
  <2> QED BY <2>6, RatioScaled
<1> QED BY <1>5, <1>6

LEMMA SameScaled ==
  ASSUME NEW r \in Ratios, NEW s \in Ratios, NEW m \in Nat \ {0}, NEW v \in Int, NEW w \in Int,
         Scaled(r, v, m), Scaled(s, w, m)
  PROVE  Same(r, s) <=> v = w
<1>1. PICK a, b, c, d : a = r.num /\ b = r.den /\ c = s.num /\ d = s.den OBVIOUS
<1>2. a \in Int /\ b \in Nat \ {0} /\ c \in Int /\ d \in Nat \ {0} BY <1>1 DEF Ratios
<1>3. v * b = a * m /\ w * d = c * m BY <1>1 DEF Scaled
<1>4. (a * d) * m = v * (b * d)
  <2>1. v * (b * d) = (v * b) * d BY <1>2, Shuffle
  <2>2. (a * m) * d = (a * d) * m BY <1>2, Shuffle
  <2> QED BY <1>3, <2>1, <2>2
<1>5. (c * b) * m = w * (b * d)
  <2>1. w * (b * d) = b * (w * d) BY <1>2, Shuffle
  <2>2. b * (c * m) = c * (b * m) BY <1>2, Shuffle
  <2>3. c * (b * m) = (c * b) * m BY <1>2, Shuffle
  <2> QED BY <1>3, <2>1, <2>2, <2>3
<1>6. a * d \in Int /\ c * b \in Int /\ b * d \in Nat \ {0} BY <1>2, PositiveProduct
<1>7. ASSUME a * d = c * b PROVE v = w
  <2>1. v * (b * d) = w * (b * d) BY <1>4, <1>5, <1>7
  <2> QED BY <1>6, <2>1, CancelFactor
<1>8. ASSUME v = w PROVE a * d = c * b
  <2>1. (a * d) * m = (c * b) * m BY <1>4, <1>5, <1>8
  <2> QED BY <1>6, <2>1, CancelFactor
<1> QED BY <1>1, <1>7, <1>8 DEF Same

(* Two ratios are whole numbers in some unit; and so is the quotient of    *)
(* anything in that unit by a whole number n.                              *)
InUnit(r, s, n, m) ==
  \E v, w, k \in Int : Scaled(r, n * v, m) /\ Scaled(s, n * w, m) /\ m = n * k

LEMMA CommonUnit ==
  ASSUME NEW r \in Ratios, NEW s \in Ratios, NEW n \in Int \ {0}
  PROVE  \E m \in Nat \ {0} : InUnit(r, s, n, m)
<1>1. PICK a, b, c, d : a = r.num /\ b = r.den /\ c = s.num /\ d = s.den OBVIOUS
<1>2. a \in Int /\ b \in Nat \ {0} /\ c \in Int /\ d \in Nat \ {0} BY <1>1 DEF Ratios
<1>3. PICK i \in {1, -1} : n * i \in Nat \ {0}
  <2>1. CASE n > 0 BY <2>1
  <2>2. CASE n < 0
    <3>1. n * (-1) = -n BY <2>2
    <3> QED BY <2>2, <3>1
  <2> QED BY <2>1, <2>2
<1> DEFINE k == i * (b * d)
           m == n * k
           v == i * (a * d)
           w == i * (c * b)
<1>4. b * d \in Nat \ {0} /\ a * d \in Int /\ c * b \in Int BY <1>2, PositiveProduct
<1>5. k \in Int /\ v \in Int /\ w \in Int BY <1>4
<1>6. m \in Nat \ {0}
  <2>1. m = (n * i) * (b * d) BY <1>4, Shuffle
  <2> QED BY <1>3, <1>4, <2>1, PositiveProduct
<1>7. (n * v) * b = a * m
  <2>1. v * b = a * k
    <3>1. v * b = (i * b) * (a * d) BY <1>2, <1>4, Shuffle
    <3>2. (i * b) * (a * d) = a * ((i * b) * d) BY <1>2, Shuffle
    <3>3. (i * b) * d = k BY <1>2, Shuffle
    <3> QED BY <3>1, <3>2, <3>3
  <2>2. (n * v) * b = n * (v * b) BY <1>2, <1>5, Shuffle
  <2>3. n * (a * k) = a * (n * k) BY <1>2, <1>5, Shuffle
  <2> QED BY <2>1, <2>2, <2>3
<1>8. (n * w) * d = c * m
  <2>1. w * d = c * k
    <3>1. w * d = (i * d) * (c * b) BY <1>2, <1>4, Shuffle
    <3>2. (i * d) * (c * b) = c * ((i * d) * b) BY <1>2, Shuffle
    <3>3. (i * d) * b = (i * b) * d BY <1>2, Shuffle
    <3>4. (i * b) * d = k BY <1>2, Shuffle
    <3> QED BY <3>1, <3>2, <3>3, <3>4
  <2>2. (n * w) * d = n * (w * d) BY <1>2, <1>5, Shuffle
  <2>3. n * (c * k) = c * (n * k) BY <1>2, <1>5, Shuffle
  <2> QED BY <2>1, <2>2, <2>3
<1> HIDE DEF k, m, v, w
<1>9. Scaled(r, n * v, m) /\ Scaled(s, n * w, m) BY <1>1, <1>7, <1>8 DEF Scaled
<1>10. m = n * k BY DEF m
<1>11. InUnit(r, s, n, m) BY <1>5, <1>9, <1>10 DEF InUnit
<1> QED BY <1>6, <1>11

-----------------------------------------------------------------------------
(* The two books in one unit.                                              *)
LEMMA Smaller ==
  ASSUME NEW a \in Int, NEW b \in Int PROVE Min({a, b}) = IF a <= b THEN a ELSE b
<1>1. \E x \in {a, b} : \A y \in {a, b} : x <= y
  <2>1. CASE a <= b BY <2>1
  <2>2. CASE ~(a <= b) BY <2>2
  <2> QED BY <2>1, <2>2
<1>2. Min({a, b}) \in {a, b} /\ \A y \in {a, b} : Min({a, b}) <= y BY <1>1 DEF Min
<1> QED BY <1>2

(* How many shares a fill closes.                                          *)
LEMMA ClosedShares ==
  ASSUME NEW pos, pos.qty \in Int, NEW x \in Int \ {0}
  PROVE  /\ ClosedBy(pos, x) \in Int
         /\ pos.qty = 0 \/ Sign(pos.qty) = Sign(x) => ClosedBy(pos, x) = 0
         /\ pos.qty # 0 /\ Sign(pos.qty) # Sign(x) =>
              ClosedBy(pos, x) = IF Sign(pos.qty) = Sign(pos.qty + x) THEN -x ELSE pos.qty
<1>1. PICK q : q = pos.qty OBVIOUS
<1>2. /\ q \in Int /\ Magnitude(q) \in Nat /\ Magnitude(x) \in Nat
      /\ Magnitude(q) = IF q >= 0 THEN q ELSE -q
      /\ Magnitude(x) = IF x >= 0 THEN x ELSE -x
  BY <1>1 DEF Magnitude
<1>3. Min({Magnitude(q), Magnitude(x)}) =
        IF Magnitude(q) <= Magnitude(x) THEN Magnitude(q) ELSE Magnitude(x)
  BY <1>2, Smaller
<1>4. PICK s : s = Min({Magnitude(q), Magnitude(x)}) OBVIOUS
<1>5. ClosedBy(pos, x) = IF Sign(q) # -Sign(x) THEN 0 ELSE Sign(q) * s
  BY <1>1, <1>4 DEF ClosedBy
<1>6. CASE q = 0 \/ Sign(q) = Sign(x)
  <2>1. Sign(q) # -Sign(x) BY <1>2, <1>6 DEF Sign
  <2> QED BY <1>1, <1>5, <1>6, <2>1
<1>7. CASE q # 0 /\ Sign(q) # Sign(x)
  <2>1. Sign(q) = -Sign(x) BY <1>2, <1>7 DEF Sign
  <2>2. ClosedBy(pos, x) = Sign(q) * s BY <1>5, <2>1
  <2>3. CASE q > 0
    <3>1. x < 0 /\ Sign(q) = 1 BY <1>2, <1>7, <2>3 DEF Sign
    <3>2. s = IF q <= -x THEN q ELSE -x BY <1>2, <1>3, <1>4, <2>3, <3>1
    <3>3. Sign(q) * s = s /\ s \in Int BY <1>2, <3>1, <3>2
    <3>4. (Sign(q) = Sign(q + x)) <=> q > -x BY <1>2, <2>3, <3>1 DEF Sign
    <3> QED BY <1>1, <1>2, <1>7, <2>2, <3>2, <3>3, <3>4
  <2>4. CASE q < 0
    <3>1. x > 0 /\ Sign(q) = -1 BY <1>2, <1>7, <2>4 DEF Sign
    <3>2. s = IF -q <= x THEN -q ELSE x BY <1>2, <1>3, <1>4, <2>4, <3>1
    <3>3. Sign(q) * s = -s /\ s \in Int BY <1>2, <3>1, <3>2
    <3>4. (Sign(q) = Sign(q + x)) <=> -q > x BY <1>2, <2>4, <3>1 DEF Sign
    <3>5. -s = IF -q <= x THEN q ELSE -x BY <1>2, <3>2
    <3> QED BY <1>1, <1>2, <1>7, <2>2, <3>3, <3>4, <3>5
  <2> QED BY <1>2, <1>7, <2>3, <2>4
<1> QED BY <1>1, <1>6, <1>7

(* What a fill of x shares at pm makes of the cost of a position bought at *)
(* old, all in units of 1/m: the new cost is the old one, the price of the *)
(* shares, and the profit of those that were closed.                       *)
CostsAfter(new, pos, x, pm, old, m) ==
  /\ new.avg \in Ratios
  /\ \E A \in Int : /\ Scaled(new.avg, A, m)
                    /\ (pos.qty + x) * A = pos.qty * old + x * pm
                                           + ClosedBy(pos, x) * (pm + (-1) * old)

(* apply_fill does that, in a unit in which the average cost is whole.     *)
LEMMA FillCosts ==
  ASSUME NEW pos \in Positions, NEW x \in Int \ {0}, NEW p \in Int, NEW time,
         NEW m \in Int, NEW n \in Int \ {0}, NEW V \in Int, NEW K \in Int,
         pos.qty + x # 0 => n = pos.qty + x,
         Scaled(pos.avg, n * V, m), m = n * K
  PROVE  CostsAfter(ApplyFill(pos, x, p, time), pos, x, p * m, n * V, m)
<1> DEFINE new == ApplyFill(pos, x, p, time)
<1>1. PICK q, k, old, pm : q = pos.qty /\ k = ClosedBy(pos, x) /\ old = n * V /\ pm = p * m OBVIOUS
<1>2. q \in Int /\ k \in Int /\ old \in Int /\ pm \in Int /\ pos.avg \in Ratios
  BY <1>1, ClosedShares DEF Positions
<1>3. /\ q = 0 \/ Sign(q) = Sign(x) => k = 0
      /\ q # 0 /\ Sign(q) # Sign(x) => k = IF Sign(q) = Sign(q + x) THEN -x ELSE q
  BY <1>1, <1>2, ClosedShares
<1>4. SUFFICES new.avg \in Ratios /\ \E A \in Int :
        Scaled(new.avg, A, m) /\ (q + x) * A = q * old + x * pm + k * (pm + (-1) * old)
  BY <1>1 DEF CostsAfter
<1>5. Whole(p) \in Ratios /\ Scaled(Whole(p), pm, m) BY <1>1, WholeScaled
<1>6. CASE q = 0
  <2>1. new.avg = Whole(p) BY <1>1, <1>6 DEF ApplyFill, Opened
  <2>2. k * (pm + (-1) * old) = 0 /\ q * old = 0 /\ (q + x) * pm = x * pm
    BY <1>2, <1>3, <1>6
  <2>3. (q + x) * pm = q * old + x * pm + k * (pm + (-1) * old)
    BY <1>2, <2>2
  <2> HIDE DEF new
  <2> QED BY <1>2, <1>5, <2>1, <2>3
<1>7. CASE q # 0 /\ Sign(q) = Sign(x)
  <2>1. new.avg = Over(Plus(Times(q, pos.avg), Whole(x * p)), q + x)
    BY <1>1, <1>7 DEF ApplyFill, Averaged, Positions
  <2>2. q + x # 0 /\ n = q + x BY <1>1, <1>2, <1>7 DEF Sign
  <2> DEFINE A == q * V + (x * p) * K
  <2>3. x * p \in Int /\ q * V \in Int /\ (x * p) * K \in Int /\ A \in Int BY <1>2
  <2>4. q * old + (x * p) * m = n * A
    <3>1. q * old = n * (q * V) BY <1>1, <1>2, Shuffle
    <3>2. (x * p) * m = n * ((x * p) * K) BY <2>3, Shuffle
    <3>3. n * A = n * (q * V) + n * ((x * p) * K) BY <2>3, Products
    <3> QED BY <3>1, <3>2, <3>3
  <2>5. x * pm = (x * p) * m BY <1>1, Shuffle
  <2> HIDE DEF A, new
  <2>6. Times(q, pos.avg) \in Ratios /\ q * old \in Int /\ Scaled(Times(q, pos.avg), q * old, m)
    BY <1>1, <1>2, TimesScaled
  <2>7. /\ Whole(x * p) \in Ratios /\ (x * p) * m \in Int
        /\ Scaled(Whole(x * p), (x * p) * m, m)
    BY <2>3, WholeScaled
  <2>8. PICK r : r = Plus(Times(q, pos.avg), Whole(x * p)) OBVIOUS
  <2>9. r \in Ratios /\ Scaled(r, n * A, m)
    BY <2>4, <2>6, <2>7, <2>8, PlusScaled
  <2>10. new.avg \in Ratios /\ Scaled(new.avg, A, m)
    BY <2>1, <2>2, <2>3, <2>8, <2>9, OverScaled
  <2>11. k * (pm + (-1) * old) = 0 BY <1>2, <1>3, <1>7
  <2>12. (q + x) * A = q * old + x * pm + k * (pm + (-1) * old)
    BY <2>2, <2>4, <2>5, <2>6, <2>7, <2>11
  <2> QED BY <2>3, <2>10, <2>12
<1>8. CASE q # 0 /\ Sign(q) # Sign(x) /\ q + x = 0
  <2>1. new.avg = Whole(0) BY <1>1, <1>8 DEF ApplyFill, Flat
  <2>2. Whole(0) \in Ratios /\ Scaled(Whole(0), 0, m)
    <3>1. 0 * 1 = 0 /\ 0 * m = 0 OBVIOUS
    <3> QED BY <3>1 DEF Whole, Ratios, Scaled
  <2>3. x = -q /\ k = q
    <3>1. Sign(q) # Sign(q + x) BY <1>2, <1>8 DEF Sign
    <3> QED BY <1>2, <1>3, <1>8, <3>1
  <2>4. q * (pm + (-1) * old) = q * pm - q * old /\ (-q) * pm = -(q * pm)
        /\ q * pm \in Int /\ q * old \in Int
    BY <1>2
  <2>5. (q + x) * 0 = q * old + x * pm + k * (pm + (-1) * old) BY <1>8, <2>3, <2>4
  <2> HIDE DEF new
  <2> QED BY <2>1, <2>2, <2>5
<1>9. CASE q # 0 /\ Sign(q) # Sign(x) /\ q + x # 0 /\ Sign(q) # Sign(q + x)
  <2>1. new.avg = Whole(p) BY <1>1, <1>9 DEF ApplyFill, Flipped, Opened
  <2>2. k = q BY <1>3, <1>9
  <2>3. /\ q * (pm + (-1) * old) = q * pm - q * old /\ (q + x) * pm = q * pm + x * pm
        /\ q * pm \in Int /\ x * pm \in Int /\ q * old \in Int
    BY <1>2
  <2>4. (q + x) * pm = q * old + x * pm + k * (pm + (-1) * old) BY <2>2, <2>3
  <2> HIDE DEF new
  <2> QED BY <1>2, <1>5, <2>1, <2>4
<1>10. CASE q # 0 /\ Sign(q) # Sign(x) /\ q + x # 0 /\ Sign(q) = Sign(q + x)
  <2>1. new.avg = pos.avg BY <1>1, <1>10 DEF ApplyFill, Positions
  <2>2. k = -x BY <1>3, <1>10
  <2>3. /\ (-x) * (pm + (-1) * old) = x * old - x * pm /\ (q + x) * old = q * old + x * old
        /\ x * old \in Int /\ x * pm \in Int /\ q * old \in Int
    BY <1>2
  <2>4. (q + x) * old = q * old + x * pm + k * (pm + (-1) * old) BY <2>2, <2>3
  <2> HIDE DEF new
  <2> QED BY <1>1, <1>2, <2>1, <2>4
<1> QED BY <1>6, <1>7, <1>8, <1>9, <1>10

(* A fill keeps the two books in agreement.                                *)
LEMMA BooksExplain ==
  ASSUME NEW pos \in Positions, NEW x \in Int \ {0}, NEW p \in Int, NEW time, NEW c \in Int,
         NEW money \in Int, NEW base \in Int, NEW R \in Ratios,
         Same(Plus(Whole(money), Times(pos.qty, pos.avg)), Plus(Whole(base), R))
  PROVE  LET new == ApplyFill(pos, x, p, time)
             profit == Times(ClosedBy(pos, x), Plus(Whole(p), Times(-1, pos.avg)))
         IN  /\ new.avg \in Ratios /\ Plus(R, profit) \in Ratios
             /\ Same(Plus(Whole(money - (x * p + c)), Times(pos.qty + x, new.avg)),
                     Plus(Whole(base - c), Plus(R, profit)))
<1> DEFINE new == ApplyFill(pos, x, p, time)
           profit == Times(ClosedBy(pos, x), Plus(Whole(p), Times(-1, pos.avg)))
<1>1. pos.qty \in Int /\ pos.avg \in Ratios /\ ClosedBy(pos, x) \in Int
  BY ClosedShares DEF Positions
<1>2. PICK q, k : q = pos.qty /\ k = ClosedBy(pos, x) OBVIOUS
<1>3. PICK n \in Int \ {0} : q + x # 0 => n = q + x
  <2>1. CASE q + x = 0 BY <2>1
  <2>2. CASE q + x # 0 BY <2>2, <1>1, <1>2
  <2> QED BY <2>1, <2>2
<1>4. PICK m \in Nat \ {0} : InUnit(pos.avg, R, n, m)
  BY <1>1, CommonUnit
<1>5. PICK V \in Int, W \in Int, K \in Int :
        Scaled(pos.avg, n * V, m) /\ Scaled(R, n * W, m) /\ m = n * K
  BY <1>4 DEF InUnit
<1>6. PICK old, total, pm : old = n * V /\ total = n * W /\ pm = p * m OBVIOUS
<1>7. m \in Int /\ q \in Int /\ k \in Int /\ old \in Int /\ total \in Int /\ pm \in Int
  BY <1>1, <1>2, <1>6
<1>8. Scaled(pos.avg, old, m) /\ Scaled(R, total, m) BY <1>5, <1>6
<1>9. money * m + q * old = base * m + total
  <2>1. Times(q, pos.avg) \in Ratios /\ q * old \in Int /\ Scaled(Times(q, pos.avg), q * old, m)
    BY <1>1, <1>7, <1>8, TimesScaled
  <2>2. Whole(money) \in Ratios /\ money * m \in Int /\ Scaled(Whole(money), money * m, m)
    BY WholeScaled
  <2>3. Whole(base) \in Ratios /\ base * m \in Int /\ Scaled(Whole(base), base * m, m)
    BY WholeScaled
  <2>4. PICK r, s : r = Plus(Whole(money), Times(q, pos.avg)) /\ s = Plus(Whole(base), R) OBVIOUS
  <2>5. r \in Ratios /\ money * m + q * old \in Int /\ Scaled(r, money * m + q * old, m)
    BY <2>1, <2>2, <2>4, PlusScaled
  <2>6. s \in Ratios /\ base * m + total \in Int /\ Scaled(s, base * m + total, m)
    BY <1>7, <1>8, <2>3, <2>4, PlusScaled
  <2>7. Same(r, s) BY <1>2, <2>4
  <2> QED BY <2>5, <2>6, <2>7, SameScaled
<1>10. CostsAfter(new, pos, x, p * m, n * V, m)
  <2>1. pos.qty + x # 0 => n = pos.qty + x BY <1>2, <1>3
  <2> QED BY <1>5, <1>7, <2>1, FillCosts
<1> HIDE DEF new
<1>11. PICK A \in Int : /\ Scaled(new.avg, A, m)
                        /\ (q + x) * A = q * old + x * pm + k * (pm + (-1) * old)
  BY <1>2, <1>6, <1>10 DEF CostsAfter
<1>12. PICK gain : gain = k * (pm + (-1) * old) OBVIOUS
<1>13. profit \in Ratios /\ gain \in Int /\ Scaled(profit, gain, m)
  <2>1. /\ Times(-1, pos.avg) \in Ratios /\ (-1) * old \in Int
        /\ Scaled(Times(-1, pos.avg), (-1) * old, m)
    BY <1>1, <1>7, <1>8, TimesScaled
  <2>2. Whole(p) \in Ratios /\ Scaled(Whole(p), pm, m) BY <1>6, <1>7, WholeScaled
  <2>3. PICK r, u : r = Plus(Whole(p), Times(-1, pos.avg)) /\ u = pm + (-1) * old OBVIOUS
  <2>4. r \in Ratios /\ u \in Int /\ Scaled(r, u, m) BY <1>7, <2>1, <2>2, <2>3, PlusScaled
  <2>5. Times(k, r) \in Ratios /\ k * u \in Int /\ Scaled(Times(k, r), k * u, m)
    BY <1>7, <2>4, TimesScaled
  <2> QED BY <1>2, <1>12, <2>3, <2>5
<1> HIDE DEF profit
<1>14. Plus(R, profit) \in Ratios /\ total + gain \in Int /\ Scaled(Plus(R, profit), total + gain, m)
  BY <1>7, <1>8, <1>13, PlusScaled
<1>15. PICK spent, B, C : spent = x * p + c /\ B = (money - spent) * m /\ C = (base - c) * m
  OBVIOUS
<1>16. x * p \in Int /\ spent \in Int /\ money - spent \in Int /\ base - c \in Int BY <1>15
<1>17. Whole(money - spent) \in Ratios /\ B \in Int /\ Scaled(Whole(money - spent), B, m)
  BY <1>7, <1>15, <1>16, WholeScaled
<1>18. Whole(base - c) \in Ratios /\ C \in Int /\ Scaled(Whole(base - c), C, m)
  BY <1>7, <1>15, <1>16, WholeScaled
<1>19. q + x \in Int BY <1>7
<1>20. /\ Times(q + x, new.avg) \in Ratios /\ (q + x) * A \in Int
       /\ Scaled(Times(q + x, new.avg), (q + x) * A, m)
  BY <1>10, <1>11, <1>19, <1>7, TimesScaled DEF CostsAfter
<1>21. B + (q + x) * A = C + (total + gain)
  <2>1. PICK mm, xp, cm, bm : mm = money * m /\ xp = (x * p) * m /\ cm = c * m /\ bm = base * m
    OBVIOUS
  <2>2. mm \in Int /\ xp \in Int /\ cm \in Int /\ bm \in Int BY <1>16, <2>1
  <2>3. B = mm - (xp + cm)
    <3>1. (money - spent) * m = money * m - spent * m BY <1>16, Products
    <3>2. spent * m = (x * p) * m + c * m BY <1>15, <1>16, Products
    <3> QED BY <1>15, <2>1, <3>1, <3>2
  <2>4. C = bm - cm BY <1>15, <2>1, Products
  <2>5. x * pm = xp BY <1>6, <2>1, Shuffle
  <2>6. PICK qo, qA : qo = q * old /\ qA = (q + x) * A OBVIOUS
  <2>7. qo \in Int /\ qA \in Int BY <1>7, <1>20, <2>6
  <2>8. mm + qo = bm + total BY <1>9, <2>1, <2>6
  <2>9. qA = qo + xp + gain BY <1>11, <1>12, <2>5, <2>6
  <2>10. B + qA = C + (total + gain) BY ONLY <2>2, <2>3, <2>4, <2>7, <2>8, <2>9, <1>7, <1>13
  <2> QED BY <2>6, <2>10
<1>22. PICK r, s : /\ r = Plus(Whole(money - spent), Times(q + x, new.avg))
                   /\ s = Plus(Whole(base - c), Plus(R, profit))
  OBVIOUS
<1>23. r \in Ratios /\ B + (q + x) * A \in Int /\ Scaled(r, B + (q + x) * A, m)
  BY <1>17, <1>20, <1>22, PlusScaled
<1>24. s \in Ratios /\ C + (total + gain) \in Int /\ Scaled(s, C + (total + gain), m)
  BY <1>14, <1>18, <1>22, PlusScaled
<1>25. Same(r, s) BY <1>21, <1>23, <1>24, SameScaled
<1> QED BY <1>2, <1>10, <1>14, <1>15, <1>22, <1>25 DEF new, profit, CostsAfter

-----------------------------------------------------------------------------
(* What BooksInv says beyond PInv.                                         *)
BooksMore ==
  /\ clock \in Nat /\ bars \in 0..MaxBars /\ armed \in BOOLEAN
  /\ position \in Positions /\ (position.qty = 0 <=> position.opened = Never)
  /\ realised \in Ratios /\ fees \in Nat /\ heldSince \in Int
  /\ (pc = "drain" <=> order # 0)
  /\ BasisExplainsCash

LEMMA BooksBegin == Init => BooksMore
<1> SUFFICES ASSUME Init PROVE BooksMore OBVIOUS
<1>1. /\ clock = 0 /\ bars = 0 /\ armed \in BOOLEAN /\ position = Flat /\ realised = Whole(0)
      /\ fees = 0 /\ heldSince = Never /\ pc = "bar" /\ order = 0 /\ cash = StartingCash
  BY DEF Init
<1>2. StartingCash \in Int /\ MaxBars \in Nat BY TapeAssumption
<1>3. /\ Whole(0) \in Ratios /\ Flat \in Positions /\ Flat.qty = 0 /\ Flat.avg = Whole(0)
      /\ Flat.opened = Never
  BY DEF Whole, Ratios, Flat, Positions, Never
<1>4. BasisExplainsCash
  <2>1. 1 \in Nat \ {0} /\ 0 * 1 = 0 /\ StartingCash * 1 = StartingCash BY <1>2
  <2>2. Scaled(Whole(0), 0, 1) BY <2>1 DEF Scaled, Whole
  <2>3. Whole(StartingCash) \in Ratios /\ Scaled(Whole(StartingCash), StartingCash, 1)
    BY <1>2, <2>1 DEF Scaled, Whole, Ratios
  <2>4. Times(0, Whole(0)) \in Ratios /\ Scaled(Times(0, Whole(0)), 0, 1)
    <3>1. 0 * 0 = 0 OBVIOUS
    <3> QED BY <1>3, <2>2, <3>1, TimesScaled
  <2>5. PICK r, s : /\ r = Plus(Whole(StartingCash), Times(0, Whole(0)))
                    /\ s = Plus(Whole(StartingCash), Whole(0))
    OBVIOUS
  <2>6. r \in Ratios /\ Scaled(r, StartingCash + 0, 1) BY <1>2, <2>3, <2>4, <2>5, PlusScaled
  <2>7. s \in Ratios /\ Scaled(s, StartingCash + 0, 1) BY <1>2, <1>3, <2>2, <2>3, <2>5, PlusScaled
  <2>8. Same(r, s) BY <1>2, <2>1, <2>6, <2>7, SameScaled
  <2>9. StartingCash - 0 = StartingCash BY <1>2
  <2> QED BY <1>1, <1>3, <2>5, <2>8, <2>9 DEF BasisExplainsCash
<1> QED BY <1>1, <1>2, <1>3, <1>4 DEF BooksMore, Never

(* The drain pays for the shares, moves the average cost and books the     *)
(* profit of those it closed.                                              *)
LEMMA DrainedAgrees == ASSUME PInv, BooksMore, Drained PROVE BooksMore'
<1>1. /\ order \in Int \ {0} /\ close \in Int /\ Commission \in Nat /\ cash \in Int
      /\ StartingCash \in Int /\ fees \in Nat /\ position \in Positions /\ realised \in Ratios
      /\ clock \in Nat /\ heldSince \in Int
  BY TapeAssumption DEF PInv, BooksOK, InDrain, Drained, BooksMore
<1>2. /\ position' = [qty |-> position'.qty, avg |-> position'.avg, opened |-> position'.opened]
      /\ position'.qty = position.qty + order /\ position'.opened = heldSince'
  BY DrainedBooks DEF PInv, BooksOK, OpenedWithTheLeg
<1>3. position.qty \in Int BY <1>1 DEF Positions
<1> DEFINE paid == Commission * Magnitude(order)
<1>4. Magnitude(order) \in Nat /\ paid \in Nat
  <2>1. Magnitude(order) \in Nat BY <1>1 DEF Magnitude
  <2> QED BY <1>1, <2>1
<1> HIDE DEF paid
<1>5. cash' = cash - (order * close + paid) /\ fees' = fees + paid
  BY DEF Drained, Paid, paid
<1>6. /\ position' = ApplyFill(position, order, close, clock)
      /\ realised' = Plus(realised, Times(ClosedBy(position, order),
                                          Plus(Whole(close), Times(-1, position.avg))))
  BY DEF Drained
<1>7. PICK base : base = StartingCash - fees OBVIOUS
<1>8. base \in Int /\ base - paid = StartingCash - fees' BY <1>1, <1>4, <1>5, <1>7
<1>9. Same(Plus(Whole(cash), Times(position.qty, position.avg)), Plus(Whole(base), realised))
  BY <1>7 DEF BooksMore, BasisExplainsCash
<1>10. /\ position'.avg \in Ratios /\ realised' \in Ratios
       /\ Same(Plus(Whole(cash'), Times(position.qty + order, position'.avg)),
               Plus(Whole(base - paid), realised'))
  <2> DEFINE new == ApplyFill(position, order, close, clock)
             profit == Times(ClosedBy(position, order), Plus(Whole(close), Times(-1, position.avg)))
  <2>1. paid \in Int BY <1>4
  <2>2. /\ new.avg \in Ratios /\ Plus(realised, profit) \in Ratios
        /\ Same(Plus(Whole(cash - (order * close + paid)), Times(position.qty + order, new.avg)),
                Plus(Whole(base - paid), Plus(realised, profit)))
    BY <1>1, <1>8, <1>9, <2>1, BooksExplain
  <2> HIDE DEF new, profit
  <2>3. position' = new /\ realised' = Plus(realised, profit) BY <1>6 DEF new, profit
  <2> QED BY <1>5, <2>2, <2>3
<1>11. BasisExplainsCash' BY <1>2, <1>8, <1>10 DEF BasisExplainsCash
<1>12. heldSince' \in Int /\ (position'.qty = 0 <=> heldSince' = Never)
  <2>1. heldSince' = IF Sign(position.qty + order) = Sign(position.qty) THEN heldSince
                     ELSE IF position.qty + order = 0 THEN Never ELSE clock
    BY DEF Drained
  <2>2. position.qty = 0 <=> heldSince = Never
    BY DEF PInv, OpenedWithTheLeg, BooksMore
  <2>3. clock # Never /\ Never \in Int BY <1>1 DEF Never
  <2>4. CASE Sign(position.qty + order) = Sign(position.qty)
    <3>1. position.qty + order = 0 <=> position.qty = 0 BY <1>1, <1>3, <2>4 DEF Sign
    <3> QED BY <1>1, <1>2, <2>1, <2>2, <2>4, <3>1
  <2>5. CASE Sign(position.qty + order) # Sign(position.qty)
    BY <1>1, <1>2, <2>1, <2>3, <2>5
  <2> QED BY <2>4, <2>5
<1>13. position' \in Positions
  <2>1. position'.qty \in Int BY <1>1, <1>2, <1>3
  <2> QED BY <1>2, <1>10, <1>12, <2>1 DEF Positions
<1>14. /\ clock' = clock /\ bars' = bars /\ armed' = armed /\ pc' = "bar" /\ order' = 0
  BY DEF Drained
<1>15. fees' \in Nat BY <1>1, <1>4, <1>5
<1> QED BY <1>2, <1>10, <1>11, <1>12, <1>13, <1>14, <1>15 DEF BooksMore

(* Every other step leaves the position, the cash and the history alone.   *)
LEMMA BooksUntouched ==
  ASSUME BooksMore, UNCHANGED <<position, cash, realised, fees, heldSince>>,
         clock' \in Nat, bars' \in 0..MaxBars, armed' \in BOOLEAN, (pc = "drain" <=> order # 0)'
  PROVE  BooksMore'
<1>1. BasisExplainsCash' BY DEF BooksMore, BasisExplainsCash
<1> QED BY <1>1 DEF BooksMore

LEMMA StepBooks == ASSUME PInv, BooksMore, [Next]_vars PROVE BooksMore'
<1>1. clock \in Nat /\ bars \in 0..MaxBars /\ armed \in BOOLEAN /\ (pc = "drain" <=> order # 0)
  BY DEF BooksMore
<1>2. ASSUME NEW gap \in Gaps, NEW price \in Prices, Advance(gap, price)
      PROVE  clock' \in Nat /\ bars' \in 0..MaxBars /\ order = 0
  BY <1>1, <1>2, TapeAssumption DEF Advance
<1>3. CASE Drained BY <1>3, DrainedAgrees
<1>4. ASSUME NEW gap \in Gaps, NEW price \in Prices, SkipBar(gap, price) PROVE BooksMore'
  BY <1>1, <1>2, <1>4, BooksUntouched DEF SkipBar
<1>5. ASSUME NEW gap \in Gaps, NEW price \in Prices, NEW signal \in Signals,
             SizerRaises(gap, price, signal)
      PROVE  BooksMore'
  BY <1>1, <1>2, <1>5, BooksUntouched DEF SizerRaises
<1>6. ASSUME NEW gap \in Gaps, NEW price \in Prices, NEW signal \in Signals,
             NoOrder(gap, price, signal)
      PROVE  BooksMore'
  BY <1>1, <1>2, <1>6, BooksUntouched DEF NoOrder, Rebalances
<1>7. ASSUME NEW gap \in Gaps, NEW price \in Prices, NEW signal \in Signals,
             NEW files \in FileSets, OrderRefused(gap, price, signal, files)
      PROVE  BooksMore'
  BY <1>1, <1>2, <1>7, BooksUntouched DEF OrderRefused, Rebalances
<1>8. ASSUME NEW gap \in Gaps, NEW price \in Prices, NEW signal \in Signals,
             NEW files \in FileSets, OrderPlaced(gap, price, signal, files)
      PROVE  BooksMore'
  BY <1>1, <1>2, <1>8, BooksUntouched DEF OrderPlaced, Rebalances
<1>9. CASE Finish BY <1>1, <1>9, BooksUntouched DEF Finish
<1>10. CASE Arm BY <1>1, <1>10, BooksUntouched DEF Arm
<1>11. CASE Clear BY <1>1, <1>11, BooksUntouched DEF Clear
<1>12. CASE UNCHANGED vars BY <1>1, <1>12, BooksUntouched DEF vars
<1> QED BY <1>3, <1>4, <1>5, <1>6, <1>7, <1>8, <1>9, <1>10, <1>11, <1>12 DEF Next, Driver

(* Whatever the tape, the cash ledger and the average cost explain each    *)
(* other.                                                                  *)
THEOREM BooksAgree == Spec => []BooksInv
<1>1. Init => PInv /\ BooksMore BY InitInv, BooksBegin
<1>2. PInv /\ BooksMore /\ [Next]_vars => (PInv /\ BooksMore)' BY StepInv, StepBooks
<1>3. PInv /\ BooksMore => BooksInv
  BY DEF PInv, BooksOK, BooksMore, BooksInv, TypeOK
<1> QED BY <1>1, <1>2, <1>3, PTL DEF Spec

-----------------------------------------------------------------------------
(* A finite set of whole numbers has a largest element.                    *)
LEMMA HasLargest ==
  ASSUME NEW S, IsFiniteSet(S), S \subseteq Int, S # {}
  PROVE  Max(S) \in S /\ \A y \in S : Max(S) >= y
<1> DEFINE Tops(s) == \E x \in s : \A y \in s : x >= y
           T == {n \in Nat : \A s \in AtMost(S, n) : s # {} => Tops(s)}
<1>1. 0 \in T BY SmallFacts
<1>2. ASSUME NEW n \in Nat, n \in T PROVE n + 1 \in T
  <2> SUFFICES ASSUME NEW s \in AtMost(S, n + 1), s # {} PROVE Tops(s) OBVIOUS
  <2>1. s \ {Pick(s)} \in AtMost(S, n) BY SmallFacts
  <2>2. PICK top : top = Pick(s) OBVIOUS
  <2>3. top \in s /\ s \subseteq Int /\ s \ {top} \in AtMost(S, n)
    BY <2>1, <2>2, PickIn DEF AtMost
  <2>4. CASE s \ {top} = {}
    <3>1. \A y \in s : y = top BY <2>4
    <3> QED BY <2>3, <3>1
  <2>5. CASE s \ {top} # {}
    <3>1. PICK x \in s \ {top} : \A y \in s \ {top} : x >= y BY <1>2, <2>3, <2>5
    <3>2. x \in s /\ x \in Int /\ top \in Int BY <2>3
    <3>3. CASE x >= top
      <4>1. \A y \in s : x >= y BY <3>1, <3>3
      <4> QED BY <3>2, <4>1
    <3>4. CASE ~(x >= top)
      <4>1. top >= x /\ top >= top BY <3>2, <3>4
      <4>2. \A y \in s \ {top} : y \in Int /\ top >= y BY <2>3, <3>1, <3>2, <4>1
      <4>3. \A y \in s : top >= y BY <4>1, <4>2
      <4> QED BY <2>3, <4>3
    <3> QED BY <3>3, <3>4
  <2> QED BY <2>4, <2>5
<1> HIDE DEF T
<1>3. Nat \subseteq T BY <1>1, <1>2, SetInduction
<1>4. Cardinality(S) \in Nat /\ S \in AtMost(S, Cardinality(S)) BY FS_CardinalityType DEF AtMost
<1>5. Cardinality(S) \in T BY <1>3, <1>4
<1>6. Tops(S) BY <1>4, <1>5 DEF T
<1> QED BY <1>6 DEF Max

LEMMA FirstIs ==
  ASSUME NEW S, S \subseteq Int, NEW k \in S, \A y \in S : k <= y PROVE Min(S) = k
<1>1. \E x \in S : \A y \in S : x <= y OBVIOUS
<1>2. PICK m : m = Min(S) OBVIOUS
<1>3. m \in S /\ \A y \in S : m <= y BY <1>1, <1>2 DEF Min
<1>4. m \in Int /\ k \in Int /\ m <= k /\ k <= m BY <1>3
<1> QED BY <1>2, <1>4

(* What any caller of approve may pass.                                    *)
InputOK(inp) ==
  /\ inp.armed \in BOOLEAN /\ inp.open \in BOOLEAN
  /\ inp.lastBar \in Nat \cup {NoBar} /\ inp.now \in Nat
  /\ inp.files \in FileSets
  /\ inp.reference \in Nat /\ inp.price \in Nat

(* RC-12: the oldest file is too old exactly when some file is.            *)
LEMMA OldestDecides ==
  ASSUME NEW inp, InputOK(inp)
  PROVE  Unusable(inp) <=> Breaks(inp, "RC-12")
<1> DEFINE D == DOMAIN inp.files
           ages == {0} \cup {inp.now - inp.files[a] : a \in D}
<1>1. inp.now \in Nat /\ inp.files \in FileSets BY DEF InputOK
<1>2. IsFiniteSet(D) /\ \A a \in D : inp.files[a] \in Nat \cup {Missing} /\ inp.files[a] \in Int
  BY <1>1, ArtefactAssumption DEF Missing
<1>3. IsFiniteSet(ages) /\ ages \subseteq Int /\ ages # {}
  <2>1. IsFiniteSet({inp.now - inp.files[a] : a \in D})
    <3>1. \E f : f = [a \in D |-> inp.now - inp.files[a]] OBVIOUS
    <3>2. PICK f : f = [a \in D |-> inp.now - inp.files[a]] BY <3>1
    <3>3. {inp.now - inp.files[a] : a \in D} = {f[a] : a \in D} BY <3>2
    <3>4. f \in Surjection(D, {f[a] : a \in D}) BY <3>2 DEF Surjection
    <3> QED BY <1>2, <3>3, <3>4, FS_Surjection
  <2>2. IsFiniteSet({0}) BY FS_Singleton
  <2>3. IsFiniteSet(ages) BY <2>1, <2>2, FS_Union
  <2> QED BY <1>1, <1>2, <2>3
<1>4. OldestAge(inp) = Max(ages) BY DEF OldestAge
<1> HIDE DEF ages
<1>5. Max(ages) \in ages /\ \A y \in ages : Max(ages) >= y BY <1>3, HasLargest
<1>6. HardAge \in Nat \ {0}
  <2>1. HardAge - 1 \in Int BY ThresholdAssumption
  <2> QED BY <2>1, ThresholdAssumption
<1>7. Max(ages) >= HardAge <=> \E a \in D : inp.now - inp.files[a] >= HardAge
  <2>1. ages = {0} \cup {inp.now - inp.files[a] : a \in D} BY DEF ages
  <2>2. ASSUME Max(ages) >= HardAge PROVE \E a \in D : inp.now - inp.files[a] >= HardAge
    <3>1. Max(ages) # 0 BY <1>6, <2>2
    <3>2. PICK a \in D : Max(ages) = inp.now - inp.files[a] BY <1>5, <2>1, <3>1
    <3> QED BY <2>2, <3>2
  <2>3. ASSUME NEW a \in D, inp.now - inp.files[a] >= HardAge PROVE Max(ages) >= HardAge
    <3>1. inp.now - inp.files[a] \in ages /\ inp.now - inp.files[a] \in Int BY <1>1, <1>2, <2>1
    <3>2. Max(ages) \in Int /\ Max(ages) >= inp.now - inp.files[a] BY <1>3, <1>5, <3>1
    <3> QED BY <1>6, <2>3, <3>1, <3>2
  <2> QED BY <2>2, <2>3
<1>8. \A a \in D : inp.now - inp.files[a] >= HardAge <=> inp.files[a] <= inp.now - HardAge
  BY <1>1, <1>2, <1>6
<1>9. Breaks(inp, "RC-12") <=> \E a \in D : inp.files[a] = Missing \/ inp.files[a] <= inp.now - HardAge
  BY DEF Breaks
<1>10. Unusable(inp) <=> D # {} /\ ((\E a \in D : inp.files[a] = Missing) \/ Max(ages) >= HardAge)
  BY <1>4 DEF Unusable, Gone
<1> QED BY <1>7, <1>8, <1>9, <1>10

(* What the engine checks is what the rules say.                           *)
LEMMA ChecksAreRules ==
  ASSUME NEW inp, InputOK(inp)
  PROVE  /\ inp.armed <=> Breaks(inp, "RC-13")
         /\ Stale(inp) <=> Breaks(inp, "RC-08")
         /\ Closed(inp) <=> Breaks(inp, "RC-09")
         /\ Unusable(inp) <=> Breaks(inp, "RC-12")
         /\ Deviates(inp) <=> Breaks(inp, "RC-10")
<1>1. Unusable(inp) <=> Breaks(inp, "RC-12") BY OldestDecides
<1>2. Stale(inp) <=> Breaks(inp, "RC-08")
  <2>1. inp.lastBar \in Nat \cup {NoBar} /\ inp.now \in Nat /\ MaxStaleness \in Nat
    BY ThresholdAssumption DEF InputOK
  <2>2. inp.lastBar # NoBar =>
          (inp.now - inp.lastBar > MaxStaleness <=> inp.lastBar + MaxStaleness < inp.now)
    BY <2>1
  <2> QED BY <2>2 DEF Stale, Breaks
<1>3. Closed(inp) <=> Breaks(inp, "RC-09")
  BY ThresholdAssumption DEF Closed, Breaks, InputOK
<1>4. inp.armed <=> Breaks(inp, "RC-13") BY DEF Breaks, InputOK
<1>5. Deviates(inp) <=> Breaks(inp, "RC-10")
  <2>1. PICK p, r, d : p = inp.price /\ r = inp.reference /\ d = MaxDeviation OBVIOUS
  <2>2. p \in Nat /\ r \in Nat /\ d \in Nat BY <2>1, ThresholdAssumption DEF InputOK
  <2>3. PICK rd : rd = d * r OBVIOUS
  <2>4. rd \in Nat /\ r * (100 - d) = 100 * r - rd /\ r * (100 + d) = 100 * r + rd BY <2>2, <2>3
  <2>5. (100 * (IF p > r THEN p - r ELSE r - p) > rd)
          <=> 100 * p \notin (100 * r - rd)..(100 * r + rd)
    BY <2>2, <2>4
  <2>6. Breaks(inp, "RC-10") <=> /\ p # Unpriced /\ r # NoPrice
                                 /\ 100 * p \notin r * (100 - d)..r * (100 + d)
    BY <2>1 DEF Breaks
  <2>7. Deviates(inp) <=> /\ r # NoPrice /\ p # Unpriced
                          /\ 100 * (IF p > r THEN p - r ELSE r - p) > rd
    BY <2>1, <2>3 DEF Deviates
  <2> QED BY <2>4, <2>5, <2>6, <2>7
<1> QED BY <1>1, <1>2, <1>3, <1>4, <1>5

Broken(inp) == {i \in DOMAIN Rules : Breaks(inp, Rules[i])}

Blocks(inp) ==
  {i \in DOMAIN Breaches(inp) : Breaches(inp)[i].severity = "BLOCK"}

(* A refusal by one check, after a warning or not.                         *)
LEMMA RefusedBy ==
  ASSUME NEW inp, NEW k \in 1..5, Broken(inp) \subseteq 1..5,
         k \in Broken(inp), \A i \in Broken(inp) : k <= i,
         \/ Breaches(inp) = <<Block(Rules[k])>>
         \/ Breaches(inp) = <<Warn("RC-12"), Block(Rules[k])>>
  PROVE  /\ Broken(inp) # {} /\ Blocks(inp) = {Len(Breaches(inp))}
         /\ Breaches(inp)[Len(Breaches(inp))].check = Rules[Min(Broken(inp))]
<1>1. Min(Broken(inp)) = k BY FirstIs
<1>2. Block(Rules[k]).check = Rules[k] /\ Block(Rules[k]).severity = "BLOCK" BY DEF Block
<1>3. Warn("RC-12").severity # "BLOCK" BY DEF Warn
<1>4. CASE Breaches(inp) = <<Block(Rules[k])>>
  <2>1. DOMAIN Breaches(inp) = {1} /\ Len(Breaches(inp)) = 1 /\ Breaches(inp)[1] = Block(Rules[k])
    BY <1>4
  <2> QED BY <1>1, <1>2, <2>1 DEF Blocks
<1>5. CASE Breaches(inp) = <<Warn("RC-12"), Block(Rules[k])>>
  <2>1. /\ DOMAIN Breaches(inp) = {1, 2} /\ Len(Breaches(inp)) = 2
        /\ Breaches(inp)[1] = Warn("RC-12") /\ Breaches(inp)[2] = Block(Rules[k])
    BY <1>5
  <2> QED BY <1>1, <1>2, <1>3, <2>1 DEF Blocks
<1> QED BY <1>4, <1>5

LEMMA Appended ==
  ASSUME NEW v, NEW w
  PROVE  Append(<<v>>, w) = <<v, w>> /\ Append(<<>>, w) = <<w>>
<1>1. /\ <<v>> \in Seq({v, w}) /\ <<v, w>> \in Seq({v, w}) /\ <<w>> \in Seq({v, w})
      /\ <<>> \in Seq({v, w})
      /\ Len(<<v>>) = 1 /\ Len(<<v, w>>) = 2 /\ Len(<<w>>) = 1 /\ Len(<<>>) = 0
  OBVIOUS
<1>2. PICK a, b, c, d : /\ a = Append(<<v>>, w) /\ b = <<v, w>>
                        /\ c = Append(<<>>, w) /\ d = <<w>>
  OBVIOUS
<1>3. a \in Seq({v, w}) /\ Len(a) = 2 /\ a[1] = v /\ a[2] = w BY <1>1, <1>2, AppendProperties
<1>4. c \in Seq({v, w}) /\ Len(c) = 1 /\ c[1] = w BY <1>1, <1>2, AppendProperties
<1>5. /\ b \in Seq({v, w}) /\ Len(b) = 2 /\ b[1] = v /\ b[2] = w
      /\ d \in Seq({v, w}) /\ Len(d) = 1 /\ d[1] = w
  BY <1>1, <1>2
<1>6. a = b BY <1>3, <1>5, SeqEqual
<1>7. c = d BY <1>4, <1>5, SeqEqual
<1> QED BY <1>2, <1>6, <1>7

LEMMA RefusalNames ==
  ASSUME NEW inp, InputOK(inp)
  PROVE  IF Broken(inp) = {} THEN Approved(inp) /\ Blocks(inp) = {}
         ELSE /\ Blocks(inp) = {Len(Breaches(inp))}
              /\ Breaches(inp)[Len(Breaches(inp))].check = Rules[Min(Broken(inp))]
<1>1. DOMAIN Rules = 1..5 /\ Rules[1] = "RC-13" /\ Rules[2] = "RC-08" /\ Rules[3] = "RC-09"
      /\ Rules[4] = "RC-12" /\ Rules[5] = "RC-10"
  BY DEF Rules
<1>2. /\ Broken(inp) \subseteq 1..5
      /\ 1 \in Broken(inp) <=> inp.armed
      /\ 2 \in Broken(inp) <=> Stale(inp)
      /\ 3 \in Broken(inp) <=> Closed(inp)
      /\ 4 \in Broken(inp) <=> Unusable(inp)
      /\ 5 \in Broken(inp) <=> Deviates(inp)
  BY <1>1, ChecksAreRules DEF Broken
<1> DEFINE warning == IF Ageing(inp) THEN <<Warn("RC-12")>> ELSE <<>>
<1>3. Breaches(inp) =
        IF inp.armed THEN <<Block("RC-13")>>
        ELSE IF Stale(inp) THEN <<Block("RC-08")>>
        ELSE IF Closed(inp) THEN <<Block("RC-09")>>
        ELSE IF Unusable(inp) THEN <<Block("RC-12")>>
        ELSE IF Deviates(inp) THEN Append(warning, Block("RC-10"))
        ELSE warning
  BY DEF Breaches
<1>4. /\ Append(<<Warn("RC-12")>>, Block("RC-10")) = <<Warn("RC-12"), Block("RC-10")>>
      /\ Append(<<>>, Block("RC-10")) = <<Block("RC-10")>>
  BY Appended
<1>5. \A i \in 1..5 : i = 1 \/ i = 2 \/ i = 3 \/ i = 4 \/ i = 5 OBVIOUS
<1>6. CASE Broken(inp) = {}
  <2>1. Breaches(inp) = <<Warn("RC-12")>> \/ Breaches(inp) = <<>> BY <1>2, <1>3, <1>6
  <2>2. Warn("RC-12").severity # "BLOCK" BY DEF Warn
  <2>3. \A i \in DOMAIN Breaches(inp) : Breaches(inp)[i] = Warn("RC-12")
    <3>1. CASE Breaches(inp) = <<Warn("RC-12")>>
      <4>1. DOMAIN Breaches(inp) = {1} /\ Breaches(inp)[1] = Warn("RC-12") BY <3>1
      <4> QED BY <4>1
    <3>2. CASE Breaches(inp) = <<>>
      <4>1. DOMAIN Breaches(inp) = {} BY <3>2
      <4> QED BY <4>1
    <3> QED BY <2>1, <3>1, <3>2
  <2> QED BY <1>6, <2>2, <2>3 DEF Approved, Blocks
<1>7. CASE Broken(inp) # {}
  <2>1. CASE inp.armed
    <3>1. \A i \in Broken(inp) : 1 <= i BY <1>2, <1>5, <2>1
    <3> QED BY <1>1, <1>2, <1>3, <1>7, <2>1, <3>1, RefusedBy
  <2>2. CASE ~inp.armed /\ Stale(inp)
    <3>1. \A i \in Broken(inp) : 2 <= i BY <1>2, <1>5, <2>2
    <3> QED BY <1>1, <1>2, <1>3, <1>7, <2>2, <3>1, RefusedBy
  <2>3. CASE ~inp.armed /\ ~Stale(inp) /\ Closed(inp)
    <3>1. \A i \in Broken(inp) : 3 <= i BY <1>2, <1>5, <2>3
    <3> QED BY <1>1, <1>2, <1>3, <1>7, <2>3, <3>1, RefusedBy
  <2>4. CASE ~inp.armed /\ ~Stale(inp) /\ ~Closed(inp) /\ Unusable(inp)
    <3>1. \A i \in Broken(inp) : 4 <= i BY <1>2, <1>5, <2>4
    <3> QED BY <1>1, <1>2, <1>3, <1>7, <2>4, <3>1, RefusedBy
  <2>5. CASE ~inp.armed /\ ~Stale(inp) /\ ~Closed(inp) /\ ~Unusable(inp)
    <3>1. Deviates(inp) /\ \A i \in Broken(inp) : 5 <= i BY <1>2, <1>5, <1>7, <2>5
    <3>2. \/ Breaches(inp) = <<Block("RC-10")>>
          \/ Breaches(inp) = <<Warn("RC-12"), Block("RC-10")>>
      BY <1>3, <1>4, <2>5, <3>1
    <3> QED BY <1>1, <1>2, <1>7, <3>1, <3>2, RefusedBy
  <2> QED BY <2>1, <2>2, <2>3, <2>4, <2>5
<1> QED BY <1>6, <1>7

(* INV-4: at every moment and for any inputs, an order is refused exactly  *)
(* when it breaks a rule, in the name of the first.                        *)
THEOREM RefusalsNameTheRule == Spec => []FirstBrokenRule
<1>1. BooksInv => FirstBrokenRule
  <2> SUFFICES ASSUME BooksInv, NEW inp \in AnyInputs
               PROVE  IF Broken(inp) = {} THEN Approved(inp) /\ Blocks(inp) = {}
                      ELSE /\ Blocks(inp) = {Len(Breaches(inp))}
                           /\ Breaches(inp)[Len(Breaches(inp))].check = Rules[Min(Broken(inp))]
    BY DEF FirstBrokenRule, Broken, Blocks
  <2>1. clock \in Nat /\ close \in Prices /\ armed \in BOOLEAN BY DEF BooksInv, TypeOK
  <2>2. Prices \subseteq Nat BY TapeAssumption
  <2>3. InputOK(inp)
    <3>1. /\ inp.armed \in {armed} /\ inp.open \in BOOLEAN /\ inp.files \in FileSets
          /\ inp.lastBar \in {NoBar} \cup ({clock - 2, clock} \cap Nat)
          /\ inp.reference \in {NoPrice, close} /\ inp.price \in {Unpriced} \cup Prices
          /\ inp.now \in {clock}
      BY DEF AnyInputs
    <3>2. NoPrice \in Nat /\ Unpriced \in Nat BY DEF NoPrice, Unpriced
    <3> QED BY <2>1, <2>2, <3>1, <3>2 DEF InputOK
  <2> QED BY <2>3, RefusalNames
<1> QED BY <1>1, BooksAgree, PTL
-----------------------------------------------------------------------------
(***************************************************************************)
(* The paper broker.                                                       *)
(***************************************************************************)

(* The lifecycle of the venue id an open order has now watches it; older   *)
(* ones of the same id may still run beside it.                            *)
CurrentWatches ==
  \A o \in Orders : IsOpen(o) =>
    /\ venueIdOf[o] \in 1..Len(lives) /\ lives[venueIdOf[o]].order = o
    /\ lives[venueIdOf[o]].held.type = openOrders[o].type
    /\ o \notin stranded /\ openOrders[o].type = "MKT" => lives[venueIdOf[o]].pc # "done"

(* A price lookup fails for a lifecycle, which ends.                       *)
LostEnded == \A v \in lost : v \in 1..Len(lives) /\ lives[v].pc = "done"

PaidInv == BrokerTypeOK /\ CurrentWatches /\ LostEnded /\ OneTerminalPerSubmit

(* One more element of an interval.                                        *)
LEMMA CountUp ==
  ASSUME NEW n \in Nat, NEW S \in SUBSET (1..n)
  PROVE  /\ Cardinality(S) \in Nat
         /\ \A x : x \notin S => Cardinality(S \cup {x}) = Cardinality(S) + 1
<1>1. IsFiniteSet(1..n)
  BY FS_Interval
<1>2. IsFiniteSet(S)
  BY <1>1, FS_Subset
<1>3. QED
  BY <1>2, FS_CardinalityType, FS_AddElement

(* No order has the type an absent one has.                                *)
LEMMA OpenFacts ==
  /\ NotOpen \notin OrderData
  /\ \A ord \in OrderData : ord.type \in {"MKT", "LMT"} /\ ord.type # "none"
  BY DEF NotOpen, OrderData

(* The submits and the terminal events of an id, counted.                  *)
LEMMA CountsAreNat ==
  ASSUME BrokerTypeOK, LostEnded, NEW o \in Orders
  PROVE  /\ Submits(o) \in Nat /\ Terminals(o) \in Nat
         /\ Cardinality({v \in lost : lives[v].order = o}) \in Nat
<1>1. /\ Len(lives) \in Nat /\ DOMAIN lives = 1..Len(lives)
      /\ Len(emitted[o]) \in Nat /\ DOMAIN emitted[o] = 1..Len(emitted[o])
  BY DEF BrokerTypeOK
<1>2. /\ {v \in DOMAIN lives : lives[v].order = o} \in SUBSET (1..Len(lives))
      /\ {i \in DOMAIN emitted[o] : emitted[o][i].kind \in TerminalKinds}
           \in SUBSET (1..Len(emitted[o]))
      /\ {v \in lost : lives[v].order = o} \in SUBSET (1..Len(lives))
  BY <1>1 DEF LostEnded
<1>3. QED
  BY <1>1, <1>2, CountUp DEF Submits, Terminals

(* An event put for an id counts once when it is terminal.                 *)
LEMMA PutCounts ==
  ASSUME BrokerTypeOK, NEW o \in Orders, NEW ev \in Events, Put(o, ev)
  PROVE  /\ emitted' \in [Orders -> Seq(Events)]
         /\ \A p \in Orders :
              Terminals(p)' = Terminals(p)
                + (IF p = o /\ ev.kind \in TerminalKinds THEN 1 ELSE 0)
<1>1. emitted' = [emitted EXCEPT ![o] = Append(emitted[o], ev)]
  BY DEF Put
<1>2. emitted[o] \in Seq(Events) /\ Append(emitted[o], ev) \in Seq(Events)
  BY DEF BrokerTypeOK
<1>3. emitted' \in [Orders -> Seq(Events)]
  BY <1>1, <1>2 DEF BrokerTypeOK
<1>4. ASSUME NEW p \in Orders, p # o
      PROVE  Terminals(p)' = Terminals(p) /\ Terminals(p) \in Nat
  <2>1. emitted'[p] = emitted[p]
    BY <1>1, <1>4 DEF BrokerTypeOK
  <2>2. emitted[p] \in Seq(Events)
    BY DEF BrokerTypeOK
  <2> DEFINE S == {i \in DOMAIN emitted[p] : emitted[p][i].kind \in TerminalKinds}
  <2>3. Len(emitted[p]) \in Nat /\ S \in SUBSET (1..Len(emitted[p]))
    BY <2>2
  <2>4. Terminals(p)' = Terminals(p) /\ Terminals(p) = Cardinality(S)
    BY <2>1 DEF Terminals, TerminalKinds
  <2> HIDE DEF S
  <2>5. QED
    BY <2>3, <2>4, CountUp
<1>5. Terminals(o)' = Terminals(o) + (IF ev.kind \in TerminalKinds THEN 1 ELSE 0)
  <2> DEFINE n == Len(emitted[o])
             T == {i \in DOMAIN emitted[o] : emitted[o][i].kind \in TerminalKinds}
             U == {i \in DOMAIN emitted'[o] : emitted'[o][i].kind \in TerminalKinds}
  <2>1. /\ n \in Nat /\ DOMAIN emitted[o] = 1..n
        /\ emitted'[o] = Append(emitted[o], ev) /\ DOMAIN emitted'[o] = 1..(n + 1)
        /\ \A i \in 1..n : emitted'[o][i] = emitted[o][i]
        /\ emitted'[o][n + 1] = ev
    BY <1>1, <1>2 DEF BrokerTypeOK
  <2>2. T \in SUBSET (1..n) /\ n + 1 \notin T
    BY <2>1
  <2>3. U = IF ev.kind \in TerminalKinds THEN T \cup {n + 1} ELSE T
    <3> HIDE DEF n
    <3>1. 1..(n + 1) = (1..n) \cup {n + 1}
      BY <2>1
    <3>2. QED
      BY <2>1, <3>1
  <2>4. Terminals(o) = Cardinality(T) /\ Terminals(o)' = Cardinality(U)
    BY DEF Terminals, TerminalKinds
  <2> HIDE DEF n, T, U
  <2>5. Cardinality(T) \in Nat /\ Cardinality(T \cup {n + 1}) = Cardinality(T) + 1
    BY <2>1, <2>2, CountUp
  <2>6. CASE ev.kind \in TerminalKinds
    BY <2>3, <2>4, <2>5, <2>6
  <2>7. CASE ev.kind \notin TerminalKinds
    BY <2>3, <2>4, <2>5, <2>7
  <2>8. QED
    BY <2>6, <2>7
<1>6. QED
  BY <1>3, <1>4, <1>5

(* A lifecycle goes on or ends; all of them may.                           *)
LEMMA GotoFacts ==
  ASSUME BrokerTypeOK, NEW v \in DOMAIN lives,
         NEW at \in {"SUBMITTED", "ACCEPTED", "FILLED", "done"}, Goto(v, at)
  PROVE  /\ lives' \in Seq(Life) /\ Len(lives') = Len(lives) /\ DOMAIN lives' = DOMAIN lives
         /\ \A w \in DOMAIN lives :
              /\ lives'[w].order = lives[w].order /\ lives'[w].held = lives[w].held
              /\ lives'[w].pc = IF w = v THEN at ELSE lives[w].pc
<1>1. lives \in Seq(Life) /\ lives[v] \in Life
  BY DEF BrokerTypeOK
<1> DEFINE life == [lives[v] EXCEPT !.pc = at]
<1>2. /\ life \in Life /\ life.order = lives[v].order /\ life.held = lives[v].held
      /\ life.pc = at
  BY <1>1 DEF Life
<1>3. lives' = [lives EXCEPT ![v] = life]
  BY DEF Goto
<1> HIDE DEF life
<1>4. QED
  BY <1>1, <1>2, <1>3

(* Lookups that failed for lifecycles of an id.                            *)
LostOf(o) == Cardinality({v \in lost : lives[v].order = o})

(* Lifecycles that only go on keep the counts they are in.                 *)
LEMMA SameLives ==
  ASSUME DOMAIN lives' = DOMAIN lives, lost \subseteq DOMAIN lives,
         \A w \in DOMAIN lives : lives'[w].order = lives[w].order,
         NEW o \in Orders
  PROVE  /\ Submits(o)' = Submits(o)
         /\ lost' = lost => LostOf(o)' = LostOf(o)
<1>1. {v \in DOMAIN lives' : lives'[v].order = o} = {v \in DOMAIN lives : lives[v].order = o}
  OBVIOUS
<1>2. {v \in lost : lives'[v].order = o} = {v \in lost : lives[v].order = o}
  OBVIOUS
<1>3. QED
  BY <1>1, <1>2 DEF Submits, LostOf

(* A new lifecycle counts as a submit of its id.                           *)
LEMMA MintCounts ==
  ASSUME BrokerTypeOK, LostEnded, NEW life \in Life, lives' = Append(lives, life),
         lost' = lost
  PROVE  /\ lives' \in Seq(Life) /\ Len(lives') = Len(lives) + 1
         /\ lives'[Len(lives) + 1] = life
         /\ \A w \in 1..Len(lives) : lives'[w] = lives[w]
         /\ \A o \in Orders :
              /\ Submits(o)' = Submits(o) + (IF life.order = o THEN 1 ELSE 0)
              /\ LostOf(o)' = LostOf(o)
<1> DEFINE n == Len(lives)
<1>1. /\ n \in Nat /\ DOMAIN lives = 1..n /\ DOMAIN lives' = 1..(n + 1)
      /\ lives' \in Seq(Life) /\ Len(lives') = n + 1
      /\ \A w \in 1..n : lives'[w] = lives[w]
      /\ lives'[n + 1] = life
  BY DEF BrokerTypeOK
<1> HIDE DEF n
<1>2. ASSUME NEW o \in Orders
      PROVE  /\ Submits(o)' = Submits(o) + (IF life.order = o THEN 1 ELSE 0)
             /\ LostOf(o)' = LostOf(o)
  <2> DEFINE S == {v \in DOMAIN lives : lives[v].order = o}
             R == {v \in DOMAIN lives' : lives'[v].order = o}
  <2>1. S \in SUBSET (1..n) /\ n + 1 \notin S
    BY <1>1
  <2>2. R = IF life.order = o THEN S \cup {n + 1} ELSE S
    <3>1. 1..(n + 1) = (1..n) \cup {n + 1}
      BY <1>1
    <3>2. QED
      BY <1>1, <3>1
  <2>3. Submits(o) = Cardinality(S) /\ Submits(o)' = Cardinality(R)
    BY DEF Submits
  <2>4. {v \in lost : lives'[v].order = o} = {v \in lost : lives[v].order = o}
    BY <1>1 DEF LostEnded, n
  <2>5. LostOf(o)' = LostOf(o)
    BY <2>4 DEF LostOf
  <2> HIDE DEF S, R
  <2>6. Cardinality(S) \in Nat /\ Cardinality(S \cup {n + 1}) = Cardinality(S) + 1
    BY <1>1, <2>1, CountUp
  <2>7. Cardinality(R) = Cardinality(S) + (IF life.order = o THEN 1 ELSE 0)
    BY <2>2, <2>6
  <2>8. QED
    BY <2>3, <2>5, <2>7
<1>3. QED
  BY <1>1, <1>2 DEF n

(* submit.                                                                 *)
LEMMA SubmitKeeps ==
  ASSUME PaidInv, MaxSubmits \in Nat, NEW o \in Orders, NEW ord \in OrderData,
         Submit(o, ord)
  PROVE  PaidInv'
<1> DEFINE life == [order |-> o, held |-> ord, pc |-> "SUBMITTED"]
<1>1. life \in Life /\ life.order = o /\ life.held = ord /\ life.pc = "SUBMITTED"
  BY DEF Life
<1>2. /\ ~IsOpen(o) /\ Len(lives) < MaxSubmits /\ lives' = Append(lives, life)
      /\ openOrders' = [openOrders EXCEPT ![o] = ord]
      /\ venueIdOf' = [venueIdOf EXCEPT ![o] = Len(lives) + 1]
      /\ UNCHANGED <<connected, emitted, stranded, lost>>
  BY DEF Submit, Mint
<1> HIDE DEF life
<1>3. /\ lives' \in Seq(Life) /\ Len(lives) \in Nat /\ Len(lives') = Len(lives) + 1
      /\ lives'[Len(lives) + 1] = life
      /\ \A w \in 1..Len(lives) : lives'[w] = lives[w]
      /\ \A p \in Orders :
           /\ Submits(p)' = Submits(p) + (IF p = o THEN 1 ELSE 0)
           /\ LostOf(p)' = LostOf(p)
  BY <1>1, <1>2, MintCounts DEF PaidInv, BrokerTypeOK
<1>4. \A p \in Orders :
        /\ openOrders'[p] = (IF p = o THEN ord ELSE openOrders[p])
        /\ venueIdOf'[p] = (IF p = o THEN Len(lives) + 1 ELSE venueIdOf[p])
  BY <1>2 DEF PaidInv, BrokerTypeOK
<1>5. BrokerTypeOK'
  BY <1>2, <1>3 DEF PaidInv, BrokerTypeOK, VenueIds
<1>6. CurrentWatches'
  <2> SUFFICES ASSUME NEW p \in Orders, IsOpen(p)'
               PROVE  /\ venueIdOf'[p] \in 1..Len(lives') /\ lives'[venueIdOf'[p]].order = p
                      /\ lives'[venueIdOf'[p]].held.type = openOrders'[p].type
                      /\ p \notin stranded /\ openOrders'[p].type = "MKT" =>
                           lives'[venueIdOf'[p]].pc # "done"
    BY <1>2 DEF CurrentWatches
  <2>1. CASE p = o
    BY <1>1, <1>3, <1>4, <2>1
  <2>2. CASE p # o
    <3>1. IsOpen(p) /\ openOrders'[p] = openOrders[p] /\ venueIdOf'[p] = venueIdOf[p]
      BY <1>4, <2>2 DEF IsOpen, NotOpen
    <3>2. /\ venueIdOf[p] \in 1..Len(lives) /\ lives'[venueIdOf[p]] = lives[venueIdOf[p]]
      BY <1>3, <3>1 DEF PaidInv, CurrentWatches
    <3>3. QED
      BY <1>3, <3>1, <3>2 DEF PaidInv, CurrentWatches
  <2>3. QED
    BY <2>1, <2>2
<1>7. LostEnded'
  BY <1>2, <1>3 DEF PaidInv, LostEnded
<1>8. OneTerminalPerSubmit'
  <2> SUFFICES ASSUME NEW p \in Orders
               PROVE  Submits(p)' = Terminals(p)' + (IF IsOpen(p)' THEN 1 ELSE 0) + LostOf(p)'
    BY DEF OneTerminalPerSubmit, LostOf
  <2>1. /\ Submits(p) = Terminals(p) + (IF IsOpen(p) THEN 1 ELSE 0) + LostOf(p)
        /\ Submits(p) \in Nat /\ Terminals(p) \in Nat /\ LostOf(p) \in Nat
    BY CountsAreNat DEF PaidInv, OneTerminalPerSubmit, LostOf
  <2>2. Terminals(p)' = Terminals(p)
    BY <1>2 DEF Terminals, TerminalKinds
  <2>3. IsOpen(p)' = (p = o \/ IsOpen(p))
    BY <1>4, OpenFacts DEF IsOpen, NotOpen
  <2>4. CASE p = o
    <3>1. ~IsOpen(p) /\ IsOpen(p)'
      BY <1>2, <2>3, <2>4
    <3>2. QED
      BY <1>3, <2>1, <2>2, <2>4, <3>1
  <2>5. CASE p # o
    <3>1. IsOpen(p)' = IsOpen(p)
      BY <2>3, <2>5 DEF IsOpen
    <3>2. QED
      BY <1>3, <2>1, <2>2, <2>5, <3>1
  <2>6. QED
    BY <2>4, <2>5
<1>9. QED
  BY <1>5, <1>6, <1>7, <1>8 DEF PaidInv

(* A lifecycle goes on, or ends without an order to watch.                 *)
LEMMA LifeKeeps ==
  ASSUME PaidInv, NEW v \in DOMAIN lives, lives[v].pc # "done",
         NEW at \in {"SUBMITTED", "ACCEPTED", "FILLED", "done"}, Goto(v, at),
         at = "done" => ~IsOpen(lives[v].order) \/ lives[v].held.type # "MKT",
         UNCHANGED <<connected, openOrders, venueIdOf, stranded, lost>>,
         emitted' \in [Orders -> Seq(Events)],
         \A o \in Orders : Terminals(o)' = Terminals(o)
  PROVE  PaidInv'
<1>1. /\ lives' \in Seq(Life) /\ Len(lives') = Len(lives) /\ DOMAIN lives' = DOMAIN lives
      /\ Len(lives) \in Nat /\ DOMAIN lives = 1..Len(lives)
      /\ \A w \in DOMAIN lives :
           /\ lives'[w].order = lives[w].order /\ lives'[w].held = lives[w].held
           /\ lives'[w].pc = IF w = v THEN at ELSE lives[w].pc
  BY GotoFacts DEF PaidInv, BrokerTypeOK
<1>2. BrokerTypeOK'
  BY <1>1 DEF PaidInv, BrokerTypeOK
<1>3. LostEnded'
  BY <1>1 DEF PaidInv, LostEnded
<1>4. CurrentWatches'
  <2> SUFFICES ASSUME NEW o \in Orders, IsOpen(o)
               PROVE  /\ venueIdOf[o] \in 1..Len(lives') /\ lives'[venueIdOf[o]].order = o
                      /\ lives'[venueIdOf[o]].held.type = openOrders[o].type
                      /\ o \notin stranded /\ openOrders[o].type = "MKT" =>
                           lives'[venueIdOf[o]].pc # "done"
    BY DEF CurrentWatches, IsOpen
  <2>1. /\ venueIdOf[o] \in 1..Len(lives) /\ lives[venueIdOf[o]].order = o
        /\ lives[venueIdOf[o]].held.type = openOrders[o].type
        /\ o \notin stranded /\ openOrders[o].type = "MKT" => lives[venueIdOf[o]].pc # "done"
    BY DEF PaidInv, CurrentWatches
  <2>2. QED
    BY <1>1, <2>1
<1>5. OneTerminalPerSubmit'
  <2> SUFFICES ASSUME NEW o \in Orders
               PROVE  Submits(o)' = Terminals(o)' + (IF IsOpen(o) THEN 1 ELSE 0) + LostOf(o)'
    BY DEF OneTerminalPerSubmit, LostOf, IsOpen
  <2>1. lost \subseteq DOMAIN lives
    BY <1>1 DEF PaidInv, LostEnded
  <2>2. Submits(o)' = Submits(o) /\ LostOf(o)' = LostOf(o)
    BY <1>1, <2>1, SameLives
  <2>3. Submits(o) = Terminals(o) + (IF IsOpen(o) THEN 1 ELSE 0) + LostOf(o)
    BY DEF PaidInv, OneTerminalPerSubmit, LostOf
  <2>4. QED
    BY <2>2, <2>3
<1>6. QED
  BY <1>2, <1>3, <1>4, <1>5 DEF PaidInv

(* The four ways a lifecycle goes on.                                      *)
LEMMA LifecycleKeeps ==
  ASSUME PaidInv, NEW v \in VenueIds,
         ExitSilently(v) \/ PutSubmitted(v) \/ PutAccepted(v)
  PROVE  PaidInv'
<1>1. /\ v \in DOMAIN lives /\ lives[v].pc # "done" /\ lives[v].order \in Orders
      /\ lives[v] \in Life
      /\ UNCHANGED <<connected, openOrders, venueIdOf, stranded, lost>>
  <2>1. /\ v \in DOMAIN lives /\ lives[v].pc # "done"
        /\ UNCHANGED <<connected, openOrders, venueIdOf, stranded, lost>>
    BY DEF ExitSilently, PutSubmitted, PutAccepted, Wakes
  <2>2. lives \in Seq(Life)
    BY DEF PaidInv, BrokerTypeOK
  <2>3. lives[v] \in Life
    BY <2>1, <2>2
  <2>4. lives[v].order \in Orders
    BY <2>3 DEF Life
  <2>5. QED
    BY <2>1, <2>3, <2>4
<1>2. ASSUME NEW ev \in Events, ev.kind \notin TerminalKinds, Put(lives[v].order, ev)
      PROVE  /\ emitted' \in [Orders -> Seq(Events)]
             /\ \A o \in Orders : Terminals(o)' = Terminals(o)
  <2>1. /\ emitted' \in [Orders -> Seq(Events)]
        /\ \A o \in Orders : Terminals(o)' = Terminals(o) + 0
    BY <1>1, <1>2, PutCounts DEF PaidInv
  <2>2. \A o \in Orders : Terminals(o) \in Nat
    BY CountsAreNat DEF PaidInv
  <2>3. QED
    BY <2>1, <2>2
<1>3. CASE ExitSilently(v)
  <2>1. Goto(v, "done") /\ ~IsOpen(lives[v].order) /\ emitted' = emitted
    BY <1>3 DEF ExitSilently, StillOpen
  <2>2. \A o \in Orders : Terminals(o)' = Terminals(o)
    BY <2>1 DEF Terminals, TerminalKinds
  <2>3. QED
    BY <1>1, <2>1, <2>2, LifeKeeps DEF PaidInv, BrokerTypeOK
<1>4. CASE PutSubmitted(v)
  <2> DEFINE ev == Event("SUBMITTED", v, 0)
  <2>1. Goto(v, "ACCEPTED") /\ Put(lives[v].order, ev)
    BY <1>4 DEF PutSubmitted
  <2>2. ev \in Events /\ ev.kind \notin TerminalKinds
    BY DEF Event, Events, TerminalKinds
  <2> HIDE DEF ev
  <2>3. QED
    BY <1>1, <1>2, <2>1, <2>2, LifeKeeps
<1>5. CASE PutAccepted(v)
  <2> DEFINE ev == Event("ACCEPTED", v, 0)
  <2>1. Goto(v, AfterAccept(v)) /\ Put(lives[v].order, ev)
    BY <1>5 DEF PutAccepted
  <2>2. ev \in Events /\ ev.kind \notin TerminalKinds
    BY DEF Event, Events, TerminalKinds
  <2> HIDE DEF ev
  <2>3. /\ AfterAccept(v) \in {"FILLED", "done"}
        /\ AfterAccept(v) = "done" => lives[v].held.type # "MKT"
    BY DEF AfterAccept
  <2>4. QED
    BY <1>1, <1>2, <2>1, <2>2, <2>3, LifeKeeps
<1>6. QED
  BY <1>3, <1>4, <1>5

(* An order leaves the book, paid by a terminal event or a failed lookup.  *)
LEMMA CloseKeeps ==
  ASSUME PaidInv, NEW o \in Orders, IsOpen(o),
         openOrders' = [openOrders EXCEPT ![o] = NotOpen], stranded' = stranded \ {o},
         UNCHANGED <<connected, venueIdOf>>,
         lives' \in Seq(Life), Len(lives') = Len(lives),
         \A w \in DOMAIN lives :
           /\ lives'[w].order = lives[w].order /\ lives'[w].held = lives[w].held
           /\ lives'[w].pc = lives[w].pc \/ lives[w].order = o,
         emitted' \in [Orders -> Seq(Events)], lost' \subseteq VenueIds, LostEnded',
         \A p \in Orders :
           /\ Submits(p)' = Submits(p)
           /\ Terminals(p)' + LostOf(p)' = Terminals(p) + LostOf(p) + (IF p = o THEN 1 ELSE 0)
           /\ Terminals(p)' \in Nat /\ LostOf(p)' \in Nat
  PROVE  PaidInv'
<1>1. /\ \A p \in Orders : openOrders'[p] = IF p = o THEN NotOpen ELSE openOrders[p]
      /\ \A p \in Orders : IsOpen(p)' <=> (IsOpen(p) /\ p # o)
  BY DEF PaidInv, BrokerTypeOK, IsOpen, NotOpen
<1>2. BrokerTypeOK'
  BY DEF PaidInv, BrokerTypeOK, NotOpen
<1>3. CurrentWatches'
  <2> SUFFICES ASSUME NEW p \in Orders, IsOpen(p)'
               PROVE  /\ venueIdOf[p] \in 1..Len(lives') /\ lives'[venueIdOf[p]].order = p
                      /\ lives'[venueIdOf[p]].held.type = openOrders'[p].type
                      /\ p \notin stranded' /\ openOrders'[p].type = "MKT" =>
                           lives'[venueIdOf[p]].pc # "done"
    BY DEF CurrentWatches
  <2>1. IsOpen(p) /\ p # o /\ openOrders'[p] = openOrders[p]
    BY <1>1
  <2>2. /\ venueIdOf[p] \in 1..Len(lives) /\ lives[venueIdOf[p]].order = p
        /\ lives[venueIdOf[p]].held.type = openOrders[p].type
        /\ p \notin stranded /\ openOrders[p].type = "MKT" => lives[venueIdOf[p]].pc # "done"
    BY <2>1 DEF PaidInv, CurrentWatches
  <2>3. venueIdOf[p] \in DOMAIN lives
    BY <2>2 DEF PaidInv, BrokerTypeOK
  <2>4. QED
    BY <2>1, <2>2, <2>3
<1>4. OneTerminalPerSubmit'
  <2> SUFFICES ASSUME NEW p \in Orders
               PROVE  Submits(p)' = Terminals(p)' + (IF IsOpen(p)' THEN 1 ELSE 0) + LostOf(p)'
    BY DEF OneTerminalPerSubmit, LostOf
  <2>1. /\ Submits(p) = Terminals(p) + (IF IsOpen(p) THEN 1 ELSE 0) + LostOf(p)
        /\ Submits(p) \in Nat /\ Terminals(p) \in Nat /\ LostOf(p) \in Nat
    BY CountsAreNat DEF PaidInv, OneTerminalPerSubmit, LostOf
  <2>2. CASE p = o
    <3>1. IsOpen(p) /\ ~IsOpen(p)'
      BY <1>1, <2>2
    <3>2. QED
      BY <2>1, <2>2, <3>1
  <2>3. CASE p # o
    <3>1. IsOpen(p)' <=> IsOpen(p)
      BY <1>1, <2>3
    <3>2. QED
      BY <2>1, <2>3, <3>1
  <2>4. QED
    BY <2>2, <2>3
<1>5. QED
  BY <1>2, <1>3, <1>4 DEF PaidInv

(* A lookup that fails is lost for the id of its lifecycle.                *)
LEMMA LostCounts ==
  ASSUME BrokerTypeOK, LostEnded, NEW v \in DOMAIN lives, v \notin lost, lost' = lost \cup {v},
         \A w \in DOMAIN lives : lives'[w].order = lives[w].order,
         NEW o \in Orders
  PROVE  LostOf(o)' = LostOf(o) + (IF lives[v].order = o THEN 1 ELSE 0)
<1> DEFINE S == {w \in lost : lives[w].order = o}
           R == {w \in lost' : lives'[w].order = o}
           n == Len(lives)
<1>1. n \in Nat /\ DOMAIN lives = 1..n /\ lost \subseteq 1..n
  BY DEF BrokerTypeOK, LostEnded
<1>2. S \in SUBSET (1..n) /\ v \notin S
  BY <1>1
<1>3. R = IF lives[v].order = o THEN S \cup {v} ELSE S
  BY <1>1
<1>4. LostOf(o) = Cardinality(S) /\ LostOf(o)' = Cardinality(R)
  BY DEF LostOf
<1> HIDE DEF S, R, n
<1>5. Cardinality(S) \in Nat /\ Cardinality(S \cup {v}) = Cardinality(S) + 1
  BY <1>1, <1>2, CountUp
<1>6. QED
  BY <1>3, <1>4, <1>5

(* cancel, and the two ends of the lifecycle of a market order.            *)
LEMMA EndsKeep ==
  ASSUME PaidInv,
         \/ \E o \in Orders : Cancel(o)
         \/ \E v \in VenueIds : PutFilled(v) \/ PriceLookupFails(v)
  PROVE  PaidInv'
<1>1. /\ lives \in Seq(Life) /\ lost \subseteq DOMAIN lives /\ lost \subseteq VenueIds
      /\ DOMAIN lives = 1..Len(lives)
      /\ \A o \in Orders : Submits(o) \in Nat /\ Terminals(o) \in Nat /\ LostOf(o) \in Nat
  <2>1. /\ lives \in Seq(Life) /\ lost \subseteq VenueIds
        /\ \A v \in lost : v \in 1..Len(lives)
    BY DEF PaidInv, BrokerTypeOK, LostEnded
  <2>2. \A o \in Orders : Submits(o) \in Nat /\ Terminals(o) \in Nat /\ LostOf(o) \in Nat
    BY CountsAreNat DEF PaidInv, LostOf
  <2>3. QED
    BY <2>1, <2>2
<1>2. ASSUME NEW o \in Orders, Cancel(o)
      PROVE  PaidInv'
  <2> DEFINE ev == Event("CANCELED", venueIdOf[o], 0)
  <2>1. /\ IsOpen(o) /\ openOrders' = [openOrders EXCEPT ![o] = NotOpen] /\ Put(o, ev)
        /\ stranded' = stranded \ {o} /\ UNCHANGED <<connected, venueIdOf, lives, lost>>
    BY <1>2 DEF Cancel
  <2>2. venueIdOf[o] \in VenueIds
    BY <2>1 DEF PaidInv, CurrentWatches, BrokerTypeOK, VenueIds
  <2>3. ev \in Events /\ ev.kind \in TerminalKinds
    BY <2>2 DEF Event, Events, TerminalKinds
  <2> HIDE DEF ev
  <2>4. /\ emitted' \in [Orders -> Seq(Events)]
        /\ \A p \in Orders : Terminals(p)' = Terminals(p) + (IF p = o THEN 1 ELSE 0)
    BY <2>1, <2>3, PutCounts DEF PaidInv
  <2>5. \A p \in Orders : Submits(p)' = Submits(p) /\ LostOf(p)' = LostOf(p)
    BY <1>1, <2>1, SameLives
  <2>6. LostEnded'
    BY <2>1 DEF PaidInv, LostEnded
  <2>7. \A p \in Orders :
          /\ Terminals(p)' + LostOf(p)'
               = Terminals(p) + LostOf(p) + (IF p = o THEN 1 ELSE 0)
          /\ Terminals(p)' \in Nat /\ LostOf(p)' \in Nat
    <3> TAKE p \in Orders
    <3>1. /\ Terminals(p)' = Terminals(p) + (IF p = o THEN 1 ELSE 0)
          /\ LostOf(p)' = LostOf(p) /\ Terminals(p) \in Nat /\ LostOf(p) \in Nat
      BY <1>1, <2>4, <2>5
    <3>2. QED
      BY <3>1
  <2>8. QED
    BY <1>1, <2>1, <2>4, <2>5, <2>6, <2>7, CloseKeeps
<1>3. ASSUME NEW v \in VenueIds, PutFilled(v) \/ PriceLookupFails(v)
      PROVE  PaidInv'
  <2> DEFINE o == lives[v].order
  <2>1. /\ v \in DOMAIN lives /\ lives[v].pc = "FILLED" /\ Goto(v, "done") /\ IsOpen(o)
        /\ openOrders' = [openOrders EXCEPT ![o] = NotOpen]
        /\ stranded' = stranded \ {o} /\ UNCHANGED <<connected, venueIdOf>>
    BY <1>3 DEF PutFilled, PriceLookupFails, Wakes, StillOpen, Close
  <2>2. lives[v] \in Life
    BY <1>1, <2>1
  <2>3. o \in Orders /\ lives[v].held.qty \in Quantities
    BY <2>2 DEF Life, OrderData
  <2>4. /\ lives' \in Seq(Life) /\ Len(lives') = Len(lives) /\ DOMAIN lives' = DOMAIN lives
        /\ \A w \in DOMAIN lives :
             /\ lives'[w].order = lives[w].order /\ lives'[w].held = lives[w].held
             /\ lives'[w].pc = IF w = v THEN "done" ELSE lives[w].pc
    BY <2>1, GotoFacts DEF PaidInv
  <2>5. v \notin lost
    BY <2>1 DEF PaidInv, LostEnded
  <2>6. \A p \in Orders : /\ Submits(p)' = Submits(p)
                          /\ lost' = lost => LostOf(p)' = LostOf(p)
    BY <1>1, <2>4, SameLives
  <2>7. CASE PutFilled(v)
    <3> DEFINE ev == Event("FILLED", v, lives[v].held.qty)
    <3>1. Put(o, ev) /\ lost' = lost
      BY <2>7 DEF PutFilled
    <3>2. ev \in Events /\ ev.kind \in TerminalKinds
      BY <2>3 DEF Event, Events, TerminalKinds
    <3> HIDE DEF ev
    <3>3. /\ emitted' \in [Orders -> Seq(Events)]
          /\ \A p \in Orders : Terminals(p)' = Terminals(p) + (IF p = o THEN 1 ELSE 0)
      BY <2>3, <3>1, <3>2, PutCounts DEF PaidInv
    <3>4. LostEnded'
      BY <1>1, <2>4, <3>1 DEF PaidInv, LostEnded
    <3>5. \A p \in Orders :
            /\ Terminals(p)' + LostOf(p)'
                 = Terminals(p) + LostOf(p) + (IF p = o THEN 1 ELSE 0)
            /\ Terminals(p)' \in Nat /\ LostOf(p)' \in Nat
      BY <1>1, <2>6, <3>1, <3>3
    <3> HIDE DEF o
    <3>6. QED
      BY <1>1, <2>1, <2>3, <2>4, <2>6, <3>1, <3>3, <3>4, <3>5, CloseKeeps DEF o
  <2>8. CASE PriceLookupFails(v)
    <3>1. lost' = lost \cup {v} /\ emitted' = emitted
      BY <2>8 DEF PriceLookupFails
    <3>2. \A p \in Orders : Terminals(p)' = Terminals(p)
      BY <3>1 DEF Terminals, TerminalKinds
    <3>3. LostEnded'
      BY <1>1, <2>1, <2>4, <3>1 DEF PaidInv, LostEnded
    <3>4. \A p \in Orders : LostOf(p)' = LostOf(p) + (IF p = o THEN 1 ELSE 0)
      BY <2>1, <2>4, <2>5, <3>1, LostCounts DEF PaidInv
    <3>5. \A p \in Orders :
            /\ Terminals(p)' + LostOf(p)'
                 = Terminals(p) + LostOf(p) + (IF p = o THEN 1 ELSE 0)
            /\ Terminals(p)' \in Nat /\ LostOf(p)' \in Nat
      BY <1>1, <3>2, <3>4
    <3>6. emitted' \in [Orders -> Seq(Events)] /\ lost' \subseteq VenueIds
      BY <1>1, <3>1 DEF PaidInv, BrokerTypeOK
    <3>7. QED
      BY <1>1, <2>1, <2>3, <2>4, <2>6, <3>3, <3>5, <3>6, CloseKeeps
  <2>9. QED
    BY <1>3, <2>7, <2>8
<1>4. QED
  BY <1>2, <1>3

(* disconnect cancels every lifecycle and strands what is open.            *)
LEMMA DisconnectKeeps ==
  ASSUME PaidInv, Disconnect
  PROVE  PaidInv'
<1>1. /\ lives' = [v \in DOMAIN lives |-> [lives[v] EXCEPT !.pc = "done"]]
      /\ connected' = FALSE /\ stranded' = {o \in Orders : IsOpen(o)}
      /\ UNCHANGED <<openOrders, venueIdOf, emitted, lost>>
  BY DEF Disconnect, CancelLives
<1>2. lives \in Seq(Life) /\ Len(lives) \in Nat /\ DOMAIN lives = 1..Len(lives)
  BY DEF PaidInv, BrokerTypeOK
<1>3. \A w \in DOMAIN lives :
        /\ lives'[w] \in Life /\ lives'[w].pc = "done"
        /\ lives'[w].order = lives[w].order /\ lives'[w].held = lives[w].held
  <2> TAKE w \in DOMAIN lives
  <2>1. lives[w] \in Life /\ lives'[w] = [lives[w] EXCEPT !.pc = "done"]
    BY <1>1, <1>2
  <2>2. QED
    BY <2>1 DEF Life
<1>4. lives' \in Seq(Life) /\ Len(lives') = Len(lives) /\ DOMAIN lives' = DOMAIN lives
  <2>1. lives' \in [1..Len(lives) -> Life]
    BY <1>1, <1>2, <1>3
  <2>2. QED
    BY <1>2, <2>1
<1>5. BrokerTypeOK'
  BY <1>1, <1>4 DEF PaidInv, BrokerTypeOK
<1>6. LostEnded'
  BY <1>1, <1>2, <1>3, <1>4 DEF PaidInv, LostEnded
<1>7. CurrentWatches'
  <2> SUFFICES ASSUME NEW o \in Orders, IsOpen(o)
               PROVE  /\ venueIdOf[o] \in 1..Len(lives') /\ lives'[venueIdOf[o]].order = o
                      /\ lives'[venueIdOf[o]].held.type = openOrders[o].type
                      /\ o \in stranded'
    BY <1>1 DEF CurrentWatches, IsOpen
  <2>1. /\ venueIdOf[o] \in 1..Len(lives) /\ lives[venueIdOf[o]].order = o
        /\ lives[venueIdOf[o]].held.type = openOrders[o].type
    BY DEF PaidInv, CurrentWatches
  <2>2. QED
    BY <1>1, <1>2, <1>3, <1>4, <2>1
<1>8. OneTerminalPerSubmit'
  <2> SUFFICES ASSUME NEW o \in Orders
               PROVE  Submits(o)' = Terminals(o)' + (IF IsOpen(o) THEN 1 ELSE 0) + LostOf(o)'
    BY <1>1 DEF OneTerminalPerSubmit, LostOf, IsOpen
  <2>1. lost \subseteq DOMAIN lives
    BY <1>2 DEF PaidInv, LostEnded
  <2>2. Submits(o)' = Submits(o) /\ LostOf(o)' = LostOf(o)
    BY <1>1, <1>3, <1>4, <2>1, SameLives
  <2>3. Terminals(o)' = Terminals(o)
    BY <1>1 DEF Terminals, TerminalKinds
  <2>4. Submits(o) = Terminals(o) + (IF IsOpen(o) THEN 1 ELSE 0) + LostOf(o)
    BY DEF PaidInv, OneTerminalPerSubmit, LostOf
  <2>5. QED
    BY <2>2, <2>3, <2>4
<1>9. QED
  BY <1>5, <1>6, <1>7, <1>8 DEF PaidInv

(* connect and replace leave lifecycles and events alone, and open orders  *)
(* open.                                                                   *)
LEMMA ReplaceKeeps ==
  ASSUME PaidInv,
         \/ UNCHANGED brokerVars \/ Connect
         \/ \E o \in Orders, qty \in Quantities : Replace(o, qty)
  PROVE  PaidInv'
<1> DEFINE SameBook ==
             /\ UNCHANGED <<venueIdOf, lives, emitted, stranded, lost>>
             /\ connected' \in BOOLEAN
             /\ openOrders' \in [Orders -> OrderData \cup {NotOpen}]
             /\ \A o \in Orders : /\ IsOpen(o)' <=> IsOpen(o)
                                  /\ openOrders'[o].type = openOrders[o].type
<1>1. SameBook
  <2>1. CASE UNCHANGED brokerVars \/ Connect
    BY <2>1 DEF brokerVars, Connect, PaidInv, BrokerTypeOK, IsOpen
  <2>2. ASSUME NEW o \in Orders, NEW qty \in Quantities, Replace(o, qty)
        PROVE  SameBook
    <3> DEFINE ord == [openOrders[o] EXCEPT !.qty = qty]
    <3>1. openOrders[o] \in OrderData
      BY <2>2 DEF Replace, IsOpen, PaidInv, BrokerTypeOK
    <3>2. ord \in OrderData /\ ord.type = openOrders[o].type
      BY <3>1 DEF OrderData
    <3>3. /\ openOrders' = [openOrders EXCEPT ![o] = ord] /\ IsOpen(o)
          /\ UNCHANGED <<connected, venueIdOf, lives, emitted, stranded, lost>>
      BY <2>2 DEF Replace
    <3> HIDE DEF ord
    <3>4. QED
      BY <3>2, <3>3, OpenFacts DEF PaidInv, BrokerTypeOK, IsOpen
  <2>3. QED
    BY <2>1, <2>2
<1>2. BrokerTypeOK' /\ LostEnded'
  BY <1>1 DEF PaidInv, BrokerTypeOK, LostEnded
<1>3. CurrentWatches'
  BY <1>1 DEF PaidInv, CurrentWatches
<1>4. OneTerminalPerSubmit'
  <2> SUFFICES ASSUME NEW o \in Orders
               PROVE  Submits(o)' = Terminals(o)' + (IF IsOpen(o)' THEN 1 ELSE 0) + LostOf(o)'
    BY DEF OneTerminalPerSubmit, LostOf
  <2>1. Submits(o)' = Submits(o) /\ LostOf(o)' = LostOf(o) /\ Terminals(o)' = Terminals(o)
    BY <1>1 DEF Submits, LostOf, Terminals, TerminalKinds
  <2>2. Submits(o) = Terminals(o) + (IF IsOpen(o) THEN 1 ELSE 0) + LostOf(o)
    BY DEF PaidInv, OneTerminalPerSubmit, LostOf
  <2>3. IsOpen(o)' <=> IsOpen(o)
    BY <1>1
  <2>4. CASE IsOpen(o)
    BY <2>1, <2>2, <2>3, <2>4
  <2>5. CASE ~IsOpen(o)
    BY <2>1, <2>2, <2>3, <2>5
  <2>6. QED
    BY <2>4, <2>5
<1>5. QED
  BY <1>2, <1>3, <1>4 DEF PaidInv

(* Nothing has been submitted yet.                                         *)
LEMMA InitPaid == MaxSubmits \in Nat /\ BrokerInit => PaidInv
<1> SUFFICES ASSUME MaxSubmits \in Nat, BrokerInit
             PROVE  PaidInv
  OBVIOUS
<1>1. BrokerTypeOK
  <2>1. <<>> \in Seq(Life) /\ Len(<<>>) = 0 /\ <<>> \in Seq(Events)
    OBVIOUS
  <2>2. /\ lives \in Seq(Life) /\ Len(lives) <= MaxSubmits
        /\ emitted \in [Orders -> Seq(Events)]
    BY <2>1 DEF BrokerInit
  <2>3. /\ connected \in BOOLEAN /\ openOrders \in [Orders -> OrderData \cup {NotOpen}]
        /\ venueIdOf \in [Orders -> VenueIds \cup {0}]
        /\ stranded \subseteq Orders /\ lost \subseteq VenueIds
    BY DEF BrokerInit
  <2>4. QED
    BY <2>2, <2>3 DEF BrokerTypeOK
<1>2. CurrentWatches /\ LostEnded
  BY DEF BrokerInit, CurrentWatches, IsOpen, LostEnded
<1>3. OneTerminalPerSubmit
  <2> SUFFICES ASSUME NEW o \in Orders
               PROVE  /\ Submits(o) = 0 /\ Terminals(o) = 0 /\ ~IsOpen(o)
                      /\ Cardinality({v \in lost : lives[v].order = o}) = 0
    BY DEF OneTerminalPerSubmit
  <2>1. /\ {v \in DOMAIN lives : lives[v].order = o} = {}
        /\ {i \in DOMAIN emitted[o] : emitted[o][i].kind \in TerminalKinds} = {}
        /\ {v \in lost : lives[v].order = o} = {} /\ ~IsOpen(o)
    BY DEF BrokerInit, IsOpen
  <2>2. Cardinality({}) = 0
    BY FS_EmptySet
  <2>3. Submits(o) = Cardinality({}) /\ Terminals(o) = Cardinality({})
    BY <2>1 DEF Submits, Terminals
  <2>4. QED
    BY <2>1, <2>2, <2>3
<1>4. QED
  BY <1>1, <1>2, <1>3 DEF PaidInv

LEMMA PaidAlways ==
  ASSUME MaxSubmits \in Nat
  PROVE  BrokerSpec => []PaidInv
<1>1. BrokerInit => PaidInv
  BY InitPaid
<1>2. ASSUME PaidInv, [BrokerNext]_brokerVars PROVE PaidInv'
  BY <1>2, ReplaceKeeps, DisconnectKeeps, EndsKeep, SubmitKeeps, LifecycleKeeps
     DEF BrokerNext, LifecycleStep
<1>3. QED
  BY <1>1, <1>2, PTL DEF BrokerSpec

(* Whatever submits, cancels, replaces, failed lookups and reconnects come *)
(* between the steps of the lifecycles, each accepted submit of an id is   *)
(* paid by one terminal event or is still to be paid, and an open order is *)
(* watched, rests, or was open at a disconnect (broker.py submit, cancel,  *)
(* _lifecycle, disconnect).                                                *)
THEOREM SubmitsArePaid ==
  ASSUME MaxSubmits \in Nat
  PROVE  BrokerSpec => []BookInv
<1>1. BrokerSpec => []PaidInv
  BY PaidAlways
<1>2. ASSUME PaidInv PROVE BookInv
  <2> SUFFICES ASSUME NEW o \in Orders, IsOpen(o), o \notin stranded,
                      openOrders[o].type # "LMT"
               PROVE  \E v \in DOMAIN lives : lives[v].order = o /\ lives[v].pc # "done"
    BY <1>2 DEF BookInv, OpenIsWatched, PaidInv
  <2>1. openOrders[o] \in OrderData
    BY <1>2 DEF PaidInv, BrokerTypeOK, IsOpen
  <2>2. openOrders[o].type = "MKT"
    BY <2>1, OpenFacts
  <2>3. venueIdOf[o] \in 1..Len(lives) /\ DOMAIN lives = 1..Len(lives)
    BY <1>2 DEF PaidInv, CurrentWatches, BrokerTypeOK
  <2>4. QED
    BY <1>2, <2>2, <2>3 DEF PaidInv, CurrentWatches
<1>3. QED
  BY <1>1, <1>2, PTL
-----------------------------------------------------------------------------
(* The streams of the paper broker.  While an id submitted once is in the  *)
(* book, its lifecycle has put what it was to put before its present sleep *)
(* (Along); an older lifecycle of the same id would break that, and such   *)
(* ids the property excepts.                                               *)
LastKind(o) == emitted[o][Len(emitted[o])].kind

Sole(v) == \A u \in DOMAIN lives : lives[u].order = lives[v].order => u = v

Along(v) ==
  LET o == lives[v].order IN
  /\ lives[v].pc = "SUBMITTED" => emitted[o] = <<>>
  /\ lives[v].pc = "ACCEPTED" => emitted[o] # <<>> /\ LastKind(o) = "SUBMITTED"
  /\ lives[v].pc = "FILLED" => emitted[o] # <<>> /\ LastKind(o) = "ACCEPTED"
  /\ emitted[o] # <<>> => LastKind(o) \in {"SUBMITTED", "ACCEPTED"}

Unheard(o) == (\A u \in DOMAIN lives : lives[u].order # o) => emitted[o] = <<>>

AlongInv ==
  /\ \A o \in Orders : Unheard(o)
  /\ \A v \in DOMAIN lives : Sole(v) /\ IsOpen(lives[v].order) => Along(v)

LEMMA LivesHaveOrders ==
  ASSUME BrokerTypeOK
  PROVE  \A v \in DOMAIN lives : lives[v].order \in Orders
<1> SUFFICES ASSUME NEW v \in DOMAIN lives PROVE lives[v].order \in Orders
  OBVIOUS
<1>1. lives[v] \in Life
  BY DEF BrokerTypeOK
<1>2. QED
  BY <1>1 DEF Life

LEMMA OpenHasLife ==
  ASSUME PaidInv, NEW o \in Orders, IsOpen(o)
  PROVE  \E v \in DOMAIN lives : lives[v].order = o
<1>1. venueIdOf[o] \in 1..Len(lives) /\ lives[venueIdOf[o]].order = o
  BY DEF PaidInv, CurrentWatches
<1>2. DOMAIN lives = 1..Len(lives)
  BY DEF PaidInv, BrokerTypeOK
<1>3. QED
  BY <1>1, <1>2

LEMMA TwoSubmits ==
  ASSUME BrokerTypeOK, NEW o \in Orders, NEW u \in DOMAIN lives, NEW v \in DOMAIN lives,
         lives[u].order = o, lives[v].order = o, u # v
  PROVE  Submits(o) > 1
<1> DEFINE S == {w \in DOMAIN lives : lives[w].order = o}
<1>1. DOMAIN lives = 1..Len(lives) /\ Len(lives) \in Nat
  BY DEF BrokerTypeOK
<1>2. IsFiniteSet(S)
  <2>1. IsFiniteSet(1..Len(lives)) /\ S \subseteq 1..Len(lives)
    BY <1>1, FS_Interval
  <2> HIDE DEF S
  <2>2. QED
    BY <2>1, FS_Subset
<1>3. Cardinality({u}) = 1 /\ IsFiniteSet({u})
  BY FS_Singleton
<1>4. Cardinality({u} \cup {v}) = 2
  BY <1>3, FS_AddElement
<1>5. {u} \cup {v} \subseteq S
  OBVIOUS
<1>6. Submits(o) = Cardinality(S)
  BY DEF Submits
<1> HIDE DEF S
<1>7. Cardinality({u} \cup {v}) <= Cardinality(S) /\ Cardinality(S) \in Nat
  BY <1>2, <1>5, FS_Subset, FS_CardinalityType
<1>8. QED
  BY <1>4, <1>6, <1>7

(* What a step puts ends the stream it is put in, and no other changes.    *)
LEMMA PutEnds ==
  ASSUME BrokerTypeOK, NEW o \in Orders, NEW ev, Put(o, ev)
  PROVE  /\ emitted'[o] # <<>> /\ emitted'[o][Len(emitted'[o])] = ev
         /\ \A p \in Orders : p # o => emitted'[p] = emitted[p]
<1>1. /\ emitted[o] \in Seq(Events) /\ emitted'[o] = Append(emitted[o], ev)
      /\ \A p \in Orders : p # o => emitted'[p] = emitted[p]
  BY DEF BrokerTypeOK, Put
<1>2. QED
  BY <1>1

(* A new lifecycle, alone on its id, has put nothing yet.                  *)
LEMMA SubmitAlong ==
  ASSUME PaidInv, AlongInv, NEW o \in Orders, NEW ord \in OrderData, Submit(o, ord)
  PROVE  AlongInv'
<1> DEFINE n == Len(lives)
           life == [order |-> o, held |-> ord, pc |-> "SUBMITTED"]
<1>1. /\ n \in Nat /\ DOMAIN lives = 1..n /\ DOMAIN lives' = 1..(n + 1)
      /\ \A w \in 1..n : lives'[w] = lives[w]
      /\ lives'[n + 1] = life
  BY DEF Submit, PaidInv, BrokerTypeOK
<1>2. emitted' = emitted /\ \A p \in Orders : p # o => (IsOpen(p)' <=> IsOpen(p))
  BY DEF Submit, IsOpen, PaidInv, BrokerTypeOK
<1> HIDE DEF n
<1>3. ASSUME NEW p \in Orders PROVE Unheard(p)'
  <2> SUFFICES ASSUME \A u \in DOMAIN lives' : lives'[u].order # p
               PROVE  emitted[p] = <<>>
    BY <1>2 DEF Unheard
  <2>1. \A u \in DOMAIN lives : u \in DOMAIN lives' /\ lives'[u] = lives[u]
    BY <1>1
  <2>2. QED
    BY <2>1 DEF AlongInv, Unheard
<1>4. ASSUME NEW v \in DOMAIN lives', Sole(v)', IsOpen(lives[v].order)'
      PROVE  Along(v)'
  <2>1. CASE v = n + 1
    <3>1. \A u \in DOMAIN lives : lives[u].order # o
      <4> SUFFICES ASSUME NEW u \in DOMAIN lives, lives[u].order = o PROVE FALSE
        OBVIOUS
      <4>1. u \in DOMAIN lives' /\ lives'[u].order = lives'[v].order /\ u # v
        BY <1>1, <2>1
      <4>2. QED
        BY <4>1, <1>4 DEF Sole
    <3>2. emitted'[o] = <<>>
      BY <3>1, <1>2 DEF AlongInv, Unheard
    <3>3. lives'[v].order = o /\ lives'[v].pc = "SUBMITTED"
      BY <1>1, <2>1
    <3>4. QED
      BY <3>2, <3>3 DEF Along
  <2>2. CASE v # n + 1
    <3>1. v \in DOMAIN lives /\ lives'[v] = lives[v]
      BY <1>1, <2>2
    <3>2. lives[v].order # o
      <4>1. n + 1 \in DOMAIN lives' /\ lives'[n + 1].order = o
        BY <1>1
      <4>2. QED
        BY <4>1, <3>1, <2>2, <1>4 DEF Sole
    <3>3. lives[v].order \in Orders
      BY <3>1, LivesHaveOrders DEF PaidInv
    <3>4. IsOpen(lives[v].order)
      BY <1>2, <1>4, <3>1, <3>2, <3>3
    <3>5. Sole(v)
      <4> SUFFICES ASSUME NEW u \in DOMAIN lives, lives[u].order = lives[v].order PROVE u = v
        BY DEF Sole
      <4>1. u \in DOMAIN lives' /\ lives'[u] = lives[u]
        BY <1>1
      <4>2. QED
        BY <4>1, <3>1, <1>4 DEF Sole
    <3>6. Along(v)
      BY <3>1, <3>4, <3>5 DEF AlongInv
    <3>7. QED
      BY <3>1, <3>6, <1>2 DEF Along, LastKind
  <2>3. QED
    BY <2>1, <2>2
<1>5. QED
  BY <1>3, <1>4 DEF AlongInv

(* A step that mints no lifecycle, puts nothing and opens nothing, and may *)
(* end lifecycles.                                                         *)
LEMMA QuietAlong ==
  ASSUME AlongInv, emitted' = emitted, DOMAIN lives' = DOMAIN lives,
         \A w \in DOMAIN lives : /\ lives'[w].order = lives[w].order
                                 /\ lives'[w].pc \in {lives[w].pc, "done"}
                                 /\ IsOpen(lives[w].order)' => IsOpen(lives[w].order)
  PROVE  AlongInv'
<1>1. ASSUME NEW p \in Orders PROVE Unheard(p)'
  BY DEF AlongInv, Unheard
<1>2. ASSUME NEW v \in DOMAIN lives', Sole(v)', IsOpen(lives[v].order)'
      PROVE  Along(v)'
  <2>1. Sole(v) /\ IsOpen(lives[v].order)
    <3>1. Sole(v)
      BY <1>2 DEF Sole
    <3>2. lives'[v].order = lives[v].order
      OBVIOUS
    <3>3. IsOpen(lives[v].order)
      BY <1>2, <3>2 DEF IsOpen
    <3>4. QED
      BY <3>1, <3>3
  <2>2. Along(v)
    BY <2>1 DEF AlongInv
  <2>3. QED
    BY <2>2 DEF Along, LastKind
<1>3. QED
  BY <1>1, <1>2 DEF AlongInv

(* A step that puts one event, and closes the order or is the lifecycle's. *)
LEMMA PutAlong ==
  ASSUME PaidInv, AlongInv, NEW v \in DOMAIN lives, NEW ev, Put(lives[v].order, ev),
         DOMAIN lives' = DOMAIN lives,
         \A w \in DOMAIN lives : /\ lives'[w].order = lives[w].order
                                 /\ w # v => lives'[w].pc = lives[w].pc,
         \A p \in Orders : IsOpen(p)' => IsOpen(p),
         \/ ~IsOpen(lives[v].order)'
         \/ ev.kind = "SUBMITTED" /\ lives'[v].pc = "ACCEPTED"
         \/ ev.kind = "ACCEPTED" /\ lives'[v].pc \in {"FILLED", "done"}
  PROVE  AlongInv'
<1> DEFINE o == lives[v].order
<1>1. o \in Orders /\ \A w \in DOMAIN lives : lives[w].order \in Orders
  BY LivesHaveOrders DEF PaidInv
<1>2. /\ emitted'[o] # <<>> /\ emitted'[o][Len(emitted'[o])] = ev
      /\ \A p \in Orders : p # o => emitted'[p] = emitted[p]
  BY <1>1, PutEnds DEF PaidInv
<1>3. ASSUME NEW p \in Orders PROVE Unheard(p)'
  BY <1>2 DEF AlongInv, Unheard
<1>4. ASSUME NEW w \in DOMAIN lives', Sole(w)', IsOpen(lives[w].order)'
      PROVE  Along(w)'
  <2>1. lives'[w].order = lives[w].order /\ lives[w].order \in Orders /\ Sole(w)
    BY <1>1, <1>4 DEF Sole
  <2>2. CASE w = v
    <3>1. LastKind(o)' = ev.kind
      BY <1>2, <2>1, <2>2 DEF LastKind
    <3>2. IsOpen(o)'
      BY <1>4, <2>1, <2>2
    <3>3. \/ ev.kind = "SUBMITTED" /\ lives'[v].pc = "ACCEPTED"
          \/ ev.kind = "ACCEPTED" /\ lives'[v].pc \in {"FILLED", "done"}
      BY <3>2
    <3>4. lives'[w].order = o
      BY <2>1, <2>2
    <3>5. QED
      BY <1>2, <2>2, <3>1, <3>3, <3>4 DEF Along, LastKind
  <2>3. CASE w # v
    <3>1. lives[w].order # o
      BY <2>1, <2>3 DEF Sole
    <3>2. emitted'[lives[w].order] = emitted[lives[w].order]
      BY <1>2, <2>1, <3>1
    <3>3. IsOpen(lives[w].order)
      BY <1>4, <2>1 DEF IsOpen
    <3>4. Along(w)
      BY <2>1, <3>3 DEF AlongInv
    <3>5. lives'[w].pc = lives[w].pc
      BY <2>3
    <3>6. QED
      BY <2>1, <3>2, <3>4, <3>5 DEF Along, LastKind
  <2>4. QED
    BY <2>2, <2>3
<1>5. QED
  BY <1>3, <1>4 DEF AlongInv

LEMMA StepAlong ==
  ASSUME PaidInv, AlongInv, [BrokerNext]_brokerVars
  PROVE  AlongInv'
<1> USE DEF PaidInv
<1>1. CASE UNCHANGED brokerVars \/ Connect
  <2>1. UNCHANGED <<openOrders, lives, emitted>>
    BY <1>1 DEF brokerVars, Connect
  <2>2. QED
    BY <2>1, QuietAlong DEF IsOpen
<1>2. CASE Disconnect
  <2>1. /\ emitted' = emitted /\ openOrders' = openOrders /\ DOMAIN lives' = DOMAIN lives
        /\ \A w \in DOMAIN lives : lives'[w] = [lives[w] EXCEPT !.pc = "done"]
    BY <1>2 DEF Disconnect, CancelLives
  <2>2. \A w \in DOMAIN lives : lives[w] \in Life
    BY DEF BrokerTypeOK
  <2>3. \A w \in DOMAIN lives : lives'[w].order = lives[w].order /\ lives'[w].pc = "done"
    BY <2>1, <2>2 DEF Life
  <2>4. QED
    BY <2>1, <2>3, QuietAlong DEF IsOpen
<1>3. CASE \E o \in Orders, qty \in Quantities : Replace(o, qty)
  <2>1. PICK o \in Orders, qty \in Quantities : Replace(o, qty)
    BY <1>3
  <2>2. /\ emitted' = emitted /\ lives' = lives /\ IsOpen(o)
        /\ \A p \in Orders : p # o => openOrders'[p] = openOrders[p]
    BY <2>1 DEF Replace, BrokerTypeOK
  <2>3. \A p \in Orders : IsOpen(p)' => IsOpen(p)
    BY <2>2 DEF IsOpen
  <2>4. QED
    BY <2>2, <2>3, QuietAlong, LivesHaveOrders
<1>4. CASE \E o \in Orders, ord \in OrderData : Submit(o, ord)
  BY <1>4, SubmitAlong
<1>5. CASE \E o \in Orders : Cancel(o)
  <2>1. PICK o \in Orders : Cancel(o)
    BY <1>5
  <2>2. PICK v \in DOMAIN lives : lives[v].order = o
    BY <2>1, OpenHasLife DEF Cancel
  <2>3. /\ Put(o, Event("CANCELED", venueIdOf[o], 0)) /\ lives' = lives
        /\ openOrders' = [openOrders EXCEPT ![o] = NotOpen]
    BY <2>1 DEF Cancel
  <2>4. ~IsOpen(o)' /\ \A p \in Orders : IsOpen(p)' => IsOpen(p)
    BY <2>3 DEF IsOpen, BrokerTypeOK
  <2>5. ~IsOpen(lives[v].order)'
    BY <2>2, <2>3, <2>4 DEF IsOpen
  <2>6. QED
    BY <2>2, <2>3, <2>4, <2>5, PutAlong
<1>6. CASE \E v \in VenueIds : LifecycleStep(v)
  <2>1. PICK v \in VenueIds : LifecycleStep(v)
    BY <1>6
  <2> DEFINE o == lives[v].order
  <2>2. v \in DOMAIN lives /\ o \in Orders
    BY <2>1, LivesHaveOrders
       DEF LifecycleStep, ExitSilently, PutSubmitted, PutAccepted, PutFilled,
           PriceLookupFails, Wakes
  <2>3. CASE ExitSilently(v) \/ PriceLookupFails(v)
    <3>1. /\ Goto(v, "done") /\ emitted' = emitted
          /\ openOrders' = openOrders \/ openOrders' = [openOrders EXCEPT ![o] = NotOpen]
      BY <2>3 DEF ExitSilently, PriceLookupFails, Close
    <3>2. /\ DOMAIN lives' = DOMAIN lives
          /\ \A w \in DOMAIN lives : /\ lives'[w].order = lives[w].order
                                     /\ lives'[w].pc \in {lives[w].pc, "done"}
      BY <2>2, <3>1, GotoFacts
    <3>3. \A p \in Orders : IsOpen(p)' => IsOpen(p)
      BY <2>2, <3>1 DEF IsOpen, BrokerTypeOK
    <3>4. \A w \in DOMAIN lives : IsOpen(lives[w].order)' => IsOpen(lives[w].order)
      BY <3>2, <3>3, LivesHaveOrders DEF IsOpen
    <3>5. QED
      BY <3>1, <3>2, <3>4, QuietAlong
  <2>4. CASE PutSubmitted(v)
    <3>1. /\ Put(o, Event("SUBMITTED", v, 0)) /\ Goto(v, "ACCEPTED") /\ openOrders' = openOrders
      BY <2>4 DEF PutSubmitted
    <3>2. Event("SUBMITTED", v, 0).kind = "SUBMITTED"
      BY DEF Event
    <3>3. QED
      BY <2>2, <3>1, <3>2, GotoFacts, PutAlong DEF IsOpen
  <2>5. CASE PutAccepted(v)
    <3>1. /\ Put(o, Event("ACCEPTED", v, 0)) /\ Goto(v, AfterAccept(v)) /\ openOrders' = openOrders
      BY <2>5 DEF PutAccepted
    <3>2. Event("ACCEPTED", v, 0).kind = "ACCEPTED" /\ AfterAccept(v) \in {"FILLED", "done"}
      BY DEF Event, AfterAccept
    <3>3. QED
      BY <2>2, <3>1, <3>2, GotoFacts, PutAlong DEF IsOpen
  <2>6. CASE PutFilled(v)
    <3>1. /\ Put(o, Event("FILLED", v, lives[v].held.qty)) /\ Goto(v, "done")
          /\ openOrders' = [openOrders EXCEPT ![o] = NotOpen]
      BY <2>6 DEF PutFilled, Close
    <3>2. openOrders'[o] = NotOpen /\ \A p \in Orders : IsOpen(p)' => IsOpen(p)
      BY <2>2, <3>1 DEF IsOpen, BrokerTypeOK
    <3>3. /\ DOMAIN lives' = DOMAIN lives
          /\ \A w \in DOMAIN lives : /\ lives'[w].order = lives[w].order
                                     /\ w # v => lives'[w].pc = lives[w].pc
      BY <2>2, <3>1, GotoFacts
    <3>4. ~IsOpen(lives[v].order)'
      BY <2>2, <3>2, <3>3 DEF IsOpen
    <3>5. QED
      BY <2>2, <3>1, <3>2, <3>3, <3>4, PutAlong
  <2>7. QED
    BY <2>1, <2>3, <2>4, <2>5, <2>6 DEF LifecycleStep
<1>7. QED
  BY <1>1, <1>2, <1>3, <1>4, <1>5, <1>6 DEF BrokerNext

(* The rows of the table that the paper broker's events can take.          *)
LEMMA PaperRows ==
  /\ "SUBMIT_PENDING" \in FSM!LegalBefore("SUBMITTED")
  /\ "SUBMITTED" \in FSM!LegalBefore("ACCEPTED")
  /\ "ACCEPTED" \in FSM!LegalBefore("FILLED")
  /\ "SUBMITTED" \in FSM!LegalBefore("CANCELED")
  /\ "ACCEPTED" \in FSM!LegalBefore("CANCELED")
<1>1. ASSUME NEW t \in FSM!Transitions PROVE t.from \in FSM!LegalBefore(t.event)
  BY DEF FSM!LegalBefore
<1>2. /\ FSM!T("SUBMIT_PENDING", "wire_ack", "SUBMITTED", "SUBMITTED") \in FSM!Transitions
      /\ FSM!T("SUBMITTED", "accept", "ACCEPTED", "ACCEPTED") \in FSM!Transitions
      /\ FSM!T("ACCEPTED", "fill", "FILLED", "FILLED") \in FSM!Transitions
      /\ FSM!T("SUBMITTED", "cancel", "CANCELED", "CANCELED") \in FSM!Transitions
      /\ FSM!T("ACCEPTED", "cancel", "CANCELED", "CANCELED") \in FSM!Transitions
  BY DEF FSM!Transitions
<1>3. \A from, trigger, to, event :
        /\ FSM!T(from, trigger, to, event).from = from
        /\ FSM!T(from, trigger, to, event).event = event
  BY DEF FSM!T
<1>4. QED
  BY <1>1, <1>2, <1>3

PutLegally(o) ==
  emitted'[o] # emitted[o] =>
    LET kind == emitted'[o][Len(emitted'[o])].kind IN
    \/ StateOf(o) \in FSM!LegalBefore(kind)
    \/ Submits(o) > 1
    \/ kind = "CANCELED" /\ emitted[o] = <<>>

(* The lifecycle that puts is alone on its id, or the property excepts it. *)
LEMMA StepWalks ==
  ASSUME PaidInv, AlongInv, BrokerNext, NEW o \in Orders
  PROVE  PutLegally(o)
<1> USE DEF PaidInv
<1> SUFFICES ASSUME emitted'[o] # emitted[o], ~(Submits(o) > 1)
             PROVE  LET kind == emitted'[o][Len(emitted'[o])].kind IN
                    \/ StateOf(o) \in FSM!LegalBefore(kind)
                    \/ kind = "CANCELED" /\ emitted[o] = <<>>
  BY DEF PutLegally
<1>1. ASSUME NEW v \in DOMAIN lives, lives[v].order = o, IsOpen(o)
      PROVE  Along(v)
  <2>1. Sole(v)
    BY <1>1, TwoSubmits DEF Sole
  <2>2. QED
    BY <1>1, <2>1 DEF AlongInv
<1>2. CASE Cancel(o)
  <2>1. PICK v \in DOMAIN lives : lives[v].order = o
    BY <1>2, OpenHasLife DEF Cancel
  <2>2. Along(v) /\ Put(o, Event("CANCELED", venueIdOf[o], 0))
    BY <1>1, <1>2, <2>1 DEF Cancel
  <2>3. emitted'[o][Len(emitted'[o])].kind = "CANCELED"
    BY <2>2, PutEnds DEF Event
  <2>4. emitted[o] # <<>> => StateOf(o) \in {"SUBMITTED", "ACCEPTED"}
    BY <2>1, <2>2 DEF Along, StateOf, LastKind
  <2>5. QED
    BY <2>3, <2>4, PaperRows
<1>3. CASE \E v \in VenueIds : LifecycleStep(v)
  <2>1. PICK v \in VenueIds : LifecycleStep(v)
    BY <1>3
  <2>2. /\ PutSubmitted(v) \/ PutAccepted(v) \/ PutFilled(v)
        /\ v \in DOMAIN lives /\ lives[v].order \in Orders
    BY <2>1, LivesHaveOrders
       DEF LifecycleStep, ExitSilently, PriceLookupFails, PutSubmitted, PutAccepted,
           PutFilled, Wakes
  <2>3. PICK ev : /\ Put(lives[v].order, ev)
                  /\ ev.kind = lives[v].pc
                  /\ lives[v].pc \in {"SUBMITTED", "ACCEPTED", "FILLED"}
    BY <2>2 DEF PutSubmitted, PutAccepted, PutFilled, Wakes, Event
  <2>4. lives[v].order = o
    BY <2>2, <2>3, PutEnds
  <2>5. IsOpen(o)
    BY <2>2, <2>4 DEF PutSubmitted, PutAccepted, PutFilled, StillOpen
  <2>6. Along(v)
    BY <1>1, <2>2, <2>4, <2>5
  <2>7. emitted'[o][Len(emitted'[o])].kind = lives[v].pc
    BY <2>3, <2>4, PutEnds
  <2>8. venueIdOf[o] # 0
    <3>1. venueIdOf[o] \in 1..Len(lives)
      BY <2>5 DEF CurrentWatches
    <3>2. QED
      BY <3>1
  <2>9. StateOf(o) \in FSM!LegalBefore(lives[v].pc)
    <3>1. lives[v].pc = "SUBMITTED" => StateOf(o) = "SUBMIT_PENDING"
      BY <2>4, <2>6, <2>8 DEF Along, StateOf
    <3>2. lives[v].pc = "ACCEPTED" => StateOf(o) = "SUBMITTED"
      BY <2>4, <2>6 DEF Along, StateOf, LastKind
    <3>3. lives[v].pc = "FILLED" => StateOf(o) = "ACCEPTED"
      BY <2>4, <2>6 DEF Along, StateOf, LastKind
    <3>4. QED
      BY <2>3, <3>1, <3>2, <3>3, PaperRows
  <2>10. QED
    BY <2>7, <2>9
<1>4. CASE /\ ~Cancel(o)
           /\ ~\E v \in VenueIds : LifecycleStep(v)
  <2>1. \/ emitted' = emitted
        \/ \E p \in Orders : p # o /\ Cancel(p)
    BY <1>4 DEF BrokerNext, Connect, Disconnect, Submit, Replace
  <2>2. ASSUME NEW p \in Orders, p # o, Cancel(p) PROVE emitted'[o] = emitted[o]
    BY <2>2, PutEnds DEF Cancel
  <2>3. QED
    BY <2>1, <2>2
<1>5. QED
  BY <1>2, <1>3, <1>4

(* Through any interleaving of lifecycles, cancels, replaces and           *)
(* reconnects the events of an id that was submitted once are a walk in    *)
(* the order FSM's table, but for a cancel that comes before SUBMITTED     *)
(* (broker.py cancel, _lifecycle).                                         *)
THEOREM PaperStreamsWalkTheTable ==
  ASSUME MaxSubmits \in Nat
  PROVE  BrokerSpec => WalksFSM
<1> DEFINE Legally == \A o \in Orders : PutLegally(o)
<1>1. BrokerInit => AlongInv
  BY DEF BrokerInit, AlongInv, Unheard
<1>2. PaidInv /\ AlongInv /\ [BrokerNext]_brokerVars => AlongInv'
  BY StepAlong
<1>3. PaidInv /\ AlongInv /\ [BrokerNext]_brokerVars => [Legally]_brokerVars
  BY StepWalks
<1>4. BrokerSpec => []PaidInv
  BY PaidAlways
<1> HIDE DEF Legally
<1>5. BrokerSpec => [][Legally]_brokerVars
  BY <1>1, <1>2, <1>3, <1>4, PTL DEF BrokerSpec
<1>6. QED
  BY <1>5 DEF WalksFSM, Legally, PutLegally
=============================================================================
