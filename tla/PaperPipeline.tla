--------------------------- MODULE PaperPipeline ----------------------------
(***************************************************************************)
(* The paper pipeline (blive/runtime/paper_pipeline.py) over one           *)
(* instrument: for every bar of the tape the Sizer, the RiskEngine, an     *)
(* order to the paper broker, the drain of its events, the position, the   *)
(* cash ledger and the point of the equity curve.  The driver suspends     *)
(* only in the drain, so that is where the rest of the program may run.    *)
(***************************************************************************)
EXTENDS Sizing, RiskChecks

CONSTANTS
  StartingCash,
  Commission,     \* commission_per_share
  Leverage,       \* target_leverage, a ratio
  Signals,        \* what btest's position series holds
  Prices,         \* closes
  Gaps,           \* days between two bars
  FileSets,       \* states of the artefacts on disk when a bar is processed
  MaxBars         \* bound: bars of the tape

ASSUME TapeAssumption ==
  /\ StartingCash \in Nat \ {0} /\ Commission \in Nat /\ Leverage \in Ratios
  /\ Signals \subseteq Int /\ Prices \subseteq Nat \ {0} /\ Gaps \subseteq Nat \ {0}
  /\ MaxBars \in Nat

ASSUME ArtefactAssumption ==
  \A files \in FileSets :
    IsFiniteSet(DOMAIN files) /\ \A a \in DOMAIN files : files[a] \in Nat \cup {Missing}

VARIABLES
  pc,          \* the driver: bar, drain, done or raised
  clock,       \* SimClock
  bars,        \* bars taken from the tape
  close,       \* _current_price
  cash,
  position,    \* positions[instrument_key], Flat when absent
  order,       \* signed quantity of the order being drained
  armed,       \* kill_switch.armed
  result,      \* fills_count, number of breaches, points and last equity of the curve
  realised,    \* history: profit of the shares that were closed
  fees,        \* history: commissions paid
  desired,     \* history: shares the last rebalance asked for, before rounding
  heldSince    \* history: bar at which the sign of the position last changed

vars == <<pc, clock, bars, close, cash, position, order, armed, result, realised, fees, desired,
          heldSince>>

Equity(money, pos, price) == money + pos.qty * price

(* A row of the equity curve, at the close of the bar.                     *)
Marked(res, money, pos, price) ==
  [fills |-> res.fills, breaches |-> res.breaches, points |-> res.points + 1,
   equity |-> Equity(money, pos, price)]

Weight(signal) == [Leverage EXCEPT !.num = signal * @]

(* What the pipeline tells the engine: the bar itself, an open market and  *)
(* no reference price.                                                     *)
Inputs(time, files) ==
  [armed |-> armed, lastBar |-> time, open |-> TRUE, files |-> files,
   reference |-> NoPrice, price |-> Unpriced, now |-> time]

(* The clock and the price move to the next bar of the tape.               *)
Advance(gap, price) ==
  /\ pc = "bar" /\ bars < MaxBars
  /\ bars' = bars + 1
  /\ clock' = clock + gap
  /\ close' = price

(* The position series has no value at this bar.                           *)
SkipBar(gap, price) ==
  /\ Advance(gap, price)
  /\ UNCHANGED <<pc, cash, position, order, armed, result, realised, fees, desired,
                 heldSince>>

SizerRaises(gap, price, signal) ==
  /\ Advance(gap, price)
  /\ Unsizable(Equity(cash, position, price), Weight(signal))
  /\ pc' = "raised"
  /\ UNCHANGED <<cash, position, order, armed, result, realised, fees, desired,
                 heldSince>>

Rebalances(gap, price, signal) ==
  /\ Advance(gap, price)
  /\ ~Unsizable(Equity(cash, position, price), Weight(signal))
  /\ desired' = Desired(Equity(cash, position, price), Weight(signal), price)

NoOrder(gap, price, signal) ==
  /\ Rebalances(gap, price, signal)
  /\ SizeOrder(desired', position.qty) = 0
  /\ result' = Marked(result, cash, position, price)
  /\ UNCHANGED <<pc, cash, position, order, armed, realised, fees, heldSince>>

OrderRefused(gap, price, signal, files) ==
  LET inp == Inputs(clock + gap, files) IN
  /\ Rebalances(gap, price, signal)
  /\ SizeOrder(desired', position.qty) # 0
  /\ ~Approved(inp)
  /\ result' = [Marked(result, cash, position, price) EXCEPT !.breaches = @ + Len(Breaches(inp))]
  /\ UNCHANGED <<pc, cash, position, order, armed, realised, fees, heldSince>>

OrderPlaced(gap, price, signal, files) ==
  LET inp == Inputs(clock + gap, files) IN
  /\ Rebalances(gap, price, signal)
  /\ SizeOrder(desired', position.qty) # 0
  /\ Approved(inp)
  /\ pc' = "drain"
  /\ order' = SizeOrder(desired', position.qty)
  /\ result' = [result EXCEPT !.breaches = @ + Len(Breaches(inp))]
  /\ UNCHANGED <<cash, position, armed, realised, fees, heldSince>>
-----------------------------------------------------------------------------
(* The shares of the position that an order of qty gives up.               *)
ClosedBy(pos, qty) ==
  IF Sign(pos.qty) # -Sign(qty) THEN 0
  ELSE Sign(pos.qty) * Min({Magnitude(pos.qty), Magnitude(qty)})

Paid(qty, price) == qty * price + Commission * Magnitude(qty)

OrderTypeLimit == "LMT"         \* mutant: the Sizer asks for a limit order

OrderType == "MKT"

(* What the lifecycle of an order puts, in one go: its latencies are zero. *)
Lifecycle(type) == {"SUBMITTED", "ACCEPTED"} \cup (IF type = "MKT" THEN {"FILLED"} ELSE {})

(* The drain takes events until a terminal one, which can only be FILLED.  *)
Drained ==
  /\ pc = "drain"
  /\ "FILLED" \in Lifecycle(OrderType)
  /\ pc' = "bar"
  /\ position' = ApplyFill(position, order, close, clock)
  /\ cash' = cash - Paid(order, close)
  /\ order' = 0
  /\ result' = [Marked(result, cash', position', close) EXCEPT !.fills = @ + 1]
  /\ realised' = Plus(realised, Times(ClosedBy(position, order),
                                      Plus(Whole(close), Times(-1, position.avg))))
  /\ fees' = fees + Commission * Magnitude(order)
  /\ heldSince' = IF Sign(position.qty + order) = Sign(position.qty) THEN heldSince
                  ELSE IF position.qty + order = 0 THEN Never ELSE clock
  /\ UNCHANGED <<clock, bars, close, armed, desired>>

Finish ==
  /\ pc = "bar"
  /\ pc' = "done"
  /\ UNCHANGED <<clock, bars, close, cash, position, order, armed, result, realised, fees, desired,
                 heldSince>>

(* Whoever holds the kill switch runs while the driver is suspended.       *)
Arm ==
  /\ pc = "drain" /\ ~armed
  /\ armed' = TRUE
  /\ UNCHANGED <<pc, clock, bars, close, cash, position, order, result, realised, fees, desired,
                 heldSince>>

Clear ==
  /\ pc = "drain" /\ armed
  /\ armed' = FALSE
  /\ UNCHANGED <<pc, clock, bars, close, cash, position, order, result, realised, fees, desired,
                 heldSince>>

Init ==
  /\ pc = "bar" /\ clock = 0 /\ bars = 0 /\ close \in Prices
  /\ cash = StartingCash /\ position = Flat /\ order = 0
  /\ armed \in BOOLEAN
  /\ result = [fills |-> 0, breaches |-> 0, points |-> 0, equity |-> StartingCash]
  /\ realised = Whole(0) /\ fees = 0 /\ desired = Whole(0) /\ heldSince = Never

Driver ==
  \/ \E gap \in Gaps, price \in Prices :
       \/ SkipBar(gap, price)
       \/ \E signal \in Signals :
            \/ SizerRaises(gap, price, signal)
            \/ NoOrder(gap, price, signal)
            \/ \E files \in FileSets : \/ OrderRefused(gap, price, signal, files)
                                       \/ OrderPlaced(gap, price, signal, files)
  \/ Drained
  \/ Finish

Next == Driver \/ Arm \/ Clear

Spec == Init /\ [][Next]_vars

(* Fair: the awaits of the drain return, for the events are in the queue.  *)
FairSpec == Spec /\ WF_vars(Driver)
-----------------------------------------------------------------------------
(* Types.  A flat position has no opening time, and only a flat one has    *)
(* none: what the constructor of Position insists on.                      *)
TypeOK ==
  /\ pc \in {"bar", "drain", "done", "raised"}
  /\ clock \in Nat /\ bars \in 0..MaxBars /\ close \in Prices
  /\ cash \in Int /\ order \in Int /\ armed \in BOOLEAN
  /\ position \in Positions /\ (position.qty = 0 <=> position.opened = Never)
  /\ result \in [fills : Nat, breaches : Nat, points : Nat, equity : Int]
  /\ realised \in Ratios /\ desired \in Ratios /\ fees \in Nat /\ heldSince \in Int
  /\ (pc = "drain" <=> order # 0)

(* The two books agree: the cash ledger of the pipeline and the average    *)
(* cost kept by apply_fill explain each other, through any sequence of     *)
(* openings, additions, partial closes, closes and flips.  The cash that   *)
(* is missing is what the position cost, plus commissions, less the profit *)
(* of the shares that were closed.                                         *)
BasisExplainsCash ==
  Same(Plus(Whole(cash), Times(position.qty, position.avg)),
       Plus(Whole(StartingCash - fees), realised))

BooksInv == TypeOK /\ BasisExplainsCash

(* opened_at is the bar at which the present leg began: adding to it or    *)
(* closing part of it does not move it, a flip does.                       *)
OpenedWithTheLeg == position.opened = heldSince

(* to lies between from and the wanted number of shares, and one more      *)
(* share would overshoot.                                                  *)
WholeSharesTowards(from, to, wanted) ==
  IF from * wanted.den <= wanted.num
  THEN from <= to /\ to * wanted.den <= wanted.num /\ wanted.num < (to + 1) * wanted.den
  ELSE from >= to /\ to * wanted.den >= wanted.num /\ wanted.num > (to - 1) * wanted.den

(* The step that ends a bar whose order was not refused.                   *)
Settles ==
  /\ pc' = "bar" /\ result'.points = result.points + 1
  /\ pc = "drain" \/ result'.breaches = result.breaches

(* ADR-027: a rebalance moves the position from where it was towards what  *)
(* the weight asks for, as far as whole shares go and no farther; an exit  *)
(* leaves none, whatever refused bars and price moves came before it.      *)
NoShareLeft == [][Settles => WholeSharesTowards(position.qty, position'.qty, desired')]_vars

Rules == <<"RC-13", "RC-08", "RC-09", "RC-12", "RC-10">>

Breaks(inp, rule) ==
  CASE rule = "RC-13" -> inp.armed
    [] rule = "RC-08" -> inp.lastBar = NoBar \/ inp.lastBar + MaxStaleness < inp.now
    [] rule = "RC-09" -> ~(inp.open \/ OutsideRth)
    [] rule = "RC-12" -> \E a \in DOMAIN inp.files :
                           inp.files[a] = Missing \/ inp.files[a] <= inp.now - HardAge
    [] rule = "RC-10" -> /\ inp.price # Unpriced /\ inp.reference # NoPrice
                         /\ 100 * inp.price \notin inp.reference * (100 - MaxDeviation)
                                                   ..inp.reference * (100 + MaxDeviation)

(* What approve may be asked at this moment, by any caller.                *)
AnyInputs ==
  [armed : {armed}, lastBar : {NoBar} \cup ({clock - 2, clock} \cap Nat), open : BOOLEAN,
   files : FileSets, reference : {NoPrice, close}, price : {Unpriced} \cup Prices, now : {clock}]

(* INV-4, order of evaluation: an order is refused exactly when it breaks  *)
(* a rule, and the one breach that blocks names the first rule it breaks;  *)
(* a warning is the only other breach, and comes before.                   *)
FirstBrokenRule ==
  \A inp \in AnyInputs :
    LET broken == {i \in DOMAIN Rules : Breaks(inp, Rules[i])}
        found == Breaches(inp)
        blocks == {i \in DOMAIN found : found[i].severity = "BLOCK"}
    IN IF broken = {} THEN Approved(inp) /\ blocks = {}
       ELSE blocks = {Len(found)} /\ found[Len(found)].check = Rules[Min(broken)]

(* The run ends: no order of the driver waits for an event that never      *)
(* comes, though _drain_order_lifecycle has no deadline.                   *)
RunEnds == <>(pc \in {"done", "raised"})
=============================================================================
