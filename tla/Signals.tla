------------------------------ MODULE Signals ------------------------------
(***************************************************************************)
(* blive/runtime/signals.py: what the refresh writes and the runs trade    *)
(* on, of a tape of closes that grows by one day at a time.  Closes are    *)
(* whole numbers, the comparisons with the moving average are multiplied   *)
(* out, weights are counted in halves; the buffers are the defaults, 0 and *)
(* 1/20.                                                                   *)
(***************************************************************************)
EXTENDS Integers, Sequences, FiniteSets, Functions

CONSTANTS
  SmaWindow,    \* sma_window
  Closes,       \* closes a day may bring
  MaxDays       \* bound: length of the tape

(* The code refuses a shorter window; prices are not negative.             *)
ASSUME SignalsAssumption ==
  /\ SmaWindow \in Nat /\ SmaWindow >= 2
  /\ Closes \subseteq Nat
  /\ MaxDays \in Nat

VARIABLE tape     \* the aligned closes of the two trend signals, by day

Trends == {"qqq", "tlt"}
Legs == Trends \cup {"ief"}

SignalsInit == tape = <<>>

NextDay ==
  /\ Len(tape) < MaxDays
  /\ \E closes \in [Trends -> Closes] : tape' = Append(tape, closes)

SignalsNext == NextDay

SignalsSpec == SignalsInit /\ [][SignalsNext]_tape
-----------------------------------------------------------------------------
(* The window ends at the day it is the average of.                        *)
Trailing(t, d) == (d - SmaWindow + 1)..d

(* mutant: the window is centred on the day, as far as the tape goes.      *)
Centred(t, d) == {e \in (d - SmaWindow + 2)..(d + 1) : e <= Len(t)}

Averaged(t, d) == Trailing(t, d)

(* SmaWindow times the average of the days up to d.                           *)
Sum(t, leg, d) == SumFunction([e \in Averaged(t, d) |-> t[e][leg]])

Below(t, leg, d) == d >= SmaWindow /\ SmaWindow * t[d][leg] < Sum(t, leg, d)

Clear(t, leg, d) == d >= SmaWindow /\ 20 * SmaWindow * t[d][leg] > 21 * Sum(t, leg, d)

(* sma_crossover_position.                                                 *)
Position(t, leg) ==
  [d \in DOMAIN t |-> IF d >= SmaWindow /\ SmaWindow * t[d][leg] > Sum(t, leg, d) THEN 1 ELSE 0]

(* mutant: a leg re-enters as soon as it is not below the average.         *)
NoHysteresis(was, below, clear) == ~below

Hysteresis(was, below, clear) == IF was THEN ~below ELSE clear

(* The state machine of a leg, eligible until the averages begin.          *)
States(t, leg) ==
  LET state[d \in 0..Len(t)] ==
        IF d < SmaWindow THEN TRUE
        ELSE Hysteresis(state[d - 1], Below(t, leg, d), Clear(t, leg, d))
  IN  state

Eligible(t, leg) == [d \in DOMAIN t |-> States(t, leg)[d]]

(* triple_lev_sma_eligibility: the third leg stands in for either.         *)
Eligibility(t) ==
  LET qqq == Eligible(t, "qqq")  tlt == Eligible(t, "tlt") IN
  [d \in DOMAIN t |-> {leg \in Trends : IF leg = "qqq" THEN qqq[d] ELSE tlt[d]}
                      \cup {leg \in {"ief"} : ~(qqq[d] /\ tlt[d])}]

(* eligibility_to_target_weights, in halves.                               *)
Weights(t) ==
  LET eligible == Eligibility(t) IN
  [d \in DOMAIN t |-> [leg \in Legs |->
     IF leg \in eligible[d] THEN 2 \div Cardinality(eligible[d]) ELSE 0]]

(* equity_leg_regime_flips of rows first..last.                            *)
RegimeFlips(t, first, last) ==
  LET w == Weights(t) IN
  Cardinality({d \in (first + 1)..last : (w[d]["qqq"] > 0) # (w[d - 1]["qqq"] > 0)})
-----------------------------------------------------------------------------
(* A day that has passed keeps its signals when the tape grows: none looks *)
(* ahead of the close it is placed after.                                  *)
NoLookahead ==
  [][\A d \in DOMAIN tape :
       /\ Weights(tape')[d] = Weights(tape)[d]
       /\ \A leg \in Trends : Position(tape', leg)[d] = Position(tape, leg)[d]]_tape

Crossed(t, leg, d) == Below(t, leg, d) \/ Clear(t, leg, d)

(* Two refreshes whose ranges start on different days may disagree about a *)
(* leg, each starting it eligible, until the first day on which it is      *)
(* below its average or clears it in both: from then on they agree.        *)
WindowStartForgotten ==
  \A from \in 1..Len(tape), leg \in Trends :
    LET late == SubSeq(tape, from, Len(tape)) IN
    \A d \in from..Len(tape) :
      (\E e \in from..d : Crossed(late, leg, e - from + 1))
        => Eligible(late, leg)[d - from + 1] = Eligible(tape, leg)[d]

(* A leg is out on exactly the days whose last crossing was down: between  *)
(* the average and the buffer it stays what it was.                        *)
OutSinceTheFall ==
  \A leg \in Trends, d \in DOMAIN tape :
    ~Eligible(tape, leg)[d]
      <=> \E e \in 1..d : /\ Below(tape, leg, e)
                          /\ \A f \in (e + 1)..d : ~Clear(tape, leg, f)

(* Every row invests exactly the whole, in one leg or in two; a leg that   *)
(* stays on its side of the buffer never flips.                            *)
WeightsWhole ==
  LET w == Weights(tape) IN
  /\ \A d \in DOMAIN tape : SumFunction(w[d]) = 2
  /\ \A first, last \in DOMAIN tape :
       (\A d \in first..last : ~Below(tape, "qqq", d)) =>
         RegimeFlips(tape, first, last) <= 1

SignalsInv == WindowStartForgotten /\ OutSinceTheFall /\ WeightsWhole
=============================================================================
