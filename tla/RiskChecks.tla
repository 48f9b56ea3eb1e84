---------------------------- MODULE RiskChecks -----------------------------
(***************************************************************************)
(* The decisions of the RiskEngine (blive/risk/checks.py): which breaches   *)
(* a market or limit order meets, given the kill switch and the inputs of  *)
(* one call of approve.  Times are days, prices are integers.              *)
(***************************************************************************)
EXTENDS Integers, Sequences, FiniteSetsExt

CONSTANTS
  MaxStaleness,    \* max_data_staleness_daily_sec
  OutsideRth,      \* outside_rth_allowed
  HardAge,         \* max_model_artefact_age_days
  WarningAge,      \* model_artefact_warning_age_days
  MaxDeviation     \* max_price_deviation_pct, in percent

(* What strategy/config.py:166 insists on of the two ages.                 *)
ASSUME ThresholdAssumption ==
  /\ {MaxStaleness, MaxDeviation} \subseteq Nat
  /\ HardAge \in Nat /\ WarningAge \in 1..(HardAge - 1)
  /\ OutsideRth \in BOOLEAN

Missing == -1          \* no file at the path of an artefact
NoBar == -1            \* last_bar is None
NoPrice == 0           \* no reference price, or one that is not positive
Unpriced == 0          \* a market order

Block(check) == [check |-> check, severity |-> "BLOCK"]
Warn(check) == [check |-> check, severity |-> "WARN"]

(* An input: armed, lastBar (close time), open, files (artefact -> mtime),  *)
(* reference, price (limit price), now.                                    *)
Stale(inp) == inp.lastBar = NoBar \/ inp.now - inp.lastBar > MaxStaleness

Closed(inp) == ~inp.open /\ ~OutsideRth

(* Ages start at zero: a file dated later than now is as good as new.      *)
OldestAge(inp) == Max({0} \cup {inp.now - inp.files[a] : a \in DOMAIN inp.files})

Gone(inp) == \E a \in DOMAIN inp.files : inp.files[a] = Missing

(* mutant: a missing artefact is passed over                               *)
UnusableIfOld(inp) ==
  \E a \in DOMAIN inp.files : inp.files[a] # Missing /\ inp.now - inp.files[a] >= HardAge

Unusable(inp) == DOMAIN inp.files # {} /\ (Gone(inp) \/ OldestAge(inp) >= HardAge)

Ageing(inp) == /\ DOMAIN inp.files # {} /\ ~Unusable(inp)
               /\ OldestAge(inp) >= WarningAge

Deviates(inp) ==
  /\ inp.reference # NoPrice /\ inp.price # Unpriced
  /\ LET gap == IF inp.price > inp.reference THEN inp.price - inp.reference
                                             ELSE inp.reference - inp.price
     IN 100 * gap > MaxDeviation * inp.reference

(* approve: the breaches of the checks in their order, up to the first     *)
(* that blocks.                                                            *)
Breaches(inp) ==
  LET warning == IF Ageing(inp) THEN <<Warn("RC-12")>> ELSE <<>> IN
  IF inp.armed THEN <<Block("RC-13")>>
  ELSE IF Stale(inp) THEN <<Block("RC-08")>>
  ELSE IF Closed(inp) THEN <<Block("RC-09")>>
  ELSE IF Unusable(inp) THEN <<Block("RC-12")>>
  ELSE IF Deviates(inp) THEN Append(warning, Block("RC-10"))
  ELSE warning

Approved(inp) == \A i \in DOMAIN Breaches(inp) : Breaches(inp)[i].severity # "BLOCK"
=============================================================================
