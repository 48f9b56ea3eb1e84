------------------------------- MODULE MC_IG -------------------------------
(* Small instances of the parts of the IG adapter for TLC: the broker over *)
(* its session, the subscriptions, and the bars of one of them.  They      *)
(* share no variable, so a behaviour runs one of them, part.               *)
EXTENDS IGBroker, IGMarketData, TLC

CONSTANTS CandleLength, MaxUpdates

VARIABLES
  part,
  state, bars, status, seen

barVars == <<state, bars, status, seen>>

LTP == <<"LTP", "CLOSE">>
BID == <<"BID", "CLOSE">>
OFR == <<"OFR", "CLOSE">>
LTV == <<"LTV", "">>
Num(n) == [kind |-> "number", n |-> n]
Nothing == [f \in {} |-> 0]
NoText == [kind |-> "empty", n |-> 0]

(* An update says nothing of the price, a bid alone, a quote, a trade, or  *)
(* a quote and that there is no trade; and nothing of the volume, a        *)
(* volume, or that there is none.                                          *)
PriceUpdates ==
  {Nothing, BID :> Num(2), BID :> Num(4) @@ OFR :> Num(6), LTP :> Num(9),
   BID :> Num(2) @@ OFR :> Num(6) @@ LTP :> NoText}
VolumeUpdates == {Nothing, LTV :> Num(5), LTV :> NoText}

BS == INSTANCE IGBarStream
        WITH Prices <- <<"CLOSE">>, PriceFields <- PriceUpdates, VolumeFields <- VolumeUpdates

PartsInit ==
  /\ part \in {"broker", "subscriptions", "bars"}
  /\ Init /\ SubscriptionsInit /\ BS!Init

PartsNext ==
  \/ part = "broker" /\ Next /\ UNCHANGED <<part, subscriptionVars, barVars>>
  \/ part = "subscriptions" /\ SubscriptionsNext /\ UNCHANGED <<part, vars, barVars>>
  \/ part = "bars" /\ BS!Next /\ UNCHANGED <<part, vars, subscriptionVars>>

PartsSpec == PartsInit /\ [][PartsNext]_<<part, vars, subscriptionVars, barVars>>
FairPartsSpec == PartsSpec /\ Fairness

(* A bar is made of its own candle, and is the one REST serves for it.     *)
BarsInv == BS!BarsMatchCandles /\ BS!LiveEqualsHistory
NextBarStartsClean == BS!NextBarStartsClean
=============================================================================
