------------------------------- MODULE MC_Ops -------------------------------
(* Small instances for TLC of the scripts and of the signals they compute  *)
(* and trade on.  They share no variable, so a behaviour runs one of them, *)
(* part.                                                                   *)
EXTENDS Campaign, OrderProbe, Signals, TLC

VARIABLE part

IBTickers == <<"QQL3", "IBTM">>

(* A run over files that refreshes write meanwhile, to which the venue is  *)
(* closed; and runs and flattens on one account, over files that stay.     *)
DataInit ==
  /\ part = "data"
  /\ RefreshInit /\ CaptureInit(MaxRuns - 1, MaxPlaced) /\ CampaignInit(MaxFlattens)

AccountInit ==
  /\ part \in {"account", "probe", "signals"}
  /\ files = [f \in Files |-> Written(1)] /\ before = files
  /\ generation = MaxRefreshes
  /\ refresh = IdleRefresh /\ todo = <<>> /\ exitCode = 0 /\ trusted = TRUE
  /\ CaptureInit(0, 0) /\ CampaignInit(0)

PartsInit ==
  /\ DataInit \/ AccountInit
  /\ ProbeInit /\ (part = "probe" \/ script = "submit")
  /\ SignalsInit

PartsNext ==
  \/ part \in {"data", "account"} /\ CampaignNext /\ UNCHANGED <<part, probeVars, tape>>
  \/ part = "probe" /\ ProbeNext /\ UNCHANGED <<part, campaignVars, tape>>
  \/ part = "signals" /\ SignalsNext /\ UNCHANGED <<part, campaignVars, probeVars>>

PartsSpec == PartsInit /\ [][PartsNext]_<<part, campaignVars, probeVars, tape>>
=============================================================================
