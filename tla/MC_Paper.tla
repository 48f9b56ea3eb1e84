------------------------------ MODULE MC_Paper ------------------------------
(* Small instances for TLC of the paper pipeline over its tape             *)
(* ("pipeline") and of the broker it trades with, in the hands of any      *)
(* caller ("broker").  They share no variable, so a behaviour runs one of  *)
(* them, part.                                                             *)
EXTENDS MC_PaperPipeline, PaperBroker, TLC

VARIABLE part

PaperIdle ==
  /\ pc = "bar" /\ clock = 0 /\ bars = 0 /\ close = CHOOSE p \in Prices : TRUE
  /\ cash = StartingCash /\ position = Flat /\ order = 0 /\ armed = FALSE
  /\ result = [fills |-> 0, breaches |-> 0, points |-> 0, equity |-> StartingCash]
  /\ realised = Whole(0) /\ fees = 0 /\ desired = Whole(0) /\ heldSince = Never

PartsInit ==
  /\ part \in {"pipeline", "broker"}
  /\ IF part = "pipeline" THEN Init ELSE PaperIdle
  /\ BrokerInit

PartsNext ==
  \/ part = "pipeline" /\ Next /\ UNCHANGED <<part, brokerVars>>
  \/ part = "broker" /\ BrokerNext /\ UNCHANGED <<part, vars>>

(* The fairness of both specifications.                                    *)
PartsFairness == WF_vars(part = "pipeline" /\ Driver) /\ Fairness

PartsSpec == PartsInit /\ [][PartsNext]_<<part, vars, brokerVars>> /\ PartsFairness

(* RunEnds of PaperPipeline, for the part that runs it.                    *)
PaperRunEnds == part = "pipeline" => RunEnds
=============================================================================
