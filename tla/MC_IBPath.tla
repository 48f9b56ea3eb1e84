----------------------------- MODULE MC_IBPath ------------------------------
(* Small instances for TLC of the IB pipeline ("pipeline") and of what its *)
(* orders pass on their way to the gateway: the rate limiter, the caches   *)
(* of what venues say of an instrument ("lookups", the IG adapter's too)   *)
(* and the price grid ("grid").  They share no variable, so a behaviour    *)
(* runs one of them, part.                                                 *)
EXTENDS MC_IBPipeline, MC_RateLimiter, Lookups

CONSTANTS MinTicks, MaxPrice

VARIABLES
  part,
  rule, minTick, policy, order, priced, fate

gridVars == <<rule, minTick, policy, order, priced, fate>>

Band(low, inc) == [low |-> low, inc |-> inc]

(* No rule; three bands; two that come out of order; one that does not     *)
(* reach down to 0; and one with more decimals than the next.              *)
MarketRules ==
  {<<>>,
   <<Band(0, 1), Band(5, 5), Band(10, 10)>>,
   <<Band(4, 3), Band(0, 2)>>,
   <<Band(0, 0), Band(6, 4)>>,
   <<Band(0, 5), Band(15, 10)>>}

PG == INSTANCE PriceGrid WITH Rules <- MarketRules, asked <- priced

(* The parts that do not run keep one initial state of theirs.             *)
GridIdle ==
  /\ rule = <<>> /\ minTick = 0 /\ policy = "NEAREST"
  /\ order = [side |-> "BUY", limit |-> PG!NoPrice, stop |-> PG!NoPrice]
  /\ priced = order /\ fate = "submitted"

PartsInit ==
  /\ part \in {"pipeline", "limiter", "lookups", "grid"}
  /\ Init /\ LimiterInit
  /\ LookupsInit /\ (part = "lookups" \/ service = "grid")
  /\ IF part = "grid" THEN PG!GridInit ELSE GridIdle

PartsNext ==
  \/ part = "pipeline" /\ Next /\ UNCHANGED <<part, limiterVars, lookupVars, gridVars>>
  \/ part = "limiter" /\ LimiterNext /\ UNCHANGED <<part, vars, lookupVars, gridVars>>
  \/ part = "lookups" /\ LookupsNext /\ UNCHANGED <<part, vars, limiterVars, gridVars>>
  \/ part = "grid" /\ PG!GridNext /\ UNCHANGED <<part, vars, limiterVars, lookupVars>>

PartsSpec ==
  /\ PartsInit /\ [][PartsNext]_<<part, vars, limiterVars, lookupVars, gridVars>>
  /\ WF_vars(part = "pipeline" /\ Driver)      \* the fairness of IBPipeline

SnapLegal == PG!SnapLegal

(* RunEnds of IBPipeline, for the part that runs it.                       *)
PathRunEnds == part = "pipeline" => RunEnds
=============================================================================
