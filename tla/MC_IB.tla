------------------------------- MODULE MC_IB -------------------------------
(* Small instances of the parts of the IB broker for TLC: its orders, at a *)
(* venue that may push Inactive late ("orders") and at one that does not   *)
(* ("punctual", with one submit), and its session.  A behaviour runs one   *)
(* of them, part.                                                          *)
EXTENDS MC_IBOrders, IBSession

VARIABLE part

SessionValues ==
  [r \in Rows |->
     CASE r = "BASE" -> 0..2 [] r = "GBP" -> {1} [] r = "USD cash" -> {0, 2}]

Punctual == INSTANCE IBOrders WITH LateInactive <- FALSE, MaxSubmits <- 1

PartsInit ==
  /\ part \in {"orders", "punctual", "session"}
  /\ Init /\ SessionInit

PartsNext ==
  \/ part = "orders" /\ Next /\ UNCHANGED <<part, sessionVars>>
  \/ part = "punctual" /\ Punctual!Next /\ UNCHANGED <<part, sessionVars>>
  \/ part = "session" /\ SessionNext /\ UNCHANGED <<part, vars>>
  \/ part = "session" /\ Len(events) >= MaxEvents /\ UNCHANGED <<part, vars, sessionVars>>

PartsSpec == PartsInit /\ [][PartsNext]_<<part, vars, sessionVars>> /\ Fairness

(* The orders of the punctual venue; the others stay where they are.       *)
PartFSM ==
  INSTANCE OrderFSM
    WITH state <- [o \in Orders |-> IF part = "punctual" THEN StateOf(o) ELSE "INITIALIZED"]

(* RefinesFSM of IBOrders, for the punctual venue.                         *)
PunctualRefinesFSM == PartFSM!Spec
=============================================================================
