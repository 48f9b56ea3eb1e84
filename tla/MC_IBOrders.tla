---------------------------- MODULE MC_IBOrders ----------------------------
(* Small instances of IBOrders for TLC.                                    *)
EXTENDS IBOrders

CONSTANTS e1, e2, e3

(* Two shares: either two partial executions or a single whole one.        *)
MCExecQty == [e \in Execs |-> IF e = e3 THEN 2 ELSE 1]
=============================================================================
