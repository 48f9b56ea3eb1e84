------------------------------ MODULE OrderFSM ------------------------------
(***************************************************************************)
(* The order finite-state machine of blive/domain/order_fsm.py: the table  *)
(* of the fourteen legal transitions and the pure function that applies    *)
(* them.  It is the abstract promise of every broker adapter: whatever the *)
(* venue does, the stream of OrderEvents of one order must be a walk in    *)
(* this table.  The adapters' modules instantiate it as a refinement       *)
(* target, with the state of an order recovered from its event stream.     *)
(***************************************************************************)
CONSTANT Orders     \* client order ids

VARIABLE state      \* FSM state of each order

OrderState == {"INITIALIZED", "SUBMIT_PENDING", "SUBMITTED", "ACCEPTED",
               "PARTIALLY_FILLED", "FILLED", "CANCELED", "REJECTED", "EXPIRED"}

Trigger == {"submit_call", "wire_ack", "wire_reject", "accept", "reject",
            "partial_fill", "fill", "cancel", "expire"}

(* Rows T1..T14; the event of T1 is None in the code, "none" here.         *)
T(from, trigger, to, event) ==
  [from |-> from, trigger |-> trigger, to |-> to, event |-> event]

Transitions ==
  { T("INITIALIZED",      "submit_call",  "SUBMIT_PENDING",   "none"),
    T("SUBMIT_PENDING",   "wire_ack",     "SUBMITTED",        "SUBMITTED"),
    T("SUBMIT_PENDING",   "wire_reject",  "REJECTED",         "REJECTED"),
    T("SUBMITTED",        "accept",       "ACCEPTED",         "ACCEPTED"),
    T("SUBMITTED",        "reject",       "REJECTED",         "REJECTED"),
    T("SUBMITTED",        "cancel",       "CANCELED",         "CANCELED"),
    T("ACCEPTED",         "partial_fill", "PARTIALLY_FILLED", "PARTIAL_FILL"),
    T("ACCEPTED",         "fill",         "FILLED",           "FILLED"),
    T("ACCEPTED",         "cancel",       "CANCELED",         "CANCELED"),
    T("ACCEPTED",         "expire",       "EXPIRED",          "EXPIRED"),
    T("PARTIALLY_FILLED", "partial_fill", "PARTIALLY_FILLED", "PARTIAL_FILL"),
    T("PARTIALLY_FILLED", "fill",         "FILLED",           "FILLED"),
    T("PARTIALLY_FILLED", "cancel",       "CANCELED",         "CANCELED"),
    T("PARTIALLY_FILLED", "expire",       "EXPIRED",          "EXPIRED") }

(* The states an event of the given kind may legally be observed in.       *)
LegalBefore(kind) == {t.from : t \in {u \in Transitions : u.event = kind}}

TypeOK == state \in [Orders -> OrderState]

Init == state = [o \in Orders |-> "INITIALIZED"]

(* transition(state, trigger): a pair missing from the table raises.       *)
Transition(o, trigger) ==
  o \in Orders /\ \E t \in Transitions :
    /\ t.from = state[o]
    /\ t.trigger = trigger
    /\ state' = [state EXCEPT ![o] = t.to]

Next == \E o \in Orders, trigger \in Trigger : Transition(o, trigger)

Spec == Init /\ [][Next]_state
=============================================================================
