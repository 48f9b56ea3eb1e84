----------------------------- MODULE OrderProbe -----------------------------
(***************************************************************************)
(* The probes that place one order of one share and report what became of  *)
(* it by their exit code: scripts/probe_ib_submit.py and                   *)
(* scripts/probe_tqqq_us_rth.py, which wait for one event after the other, *)
(* scripts/probe_qql3_lmt_cap.py and scripts/probe_tqqq_diag.py, which     *)
(* wait for a terminal one and exit 0.  The broker is its promise: the     *)
(* order walks OrderFSM, and every transition after submit_call puts its   *)
(* event on the queue the probe reads.                                     *)
(***************************************************************************)
EXTENDS Naturals, Sequences

VARIABLES
  script,     \* the probe that runs
  at,         \* where it is
  exit,       \* its code
  state,      \* FSM state of the order
  queue,      \* kinds of the events not read, IBBroker._events
  asked,      \* cancelOrder was called
  online      \* the session with the gateway is up

probeVars == <<script, at, exit, state, queue, asked, online>>

TheOrder == "order"

FSM == INSTANCE OrderFSM WITH Orders <- {TheOrder}

Scripts == {"submit", "tqqq", "cap", "diag"}
Stepwise == {"submit", "tqqq"}
Terminal == {"FILLED", "CANCELED", "REJECTED"}
NoCode == 100
-----------------------------------------------------------------------------
ProbeInit ==
  /\ script \in Scripts
  /\ at = "start" /\ exit = NoCode
  /\ FSM!Init /\ queue = <<>> /\ asked = FALSE /\ online = FALSE

Exits(code) == at' = "end" /\ exit' = code

Goes(place) == at' = place /\ UNCHANGED exit

Order == <<state, queue, asked>>

(* Credentials, then connect; two of the scripts let both raise.           *)
Refused ==
  /\ at = "start"
  /\ \E code \in IF script \in Stepwise THEN {2, 3} ELSE {1} : Exits(code)
  /\ UNCHANGED <<script, Order, online>>

Connects ==
  /\ at = "start"
  /\ online' = TRUE
  /\ Goes("submit")
  /\ UNCHANGED <<script, Order>>

Submits ==
  /\ at = "submit" /\ online
  /\ FSM!Transition(TheOrder, "submit_call")
  /\ Goes("submitting")
  /\ UNCHANGED <<script, queue, asked, online>>

SubmitRaises ==
  /\ at \in {"submit", "submitting"}
  /\ Exits(CASE script = "submit" -> 4 [] script = "tqqq" -> 3 [] OTHER -> 1)
  /\ UNCHANGED <<script, Order, online>>

(* Placed; or rejected for want of a price grid, without SUBMITTED.        *)
SubmitReturns(trigger, kind) ==
  /\ at = "submitting" /\ (trigger = "wire_ack" => online)
  /\ FSM!Transition(TheOrder, trigger)
  /\ queue' = Append(queue, kind)
  /\ Goes(IF script \in Stepwise THEN "wait submitted" ELSE "wait terminal")
  /\ UNCHANGED <<script, asked, online>>
-----------------------------------------------------------------------------
(* What _wait_for_kinds is called with; the other kinds are dropped.       *)
Wanted ==
  CASE at = "wait submitted" -> {"SUBMITTED"}
    [] at = "wait decision" /\ script = "submit" -> {"ACCEPTED", "REJECTED"}
    [] at = "wait decision" /\ script = "tqqq" -> {"ACCEPTED", "REJECTED", "CANCELED"}
    [] at = "wait closed" -> {"CANCELED", "REJECTED"}
    [] at = "wait terminal" -> Terminal
    [] OTHER -> {}

Drops ==
  /\ Wanted # {} /\ queue # <<>> /\ Head(queue) \notin Wanted
  /\ queue' = Tail(queue)
  /\ UNCHANGED <<script, at, exit, state, asked, online>>

Takes(place, kind) ==
  /\ at = place /\ queue # <<>>
  /\ Head(queue) = kind /\ kind \in Wanted
  /\ queue' = Tail(queue)
  /\ UNCHANGED <<script, state, asked, online>>

Submitted == Takes("wait submitted", "SUBMITTED") /\ Goes("wait decision")

Accepted == Takes("wait decision", "ACCEPTED") /\ Goes("cancel")

(* The reason of tqqq's rejection names the regulation, something else, or *)
(* nothing.                                                                *)
Rejected ==
  /\ Takes("wait decision", "REJECTED")
  /\ \E code \in IF script = "submit" THEN {0} ELSE {0, 1, 5} : Exits(code)

CanceledEarly == Takes("wait decision", "CANCELED") /\ Exits(5)

Closed ==
  /\ \E kind \in {"CANCELED", "REJECTED"} : Takes("wait closed", kind)
  /\ Exits(IF script = "submit" THEN 0 ELSE 4)

SawTerminal ==
  /\ \E kind \in Terminal : Takes("wait terminal", kind)
  /\ Exits(0)

(* The deadline passes.  cap then cancels; diag leaves the order.          *)
TimesOut ==
  /\ Wanted # {}
  /\ CASE at = "wait closed" -> Exits(IF script = "submit" THEN 7 ELSE 4)
       [] at = "wait terminal" /\ script = "cap" -> Goes("cancel")
       [] at = "wait terminal" /\ script = "diag" -> Exits(0)
       [] OTHER -> Exits(5)
  /\ UNCHANGED <<script, Order, online>>

(* mutant: the answer to the cancel is not waited for.                     *)
CancelAndLeave == Exits(0)

AfterCancel == IF script = "cap" THEN Exits(0) ELSE Goes("wait closed")

Cancels ==
  /\ at = "cancel" /\ online
  /\ asked' = TRUE
  /\ AfterCancel
  /\ UNCHANGED <<script, state, queue, online>>

CancelRaises ==
  /\ at = "cancel" /\ ~online
  /\ CASE script = "submit" -> Exits(6)
       [] script = "tqqq" -> Goes("wait closed")
       [] OTHER -> Exits(0)
  /\ UNCHANGED <<script, Order, online>>
-----------------------------------------------------------------------------
(* The broker and the venue; the venue may cancel an order unasked.        *)
Reports(trigger, kind) ==
  /\ at \notin {"start", "submit", "submitting"}      \* wire_ack comes first
  /\ FSM!Transition(TheOrder, trigger)
  /\ queue' = IF at = "end" \/ ~online THEN queue ELSE Append(queue, kind)
  /\ UNCHANGED <<script, at, exit, asked, online>>

SessionLost ==
  /\ online
  /\ online' = FALSE
  /\ UNCHANGED <<script, at, exit, Order>>

ProbeNext ==
  \/ Refused \/ Connects \/ Submits \/ SubmitRaises
  \/ SubmitReturns("wire_ack", "SUBMITTED") \/ SubmitReturns("wire_reject", "REJECTED")
  \/ Drops \/ Submitted \/ Accepted \/ Rejected \/ CanceledEarly \/ Closed \/ SawTerminal
  \/ TimesOut \/ Cancels \/ CancelRaises
  \/ Reports("accept", "ACCEPTED") \/ Reports("reject", "REJECTED")
  \/ Reports("fill", "FILLED") \/ Reports("cancel", "CANCELED")
  \/ SessionLost
-----------------------------------------------------------------------------
(* The exit code tells what was left at the venue: 0 or 1 of the stepwise  *)
(* probes that the order is closed and nothing was bought, 2 or 3 that     *)
(* none was placed, and 4 of tqqq that it was accepted and its cancel was  *)
(* asked for, unless the session was gone.                                 *)
ProbeTellsOrder ==
  /\ script \in Stepwise /\ exit \in {0, 1} => state[TheOrder] \in {"CANCELED", "REJECTED"}
  /\ script \in Stepwise /\ exit \in {2, 3}
       => state[TheOrder] \in {"INITIALIZED", "SUBMIT_PENDING"}
  /\ script = "submit" /\ exit \in {6, 7} => asked \/ ~online
  /\ script = "tqqq" /\ exit = 4 =>
       /\ state[TheOrder] \notin {"INITIALIZED", "SUBMIT_PENDING", "SUBMITTED"}
       /\ asked \/ ~online
=============================================================================
