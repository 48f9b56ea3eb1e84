----------------------------- MODULE IBPipeline -----------------------------
(***************************************************************************)
(* The rebalance driver (blive/runtime/ib_pipeline.py, the multi-symbol    *)
(* form) over the risk engine's kill switch and a broker it knows only as  *)
(* a queue of OrderEvents.  One coroutine sizes a bar against its own view *)
(* of the positions, and takes each order through approve, submit, a drain *)
(* of the queue with a deadline and, when that passes, cancel and a second *)
(* drain.  The broker, the venue and whoever arms the switch run whenever  *)
(* the driver awaits.                                                      *)
(*                                                                         *)
(* The broker is its promise: the state of every order walks OrderFSM and  *)
(* each transition after submit_call puts its event on the queue.          *)
(***************************************************************************)
EXTENDS Integers, Sequences, FiniteSets, Functions

CONSTANTS
  Instruments,   \* symbols, in the order of the instruments argument, each once
  Targets,       \* quantities, whole numbers, the sizer may be asked to hold
  MaxBars        \* bound: bars of the canonical instrument

VARIABLES
  pc,         \* where the driver is
  bar,        \* bars begun
  todo,       \* candidate orders of this bar not yet approved
  reached,    \* reached_accepted of the drain in progress
  positions,  \* local view, per symbol
  result,     \* counters of IBMultiRunResult
  armed       \* KillSwitch._armed

VARIABLES     \* the broker and the venue
  connected,  \* IBBroker._connected
  orders,     \* orders handed to submit; their ids are their places
  state,      \* FSM state of each order at the broker
  executed,   \* shares executed per order
  asked,      \* orders for which cancelOrder was called
  queue       \* IBBroker._events

VARIABLES     \* history
  timedOut,   \* orders whose first drain passed its deadline
  parts,      \* shares of each order that came in partial fills
  whileArmed  \* orders placed since the switch was last armed

driver  == <<pc, bar, todo, reached, positions, result>>
broker  == <<connected, orders, state, executed, asked, queue>>
history == <<timedOut, parts, whileArmed>>
vars    == <<driver, armed, broker, history>>

Symbols == Range(Instruments)

ASSUME DriverAssumption ==
  Instruments \in Seq(Symbols) /\ Targets \subseteq Int /\ MaxBars \in Nat

MaxOrders == MaxBars * Len(Instruments)
OrderIds == 1..MaxOrders
Shares(n) == IF n < 0 THEN -n ELSE n

FSM == INSTANCE OrderFSM WITH Orders <- OrderIds

Order == [sym : Symbols, delta : Int \ {0}]

TerminalStates == {"FILLED", "CANCELED", "REJECTED"}

Event(o, kind, qty) == [order |-> o, kind |-> kind, qty |-> qty]

Current == Len(orders)      \* every submitted order gets a fresh uuid4
Rest(o) == Shares(orders[o].delta) - executed[o]
-----------------------------------------------------------------------------
Candidate(sym, target) == [sym |-> sym, delta |-> target[sym] - positions[sym]]

(* size_orders, one candidate for each symbol whose target differs from    *)
(* the local position, in the order of the weights: of[i] is the list of   *)
(* candidates after i symbols.                                             *)
Candidates(target) ==
  LET of[i \in 0..Len(Instruments)] ==
        IF i = 0 THEN <<>>
        ELSE LET c == Candidate(Instruments[i], target)
             IN IF c.delta # 0 THEN Append(of[i - 1], c) ELSE of[i - 1]
  IN of[Len(Instruments)]

(* A bar with weights; bars without any are not walked.                    *)
StartBar ==
  /\ pc = "bar" /\ bar < MaxBars
  /\ \E target \in [Symbols -> Targets] : todo' = Candidates(target)
  /\ bar' = bar + 1
  /\ pc' = "approve"
  /\ UNCHANGED <<reached, positions, result, armed, broker, history>>

EndBar ==
  /\ pc = "approve" /\ todo = <<>>
  /\ pc' = "bar"
  /\ UNCHANGED <<bar, todo, reached, positions, result, armed, broker, history>>

Finish ==
  /\ pc = "bar"
  /\ pc' = "done"
  /\ UNCHANGED <<bar, todo, reached, positions, result, armed, broker, history>>

KillSwitchPassed == TRUE        \* mutant: approve skips RC-13

(* RC-13, the first check of approve; the others may block any order.      *)
MayApprove == ~armed

Refuse ==
  /\ pc = "approve" /\ todo # <<>>
  /\ todo' = Tail(todo)
  /\ UNCHANGED <<pc, bar, reached, positions, result, armed, broker, history>>

(* approve and the head of submit, up to its first await.                  *)
Approve ==
  /\ pc = "approve" /\ todo # <<>>
  /\ MayApprove
  /\ orders' = Append(orders, Head(todo))
  /\ FSM!Transition(Len(orders'), "submit_call")
  /\ todo' = Tail(todo)
  /\ pc' = "place"
  /\ UNCHANGED <<bar, reached, positions, result, armed>>
  /\ UNCHANGED <<connected, executed, asked, queue, history>>

(* The rest of submit: placed, or rejected for want of a price grid.       *)
Submit(trigger, kind) ==
  /\ pc = "place" /\ (trigger = "wire_ack" => connected)
  /\ FSM!Transition(Current, trigger)
  /\ queue' = Append(queue, Event(Current, kind, 0))
  /\ whileArmed' = IF armed /\ trigger = "wire_ack" THEN whileArmed + 1 ELSE whileArmed
  /\ result' = [result EXCEPT !.submitted = @ + 1]
  /\ reached' = FALSE
  /\ pc' = "drain"
  /\ UNCHANGED <<bar, todo, positions, armed, connected, orders, executed, asked>>
  /\ UNCHANGED <<timedOut, parts>>

(* A sizing error, a failed price lookup or a lost session raises out of   *)
(* the driver: nothing catches it.                                         *)
Raise ==
  /\ \/ pc \in {"bar", "place"}
     \/ pc = "cancel" /\ ~connected
  /\ pc' = "raised"
  /\ UNCHANGED <<bar, todo, reached, positions, result, armed, broker, history>>
-----------------------------------------------------------------------------
(* _drain_order_lifecycle, one event at a time.                            *)
ForAnyOrder(ev) == TRUE         \* mutant: the target_id filter is dropped

ForTarget(ev) == ev.order = Current

Skip ==
  /\ pc \in {"drain", "redrain"} /\ queue # <<>>
  /\ ~ForTarget(Head(queue))
  /\ queue' = Tail(queue)
  /\ UNCHANGED <<driver, armed, connected, orders, state, executed, asked, history>>

Progress ==
  /\ pc \in {"drain", "redrain"} /\ queue # <<>>
  /\ ForTarget(Head(queue)) /\ Head(queue).kind \notin TerminalStates
  /\ queue' = Tail(queue)
  /\ reached' = (reached \/ Head(queue).kind # "SUBMITTED")
  /\ UNCHANGED <<pc, bar, todo, positions, result, armed>>
  /\ UNCHANGED <<connected, orders, state, executed, asked, history>>

Count(field) == [result EXCEPT ![field] = @ + 1]

AcceptedIf(yes, r) == IF yes THEN [r EXCEPT !.accepted = @ + 1] ELSE r

(* apply_fill of the fill of the terminal event, signed by the side.       *)
Booked(o, ev) == IF orders[o].delta > 0 THEN ev.qty ELSE -ev.qty

(* A terminal event in the first drain.                                    *)
Settle(kind, counter) ==
  /\ pc = "drain" /\ queue # <<>>
  /\ ForTarget(Head(queue)) /\ Head(queue).kind = kind
  /\ queue' = Tail(queue)
  /\ result' = AcceptedIf(reached \/ kind = "FILLED", Count(counter))
  /\ positions' = IF kind = "FILLED"
                  THEN [positions EXCEPT ![orders[Current].sym] =
                          @ + Booked(Current, Head(queue))]
                  ELSE positions
  /\ pc' = "approve"
  /\ UNCHANGED <<bar, todo, reached, armed>>
  /\ UNCHANGED <<connected, orders, state, executed, asked, history>>

DeadlineIfBusy == queue # <<>>  \* mutant: queue.get() is awaited without a timeout

(* The clock may pass the deadline before any event is pulled.             *)
DeadlinePassed == TRUE

AfterDeadlineDrain == "redrain" \* mutant: the cancel is left out

AfterDeadline == "cancel"

TimeOut ==
  /\ pc = "drain"
  /\ DeadlinePassed
  /\ result' = AcceptedIf(reached, result)
  /\ timedOut' = timedOut \cup {Current}
  /\ pc' = AfterDeadline
  /\ UNCHANGED <<bar, todo, reached, positions, armed, broker, parts, whileArmed>>

(* cancelOrder, or the KeyError of an order that never reached the venue.  *)
Cancel ==
  /\ pc = "cancel" /\ connected
  /\ asked' = asked \cup {Current}
  /\ pc' = "redrain"
  /\ UNCHANGED <<bar, todo, reached, positions, result, armed>>
  /\ UNCHANGED <<connected, orders, state, executed, queue, history>>

AbandonedAccepted ==            \* mutant: acceptance is counted a second time
  AcceptedIf(reached, Count("canceled"))

Abandoned == Count("canceled")

(* The second drain ignores its outcome, a fill included.                  *)
Abandon ==
  /\ pc = "redrain"
  /\ \/ DeadlinePassed /\ UNCHANGED queue
     \/ /\ queue # <<>> /\ ForTarget(Head(queue))
        /\ Head(queue).kind \in TerminalStates
        /\ queue' = Tail(queue)
  /\ result' = Abandoned
  /\ pc' = "approve"
  /\ UNCHANGED <<bar, todo, reached, positions, armed>>
  /\ UNCHANGED <<connected, orders, state, executed, asked, history>>
-----------------------------------------------------------------------------
(* KillSwitch, armed and cleared from outside.                             *)
Arm ==
  /\ ~armed
  /\ armed' = TRUE
  /\ whileArmed' = 0
  /\ UNCHANGED <<driver, broker, timedOut, parts>>

Clear ==
  /\ armed
  /\ armed' = FALSE
  /\ UNCHANGED <<driver, broker, history>>

(* The broker reports what the venue did with an order it holds.           *)
Report(o, trigger, kind, qty) ==
  /\ FSM!Transition(o, trigger)
  /\ queue' = Append(queue, Event(o, kind, qty))
  /\ executed' = [executed EXCEPT ![o] = @ + qty]
  /\ parts' = IF kind = "PARTIAL_FILL" THEN [parts EXCEPT ![o] = @ + qty] ELSE parts
  /\ UNCHANGED <<driver, armed, connected, orders, asked, timedOut, whileArmed>>

Held(o) == o <= Len(orders)

VenueAccepts(o) == Held(o) /\ Report(o, "accept", "ACCEPTED", 0)
VenueRejects(o) == Held(o) /\ Report(o, "reject", "REJECTED", 0)
VenueCancels(o) == Held(o) /\ Report(o, "cancel", "CANCELED", 0)
VenueFills(o) == Held(o) /\ Report(o, "fill", "FILLED", Rest(o))
VenueFillsPart(o) ==
  Held(o) /\ \E n \in 1..(Rest(o) - 1) : Report(o, "partial_fill", "PARTIAL_FILL", n)

ConnectionLost ==
  /\ connected
  /\ connected' = FALSE
  /\ UNCHANGED <<driver, armed, orders, state, executed, asked, queue, history>>
-----------------------------------------------------------------------------
(* The startup drain leaves the queue empty.                               *)
Init ==
  /\ pc = "bar" /\ bar = 0 /\ todo = <<>> /\ reached = FALSE
  /\ positions = [sym \in Symbols |-> 0]
  /\ result = [submitted |-> 0, accepted |-> 0, fills |-> 0, canceled |-> 0, rejected |-> 0]
  /\ armed = FALSE /\ connected = TRUE
  /\ orders = <<>> /\ queue = <<>> /\ asked = {}
  /\ FSM!Init
  /\ executed = [o \in OrderIds |-> 0]
  /\ timedOut = {} /\ parts = executed /\ whileArmed = 0

Driver ==
  \/ StartBar \/ EndBar \/ Finish \/ Refuse \/ Approve \/ Raise
  \/ Submit("wire_ack", "SUBMITTED") \/ Submit("wire_reject", "REJECTED")
  \/ Skip \/ Progress \/ TimeOut \/ Cancel \/ Abandon
  \/ Settle("FILLED", "fills") \/ Settle("CANCELED", "canceled")
  \/ Settle("REJECTED", "rejected")

Environment ==
  \/ Arm \/ Clear \/ ConnectionLost
  \/ \E o \in OrderIds :
       \/ VenueAccepts(o) \/ VenueRejects(o) \/ VenueCancels(o)
       \/ VenueFills(o) \/ VenueFillsPart(o)

Next == Driver \/ Environment

(* The event loop resumes the driver: its awaits return or their deadline  *)
(* passes.  Nothing is assumed of the venue.                               *)
Spec == Init /\ [][Next]_vars
FairSpec == Spec /\ WF_vars(Driver)
-----------------------------------------------------------------------------
(* Properties.                                                             *)

InFlight == pc \in {"drain", "cancel", "redrain"}
OrdersOf(sym) == {o \in 1..Len(orders) : orders[o].sym = sym}

(* Type invariant; an order is never executed beyond its quantity.         *)
TypeOK ==
  /\ pc \in {"bar", "approve", "place", "drain", "cancel", "redrain", "done", "raised"}
  /\ bar \in 0..MaxBars
  /\ todo \in Seq(Order)
  /\ reached \in BOOLEAN /\ armed \in BOOLEAN /\ connected \in BOOLEAN
  /\ positions \in [Symbols -> Int]
  /\ result \in [{"submitted", "accepted", "fills", "canceled", "rejected"} -> Nat]
  /\ orders \in Seq(Order)
  /\ Len(orders) + Len(todo) + (MaxBars - bar) * Len(Instruments) <= MaxOrders
  /\ FSM!TypeOK
  /\ executed \in [OrderIds -> Nat]
  /\ \A o \in 1..Len(orders) : Rest(o) >= 0
  /\ asked \subseteq OrderIds /\ timedOut \subseteq OrderIds
  /\ queue \in Seq([order : OrderIds, kind : FSM!OrderState \cup {"PARTIAL_FILL"}, qty : Nat])
  /\ whileArmed \in Nat

(* The counters of the run: every submitted order is counted under exactly *)
(* one outcome, unless it is the one in flight when the driver raised or   *)
(* is still at work; a filled order was accepted.                          *)
Accounted ==
  /\ pc # "raised" =>
       result.submitted = result.fills + result.canceled + result.rejected
                          + (IF InFlight THEN 1 ELSE 0)
  /\ result.fills <= result.accepted /\ result.accepted <= result.submitted

DriverInv == TypeOK /\ Accounted

(* No second order is handed to the broker while an earlier one works      *)
(* uncancelled, whatever drains, deadlines and venue events interleave.    *)
OneWorkingOrder ==
  \A o \in 1..(Len(orders) - 1) : state[o] \in TerminalStates \/ o \in asked

(* What the local view, which the sizer sizes against, is short of the     *)
(* venue's: exactly the partial fills of settled orders and all that was   *)
(* executed for orders given up at the deadline.  No event of another      *)
(* order is ever booked, none is booked twice.                             *)
Total(sym, shares(_)) ==
  SumFunctionOnSet([o \in 1..Len(orders) |->
                      IF orders[o].delta > 0 THEN shares(o) ELSE -shares(o)], OrdersOf(sym))

LocalViewLag ==
  pc \in {"bar", "approve", "done"} =>
    \A sym \in Symbols :
      positions[sym] =
        Total(sym, LAMBDA o : IF o \in timedOut THEN 0 ELSE executed[o] - parts[o])

(* Once the kill switch is armed at most the one order that was already    *)
(* approved still reaches the venue: approve looks, submit does not.       *)
AtMostOneWhileArmed == armed => whileArmed <= 1

(* A run ends: no order can hold the driver, even one the broker never     *)
(* reports on.                                                             *)
RunEnds == <>(pc \in {"done", "raised"})
-----------------------------------------------------------------------------
(* What the docstring says (step 5: the position view is updated from      *)
(* observed fills) and the driver does not do: with every event observed,  *)
(* the view still lacks partial fills and fills of the second drain.       *)
ViewFollowsFills ==
  pc = "bar" /\ queue = <<>> =>
    \A sym \in Symbols : positions[sym] = Total(sym, LAMBDA o : executed[o])
=============================================================================
