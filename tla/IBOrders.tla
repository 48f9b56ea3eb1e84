------------------------------ MODULE IBOrders ------------------------------
(***************************************************************************)
(* The write side of IBBroker (blive/adapters/ib/broker.py): submit and    *)
(* cancel coroutines, the per-trade status and fill handlers, the global   *)
(* error handler, the deferred REJECTED task, connect and disconnect.      *)
(*                                                                         *)
(* One asyncio loop runs everything, so an action is the code between two  *)
(* awaits.  asyncio.create_task(queue.put(..)) is an entry of the FIFO     *)
(* ready queue `tasks'; a put on the unbounded event queue never yields.   *)
(* The IB gateway and ib_async are external: they execute, cancel, hold    *)
(* and report orders as the handlers in this file presume they may.        *)
(***************************************************************************)
EXTENDS Naturals, Sequences, FiniteSets, Functions

CONSTANTS
  Orders,           \* client order ids
  Callers,          \* coroutines that call submit / cancel
  Execs,            \* venue execution ids
  ExecQty,          \* shares of each execution
  Qty,              \* quantity of every order
  NoOrder, NoExec,
  MaxWires,         \* bound: venue orders ever placed
  MaxSubmits,       \* bound: submit calls per client order id
  ConcurrentReuse,  \* may two submit calls with one id be in flight at once?
  LateInactive      \* may the venue push Inactive after it acknowledged?

ASSUME BoundsAssumption == MaxWires \in Nat /\ MaxSubmits \in Nat
ASSUME QtyAssumption == Qty \in Nat \ {0} /\ ExecQty \in [Execs -> Nat \ {0}]
ASSUME NoneAssumption == NoExec \notin Execs /\ NoOrder \notin Orders
ASSUME ModeAssumption == ConcurrentReuse \in BOOLEAN /\ LateInactive \in BOOLEAN

VARIABLES
  connected,  \* IBBroker._connected
  call,       \* where each coroutine is suspended
  tries,      \* submit calls begun per id (bound and FSM state)
  trade,      \* _trades_by_client_id: venue order of an id, 0 when absent
  track,      \* _order_tracking
  stash,      \* keys of _error_by_order_id
  tasks,      \* ready queue: tasks created by the handlers, oldest first
  emitted     \* OrderEvents put on _events, per client order id

VARIABLES     \* external: the venue and ib_async's Trade objects
  placed,     \* client order id of each venue order, in placeOrder order
  vstate,     \* state of each venue order
  executed,   \* executions the venue made per venue order
  delivered,  \* executions pushed to the broker at least once
  signals,    \* text on the Trade: see Signal
  asked,      \* venue orders for which cancelOrder was called
  heard       \* history: errorEvents this session has seen

broker == <<connected, call, tries, trade, track, stash, tasks, emitted>>
venue  == <<placed, vstate, executed, delivered, signals, asked, heard>>
vars   == <<broker, venue>>

Wires == 1..MaxWires     \* venue order ids
NoWire == 0              \* venue_order_id=None
InactiveYields == 3      \* sleep(0) calls of _emit_rejected_via_inactive

Event(kind, w, e, why) == [kind |-> kind, wire |-> w, exec |-> e, why |-> why]

Kinds == {"SUBMITTED", "ACCEPTED", "PARTIAL_FILL", "FILLED", "CANCELED", "REJECTED"}
TerminalKinds == {"FILLED", "CANCELED", "REJECTED"}
Reasons == {"none", "engine", "log", "held", "stash", "rejected", "price_rule"}

(* "lookup": the reason the deferred REJECTED task has yet to look up.     *)
EventsFor(reasons) == [kind : Kinds, wire : Wires \cup {NoWire},
                       exec : Execs \cup {NoExec}, why : reasons]
Events == EventsFor(Reasons)
Tasks == [order : Orders, ev : EventsFor(Reasons \cup {"lookup"}),
          left : 0..InactiveYields]

Tracking == [accepted : BOOLEAN, terminal : BOOLEAN, seen : SUBSET Execs, cum : Nat]
FreshTracking == [accepted |-> FALSE, terminal |-> FALSE, seen |-> {}, cum |-> 0]

(* "log": trade.log holds an error entry; "last": it is the last entry;     *)
(* "held": the latest status push carried a whyHeld text.                  *)
Signal == {"log", "last", "held"}

Idle == [pc |-> "idle", order |-> NoOrder, wire |-> NoWire]

Calls == {Idle} \cup [pc : {"snap", "token"}, order : Orders, wire : {NoWire}]
                \cup [pc : {"cancel"}, order : Orders, wire : Wires]

PlacedWires == 1..Len(placed)

(* asyncio.create_task: the task joins the ready queue.                    *)
CreateTask(q, o, ev, left) == Append(q, [order |-> o, ev |-> ev, left |-> left])

Emit(o, ev) == emitted' = [emitted EXCEPT ![o] = Append(@, ev)]
-----------------------------------------------------------------------------
(* Connection lifecycle.  Per-trade handlers are never detached, the two   *)
(* maps survive, the error stash is cleared.                               *)
Connect ==
  /\ ~connected
  /\ connected' = TRUE
  /\ UNCHANGED <<call, tries, trade, track, stash, tasks, emitted, venue>>

Disconnect ==
  /\ connected
  /\ connected' = FALSE
  /\ stash' = {}
  /\ heard' = {}
  /\ UNCHANGED <<call, tries, trade, track, tasks, emitted>>
  /\ UNCHANGED <<placed, vstate, executed, delivered, signals, asked>>
-----------------------------------------------------------------------------
(* submit: the duplicate check comes before both awaits, the registration  *)
(* after them.  A tracked id raises, which changes nothing.                *)
InFlight(o) == \E c \in Callers : call[c].pc \in {"snap", "token"} /\ call[c].order = o

UntrackedAlways(o) == TRUE     \* mutant: the duplicate check is dropped

Untracked(o) == trade[o] = NoWire

SubmitCall(c, o) ==
  /\ call[c] = Idle
  /\ connected
  /\ Untracked(o)
  /\ tries[o] < MaxSubmits
  /\ ConcurrentReuse \/ ~InFlight(o)
  /\ tries' = [tries EXCEPT ![o] = @ + 1]
  /\ \E pc \in {"snap", "token"} :      \* priced orders look up the tick grid
       call' = [call EXCEPT ![c] = [pc |-> pc, order |-> o, wire |-> NoWire]]
  /\ UNCHANGED <<connected, trade, track, stash, tasks, emitted, venue>>

SnapDone(c) ==
  /\ call[c].pc = "snap"
  /\ call' = [call EXCEPT ![c].pc = "token"]
  /\ UNCHANGED <<connected, tries, trade, track, stash, tasks, emitted, venue>>

(* PriceRuleUnavailable: REJECTED is put and the id stays unregistered.    *)
SnapUnavailable(c) ==
  /\ call[c].pc = "snap"
  /\ Emit(call[c].order, Event("REJECTED", NoWire, NoExec, "price_rule"))
  /\ call' = [call EXCEPT ![c] = Idle]
  /\ UNCHANGED <<connected, tries, trade, track, stash, tasks, venue>>

Place(c) ==
  LET o == call[c].order
      w == Len(placed) + 1
  IN /\ call[c].pc = "token"
     /\ connected
     /\ w \in Wires
     /\ placed' = Append(placed, o)
     /\ trade' = [trade EXCEPT ![o] = w]
     /\ track' = [track EXCEPT ![o] = FreshTracking]
     /\ Emit(o, Event("SUBMITTED", w, NoExec, "none"))
     /\ call' = [call EXCEPT ![c] = Idle]
     /\ UNCHANGED <<connected, tries, stash, tasks>>
     /\ UNCHANGED <<vstate, executed, delivered, signals, asked, heard>>

(* After the price lookup the order may prove unmappable, or the lookup     *)
(* itself fail; after the token the session may be gone and ib_async raises. *)
CallRaises(c) ==
  /\ \/ call[c].pc = "snap"
     \/ call[c].pc \in {"token", "cancel"} /\ ~connected
  /\ call' = [call EXCEPT ![c] = Idle]
  /\ UNCHANGED <<connected, tries, trade, track, stash, tasks, emitted, venue>>

CancelCall(c, o) ==
  /\ call[c] = Idle
  /\ connected
  /\ trade[o] # NoWire
  /\ call' = [call EXCEPT ![c] = [pc |-> "cancel", order |-> o, wire |-> trade[o]]]
  /\ UNCHANGED <<connected, tries, trade, track, stash, tasks, emitted, venue>>

CancelSend(c) ==
  /\ call[c].pc = "cancel"
  /\ connected
  /\ asked' = asked \cup {call[c].wire}
  /\ call' = [call EXCEPT ![c] = Idle]
  /\ UNCHANGED <<connected, tries, trade, track, stash, tasks, emitted>>
  /\ UNCHANGED <<placed, vstate, executed, delivered, signals, heard>>
-----------------------------------------------------------------------------
(* Per-trade handlers.  All ignore an order marked terminal_emitted.       *)
ClosedNever(o) == FALSE        \* mutant: terminal_emitted is not consulted

Closed(o) == track[o].terminal

(* _on_order_status, the branch taken for each group of IB statuses.       *)
OnAccepted(w) ==
  LET o == placed[w] IN
  /\ IF Closed(o) \/ track[o].accepted
     THEN UNCHANGED <<track, tasks>>
     ELSE /\ track' = [track EXCEPT ![o].accepted = TRUE]
          /\ tasks' = CreateTask(tasks, o, Event("ACCEPTED", w, NoExec, "none"), 0)
  /\ UNCHANGED stash

(* mutant: an error entry rejects an accepted order too                    *)
CancelIsRejectLogged(w) == "log" \in signals[w]

(* Before acceptance an error entry of trade.log turns it into REJECTED.   *)
CancelIsReject(w) == ~track[placed[w]].accepted /\ "log" \in signals[w]

OnCancelled(w) ==
  LET o == placed[w]
      ev == IF CancelIsReject(w) THEN Event("REJECTED", w, NoExec, "log")
                                 ELSE Event("CANCELED", w, NoExec, "engine")
  IN IF Closed(o)
     THEN UNCHANGED <<track, tasks, stash>>
     ELSE /\ track' = [track EXCEPT ![o].terminal = TRUE]
          /\ tasks' = CreateTask(tasks, o, ev, 0)
          /\ stash' = stash \ {w}

(* Reason chain: the trade's own text, then the stash, then the fallback.  *)
RejectReason(w) ==
  IF "last" \in signals[w] THEN "log"
  ELSE IF "held" \in signals[w] THEN "held"
  ELSE IF w \in stash THEN "stash" ELSE "rejected"

(* Inactive closes the order now and looks the reason up later.            *)
Inactivate(w, why, left) ==
  LET o == placed[w] IN
  /\ IF Closed(o)
     THEN UNCHANGED <<track, tasks>>
     ELSE /\ track' = [track EXCEPT ![o].terminal = TRUE]
          /\ tasks' = CreateTask(tasks, o, Event("REJECTED", w, NoExec, why), left)
  /\ UNCHANGED stash

OnInactiveAtOnce(w) == Inactivate(w, RejectReason(w), 0)  \* mutant: no deferral

OnInactive(w) == Inactivate(w, "lookup", InactiveYields)

(* _on_order_fill: execId dedup, implied ACCEPTED, cumulative quantity.    *)
SeenNever(o, e) == FALSE       \* mutant: no dedup

Seen(o, e) == e \in track[o].seen

CumOverwritten(o, e) == ExecQty[e]     \* mutant: += became =

CumAfter(o, e) == track[o].cum + ExecQty[e]

WholeStrict(o, e) == CumAfter(o, e) > Qty     \* mutant: > for >=

Whole(o, e) == CumAfter(o, e) >= Qty

ImpliedAccept(w) ==
  IF track[placed[w]].accepted THEN tasks
  ELSE CreateTask(tasks, placed[w], Event("ACCEPTED", w, NoExec, "none"), 0)

OnFill(w, e) ==
  LET o == placed[w]
      whole == Whole(o, e)
      kind == IF whole THEN "FILLED" ELSE "PARTIAL_FILL"
  IN IF Closed(o) \/ Seen(o, e)
     THEN UNCHANGED <<track, tasks, stash>>
     ELSE /\ track' = [track EXCEPT ![o] =
                         [accepted |-> TRUE, terminal |-> whole,
                          seen |-> @.seen \cup {e}, cum |-> CumAfter(o, e)]]
          /\ tasks' = CreateTask(ImpliedAccept(w), o, Event(kind, w, e, "none"), 0)
          /\ stash' = IF whole THEN stash \ {w} ELSE stash
-----------------------------------------------------------------------------
(* External venue.  A status push runs its handler in the same loop step.  *)
Live(w) == w \in PlacedWires /\ vstate[w] # "cancelled"

(* A status push appends a textless log entry and replaces whyHeld.        *)
StatusText(w, text) == signals' = [signals EXCEPT ![w] = (@ \cap {"log"}) \cup text]

AtVenue == UNCHANGED <<connected, call, tries, trade, emitted>>

VenueAccept(w) ==        \* Submitted / PreSubmitted
  /\ Live(w) /\ connected
  /\ vstate' = [vstate EXCEPT ![w] = "working"]
  /\ StatusText(w, {})
  /\ OnAccepted(w)
  /\ AtVenue /\ UNCHANGED <<placed, executed, delivered, asked, heard>>

Sum(execs) == SumFunctionOnSet(ExecQty, execs)

VenueExecute(w, e) ==    \* the venue never executes more than the order
  /\ Live(w)
  /\ \A v \in Wires : e \notin executed[v]
  /\ Sum(executed[w]) + ExecQty[e] <= Qty
  /\ executed' = [executed EXCEPT ![w] = @ \cup {e}]
  /\ UNCHANGED <<broker, placed, vstate, delivered, signals, asked, heard>>

DeliverFill(w, e) ==     \* execDetails, late and repeated pushes included
  /\ w \in PlacedWires /\ connected
  /\ e \in executed[w]
  /\ delivered' = delivered \cup {e}
  /\ OnFill(w, e)
  /\ AtVenue /\ UNCHANGED <<placed, vstate, executed, signals, asked, heard>>

VenueCancel(w) ==        \* Cancelled / ApiCancelled, lost when disconnected
  /\ Live(w) /\ Sum(executed[w]) < Qty
  /\ vstate' = [vstate EXCEPT ![w] = "cancelled"]
  /\ IF connected THEN OnCancelled(w) /\ StatusText(w, {})
                  ELSE UNCHANGED <<track, tasks, stash, signals>>
  /\ AtVenue /\ UNCHANGED <<placed, executed, delivered, asked, heard>>

VenueInactive(w, held) ==
  /\ Live(w) /\ connected
  /\ LateInactive \/ (vstate[w] = "sent" /\ executed[w] = {})
  /\ StatusText(w, IF held THEN {"held"} ELSE {})
  /\ OnInactive(w)
  /\ AtVenue /\ UNCHANGED <<placed, vstate, executed, delivered, asked, heard>>

(* _on_ib_error; ib_async appends some errors to trade.log as well.        *)
VenueError(w, logged) ==
  /\ w \in PlacedWires /\ connected
  /\ stash' = stash \cup {w}
  /\ heard' = heard \cup {w}
  /\ signals' = [signals EXCEPT ![w] = IF logged THEN @ \cup {"log", "last"} ELSE @]
  /\ UNCHANGED <<track, tasks>>
  /\ AtVenue /\ UNCHANGED <<placed, vstate, executed, delivered, asked>>
-----------------------------------------------------------------------------
(* The ready queue.  A task inside sleep(0) goes to the back.              *)
Yielding == tasks # <<>> /\ Head(tasks).left > 0

(* mutant: the deferred task sleeps until an error has been stashed        *)
YieldUntilStashed ==
  /\ Yielding
  /\ LET t == Head(tasks) IN
     tasks' = Append(Tail(tasks), [t EXCEPT !.left = IF t.ev.wire \in stash THEN 0 ELSE @])
  /\ UNCHANGED <<connected, call, tries, trade, track, stash, emitted, venue>>

YieldTask ==
  /\ Yielding
  /\ tasks' = Append(Tail(tasks), [Head(tasks) EXCEPT !.left = @ - 1])
  /\ UNCHANGED <<connected, call, tries, trade, track, stash, emitted, venue>>

Deferred(t) == t.ev.why = "lookup"

PutEvent(t) ==
  IF Deferred(t) THEN [t.ev EXCEPT !.why = RejectReason(t.ev.wire)] ELSE t.ev

PutTask ==
  /\ tasks # <<>>
  /\ LET t == Head(tasks) IN
     /\ t.left = 0
     /\ tasks' = Tail(tasks)
     /\ Emit(t.order, PutEvent(t))
     /\ stash' = IF Deferred(t) THEN stash \ {t.ev.wire} ELSE stash
  /\ UNCHANGED <<connected, call, tries, trade, track, venue>>
-----------------------------------------------------------------------------
Init ==
  /\ connected = FALSE
  /\ call = [c \in Callers |-> Idle]
  /\ tries = [o \in Orders |-> 0]
  /\ trade = [o \in Orders |-> NoWire]
  /\ track = [o \in Orders |-> FreshTracking]
  /\ stash = {} /\ tasks = <<>>
  /\ emitted = [o \in Orders |-> <<>>]
  /\ placed = <<>>
  /\ vstate = [w \in Wires |-> "sent"]
  /\ executed = [w \in Wires |-> {}]
  /\ delivered = {} /\ asked = {} /\ heard = {}
  /\ signals = [w \in Wires |-> {}]

Next ==
  \/ Connect \/ Disconnect \/ YieldTask \/ PutTask
  \/ \E c \in Callers :
       \/ SnapDone(c) \/ SnapUnavailable(c) \/ Place(c)
       \/ CallRaises(c) \/ CancelSend(c)
       \/ \E o \in Orders : SubmitCall(c, o) \/ CancelCall(c, o)
  \/ \E w \in Wires :
       \/ VenueAccept(w) \/ VenueCancel(w)
       \/ \E e \in Execs : VenueExecute(w, e) \/ DeliverFill(w, e)
       \/ \E b \in BOOLEAN : VenueInactive(w, b) \/ VenueError(w, b)

(* The loop keeps running ready tasks; nothing is assumed of the venue.    *)
Fairness == WF_vars(YieldTask) /\ WF_vars(PutTask)

Spec == Init /\ [][Next]_vars
FairSpec == Spec /\ Fairness
-----------------------------------------------------------------------------
(* Properties.                                                             *)

(* Type invariant of the broker's and the venue's state.                   *)
TypeOK ==
  /\ connected \in BOOLEAN
  /\ call \in [Callers -> Calls]
  /\ tries \in [Orders -> 0..MaxSubmits]
  /\ trade \in [Orders -> Wires \cup {NoWire}]
  /\ track \in [Orders -> Tracking]
  /\ tasks \in Seq(Tasks)
  /\ emitted \in [Orders -> Seq(Events)]
  /\ placed \in Seq(Orders) /\ Len(placed) <= MaxWires
  /\ vstate \in [Wires -> {"sent", "working", "cancelled"}]
  /\ executed \in [Wires -> SUBSET Execs]
  /\ signals \in [Wires -> SUBSET Signal]
  /\ delivered \subseteq Execs
  /\ stash \subseteq Wires /\ asked \subseteq Wires /\ heard \subseteq Wires

IsTerminal(ev) == ev.wire # NoWire /\ ev.kind \in TerminalKinds

(* A client order id reaches placeOrder at most once, however submits,     *)
(* retries, failed price lookups and reconnects interleave: the check at   *)
(* the head of submit and the registration after its awaits.               *)
PlacedOnce == \A v, w \in PlacedWires : placed[v] = placed[w] => v = w

(* Nothing is put for a venue order after its terminal event, although     *)
(* the REJECTED of an Inactive status is looked up three loop turns late.  *)
TerminalIsLast ==
  \A o \in Orders : \A i, j \in DOMAIN emitted[o] :
    i < j /\ emitted[o][i].wire = emitted[o][j].wire => ~IsTerminal(emitted[o][i])

(* The inductive strengthening of the two.  A coroutine inside submit owns  *)
(* its id, every venue order is the tracked one of its id, a terminal task  *)
(* is the last of its order in the ready queue and only it ever sleeps.     *)
Submitting(c) == call[c].pc \in {"snap", "token"}

CallInv ==
  \A c \in Callers : Submitting(c) =>
    /\ trade[call[c].order] = NoWire
    /\ \A d \in Callers : Submitting(d) /\ call[d].order = call[c].order => c = d

WireInv == \A w \in PlacedWires : trade[placed[w]] = w

QueueInv ==
  \A i \in DOMAIN tasks :
    /\ tasks[i].ev.wire \in PlacedWires
    /\ tasks[i].order = placed[tasks[i].ev.wire]
    /\ tasks[i].left > 0 => tasks[i].ev.kind \in TerminalKinds
    /\ tasks[i].ev.kind \in TerminalKinds =>
         /\ track[tasks[i].order].terminal
         /\ \A j \in DOMAIN tasks : i < j => tasks[j].ev.wire # tasks[i].ev.wire

StreamInv ==
  \A o \in Orders : \A i \in DOMAIN emitted[o] :
    emitted[o][i].wire # NoWire =>
      /\ emitted[o][i].wire \in PlacedWires
      /\ placed[emitted[o][i].wire] = o
      /\ IsTerminal(emitted[o][i]) =>
           /\ track[o].terminal
           /\ \A j \in DOMAIN tasks : tasks[j].ev.wire # emitted[o][i].wire

IInv == TypeOK /\ CallInv /\ WireInv /\ QueueInv /\ StreamInv /\ TerminalIsLast

(* An execution re-pushed after a reconnect is reported once.              *)
NoExecTwice ==
  \A o, p \in Orders : \A i \in DOMAIN emitted[o], j \in DOMAIN emitted[p] :
    emitted[o][i].exec = emitted[p][j].exec =>
      emitted[o][i].exec = NoExec \/ (o = p /\ i = j)

Reported(o, n) == {emitted[o][i].exec : i \in 1..n} \ {NoExec}
Queued(o) == {tasks[i].ev.exec : i \in {j \in DOMAIN tasks : tasks[j].order = o}} \ {NoExec}

(* The tracking record, the events put, the tasks not yet run and the      *)
(* executions the venue pushed tell one story: nothing delivered before    *)
(* the terminal event is lost, nothing is reported that was not executed.  *)
SeenLedger ==
  \A o \in Orders :
    LET known == Reported(o, Len(emitted[o])) \cup Queued(o) IN
    /\ track[o].seen = known
    /\ trade[o] # NoWire =>
         /\ known \subseteq executed[trade[o]]
         /\ executed[trade[o]] \cap delivered \subseteq known \/ track[o].terminal

FillLedger == SeenLedger /\ \A o \in Orders : track[o].cum = Sum(track[o].seen)

(* FILLED is put exactly with the execution that completes the quantity;   *)
(* a partial fill or a cancel never follows a complete one.                *)
FilledMeansWhole ==
  \A o \in Orders : \A i \in DOMAIN emitted[o] :
    LET qty == Sum(Reported(o, i)) IN
    /\ emitted[o][i].kind = "FILLED" => qty = Qty
    /\ emitted[o][i].kind \in {"PARTIAL_FILL", "CANCELED"} => qty < Qty

(* No execution is lost, repeated or taken for a complete one, whatever    *)
(* the order in which the venue pushes them and the handlers' tasks run.   *)
ExecutionsInv == NoExecTwice /\ FillLedger /\ FilledMeansWhole

(* REJECTED falls back to the bare reason "rejected" only when the session *)
(* heard no error for the order before the event was put: what the three   *)
(* sleep(0) turns of the deferred lookup are there for.                    *)
ReasonKept ==
  [][\A o \in Orders : emitted'[o] # emitted[o] =>
       LET ev == emitted'[o][Len(emitted'[o])] IN
       ev.why = "rejected" => ev.wire \notin heard]_emitted

(* INV-13 as a refinement: the state of an order is the one its last event *)
(* left it in.                                                             *)
StateOf(o) ==
  IF emitted[o] = <<>> THEN IF tries[o] = 0 THEN "INITIALIZED" ELSE "SUBMIT_PENDING"
  ELSE LET kind == emitted[o][Len(emitted[o])].kind
       IN IF kind = "PARTIAL_FILL" THEN "PARTIALLY_FILLED" ELSE kind

FSM == INSTANCE OrderFSM WITH state <- [o \in Orders |-> StateOf(o)]

(* Every event stream is a walk of the order FSM, as long as the venue     *)
(* pushes Inactive only before it acknowledged the order (LateInactive).   *)
RefinesFSM == FSM!Spec

(* Once a handler has marked an order terminal its event is put: the       *)
(* deferred task is not starved by the loop.                               *)
TerminalReported ==
  \A o \in Orders :
    track[o].terminal ~> \E i \in DOMAIN emitted[o] : IsTerminal(emitted[o][i])
=============================================================================
