--------------------------- MODULE IBOrders_proofs ---------------------------
(***************************************************************************)
(* Proofs about IBOrders for every set of orders, callers and executions,  *)
(* in this order: types; one placement per id and nothing after a terminal *)
(* event, from IInv; the reason of a REJECTED; what the executions of an   *)
(* order add up to, from the ledgers; and the refinement of OrderFSM, from *)
(* a walk that ties each stream to a state of the table.                   *)
(***************************************************************************)
EXTENDS IBOrders, SumLemmas, TLAPS

(* An event of a known kind, wire and execution is an Event.               *)
LEMMA EventType ==
  ASSUME NEW kind \in Kinds, NEW w \in Wires \cup {NoWire},
         NEW e \in Execs \cup {NoExec},
         NEW reasons, NEW why \in reasons
  PROVE  Event(kind, w, e, why) \in EventsFor(reasons)
BY DEF Event, EventsFor

(* The client order id of a placed venue order is one of Orders.           *)
LEMMA PlacedOrder ==
  ASSUME TypeOK, NEW w \in PlacedWires
  PROVE  w \in Wires /\ placed[w] \in Orders
BY BoundsAssumption DEF TypeOK, PlacedWires, Wires

(* A created task leaves the ready queue well typed.                       *)
LEMMA CreateTaskType ==
  ASSUME NEW q \in Seq(Tasks), NEW o \in Orders,
         NEW ev \in EventsFor(Reasons \cup {"lookup"}), NEW left \in 0..InactiveYields
  PROVE  CreateTask(q, o, ev, left) \in Seq(Tasks)
BY DEF CreateTask, Tasks

(* Putting an event keeps every stream a sequence of events.               *)
LEMMA EmitType ==
  ASSUME TypeOK, NEW o \in Orders, NEW ev \in Events, Emit(o, ev)
  PROVE  emitted' \in [Orders -> Seq(Events)]
BY DEF TypeOK, Emit

(* A freshly constructed broker has well-typed state.                      *)
LEMMA InitType == Init => TypeOK
<1> SUFFICES ASSUME Init PROVE TypeOK
  OBVIOUS
<1>1. track \in [Orders -> Tracking]
  BY DEF Init, FreshTracking, Tracking
<1>2. call \in [Callers -> Calls]
  BY DEF Init, Calls
<1>3. tasks \in Seq(Tasks) /\ placed \in Seq(Orders) /\ Len(placed) <= MaxWires
  BY BoundsAssumption DEF Init
<1>4. emitted \in [Orders -> Seq(Events)]
  BY DEF Init
<1>5. tries \in [Orders -> 0..MaxSubmits] /\ trade \in [Orders -> Wires \cup {NoWire}]
  BY BoundsAssumption DEF Init
<1>6. QED
  BY <1>1, <1>2, <1>3, <1>4, <1>5 DEF Init, TypeOK

(* Every action, one by one.  The handlers are typed first.                *)
LEMMA HandlerType ==
  ASSUME TypeOK, NEW w \in PlacedWires,
         \/ OnAccepted(w) \/ OnCancelled(w) \/ OnInactive(w)
         \/ \E e \in Execs : OnFill(w, e)
  PROVE  track' \in [Orders -> Tracking] /\ tasks' \in Seq(Tasks) /\ stash' \subseteq Wires
<1> DEFINE o == placed[w]
<1>1. w \in Wires /\ o \in Orders /\ w \in Wires \cup {NoWire}
  BY PlacedOrder
<1>2. track \in [Orders -> Tracking] /\ tasks \in Seq(Tasks) /\ stash \subseteq Wires
  BY DEF TypeOK
<1>3. track[o] \in Tracking
  BY <1>1, <1>2
<1>4. ASSUME NEW kind \in Kinds, NEW x \in Execs \cup {NoExec},
             NEW why \in Reasons \cup {"lookup"}
      PROVE  Event(kind, w, x, why) \in EventsFor(Reasons \cup {"lookup"})
  BY <1>1, EventType
<1>5. 0 \in 0..InactiveYields /\ InactiveYields \in 0..InactiveYields
  BY DEF InactiveYields
<1> HIDE DEF o
<1>6. CASE OnAccepted(w)
  <2>1. Event("ACCEPTED", w, NoExec, "none") \in EventsFor(Reasons \cup {"lookup"})
    BY <1>4 DEF Kinds, Reasons
  <2>2. CreateTask(tasks, o, Event("ACCEPTED", w, NoExec, "none"), 0) \in Seq(Tasks)
    BY <2>1, <1>1, <1>2, <1>5, CreateTaskType
  <2>3. [track EXCEPT ![o].accepted = TRUE] \in [Orders -> Tracking]
    BY <1>1, <1>2, <1>3 DEF Tracking
  <2>4. QED
    BY <1>6, <1>2, <2>2, <2>3 DEF OnAccepted, o
<1>7. [track EXCEPT ![o].terminal = TRUE] \in [Orders -> Tracking]
  BY <1>1, <1>2, <1>3 DEF Tracking
<1>8. CASE OnCancelled(w)
  <2>1. /\ Event("REJECTED", w, NoExec, "log") \in EventsFor(Reasons \cup {"lookup"})
        /\ Event("CANCELED", w, NoExec, "engine") \in EventsFor(Reasons \cup {"lookup"})
    BY <1>4 DEF Kinds, Reasons
  <2>2. ASSUME NEW ev \in EventsFor(Reasons \cup {"lookup"})
        PROVE  CreateTask(tasks, o, ev, 0) \in Seq(Tasks)
    BY <1>1, <1>2, <1>5, CreateTaskType
  <2>3. QED
    BY <1>8, <1>2, <1>7, <2>1, <2>2 DEF OnCancelled, o
<1>9. CASE OnInactive(w)
  <2>1. Event("REJECTED", w, NoExec, "lookup") \in EventsFor(Reasons \cup {"lookup"})
    BY <1>4 DEF Kinds, Reasons
  <2>2. CreateTask(tasks, o, Event("REJECTED", w, NoExec, "lookup"), InactiveYields)
          \in Seq(Tasks)
    BY <2>1, <1>1, <1>2, <1>5, CreateTaskType
  <2>3. QED
    BY <1>9, <1>2, <1>7, <2>2 DEF OnInactive, Inactivate, o
<1>10. ASSUME NEW e \in Execs, OnFill(w, e)
       PROVE  track' \in [Orders -> Tracking] /\ tasks' \in Seq(Tasks)
                /\ stash' \subseteq Wires
  <2>1. ImpliedAccept(w) \in Seq(Tasks)
    <3>1. Event("ACCEPTED", w, NoExec, "none") \in EventsFor(Reasons \cup {"lookup"})
      BY <1>4 DEF Kinds, Reasons
    <3>2. CreateTask(tasks, o, Event("ACCEPTED", w, NoExec, "none"), 0) \in Seq(Tasks)
      BY <3>1, <1>1, <1>2, <1>5, CreateTaskType
    <3>3. QED
      BY <3>2, <1>2 DEF ImpliedAccept, o
  <2>2. ASSUME NEW kind \in {"FILLED", "PARTIAL_FILL"}
        PROVE  CreateTask(ImpliedAccept(w), o, Event(kind, w, e, "none"), 0) \in Seq(Tasks)
    <3>1. Event(kind, w, e, "none") \in EventsFor(Reasons \cup {"lookup"})
      BY <1>4 DEF Kinds, Reasons
    <3>2. QED
      BY <3>1, <2>1, <1>1, <1>5, CreateTaskType
  <2>3. CumAfter(o, e) \in Nat /\ Whole(o, e) \in BOOLEAN
    BY <1>3, QtyAssumption DEF CumAfter, Whole, Tracking
  <2>4. [track EXCEPT ![o] = [accepted |-> TRUE, terminal |-> Whole(o, e),
                              seen |-> @.seen \cup {e}, cum |-> CumAfter(o, e)]]
          \in [Orders -> Tracking]
    BY <2>3, <1>1, <1>2, <1>3 DEF Tracking
  <2>5. QED
    BY <1>10, <1>2, <2>2, <2>4 DEF OnFill, o
<1>11. QED
  BY <1>6, <1>8, <1>9, <1>10

(* The queue's own steps: put or re-queue the oldest task.                 *)
LEMMA QueueType ==
  ASSUME TypeOK, tasks # <<>>
  PROVE  /\ Head(tasks) \in Tasks
         /\ Tail(tasks) \in Seq(Tasks)
         /\ RejectReason(Head(tasks).ev.wire) \in Reasons
         /\ PutEvent(Head(tasks)) \in Events
<1>1. Head(tasks) \in Tasks /\ Tail(tasks) \in Seq(Tasks)
  BY DEF TypeOK
<1>2. RejectReason(Head(tasks).ev.wire) \in Reasons
  BY DEF RejectReason, Reasons
<1>3. PutEvent(Head(tasks)) \in Events
  <2> DEFINE t == Head(tasks)
  <2>1. t.ev \in EventsFor(Reasons \cup {"lookup"})
    BY <1>1 DEF Tasks
  <2>2. CASE Deferred(t)
    BY <2>1, <2>2, <1>2 DEF PutEvent, Events, EventsFor
  <2>3. CASE ~Deferred(t)
    <3>1. t.ev.why \in Reasons
      BY <2>1, <2>3 DEF Deferred, EventsFor
    <3>2. QED
      BY <2>1, <2>3, <3>1 DEF PutEvent, Events, EventsFor
  <2>4. QED
    BY <2>2, <2>3
<1>4. QED
  BY <1>1, <1>2, <1>3

(* The coroutines' steps.                                                  *)
LEMMA CallerStepType ==
  ASSUME TypeOK, NEW c \in Callers,
         \/ SnapDone(c) \/ SnapUnavailable(c) \/ Place(c)
         \/ CallRaises(c) \/ CancelSend(c)
         \/ \E o \in Orders : SubmitCall(c, o) \/ CancelCall(c, o)
  PROVE  TypeOK'
<1>1. call \in [Callers -> Calls] /\ call[c] \in Calls /\ Idle \in Calls
  BY DEF TypeOK, Calls
<1>2. ASSUME NEW o \in Orders, SubmitCall(c, o) PROVE TypeOK'
  <2>1. tries' \in [Orders -> 0..MaxSubmits]
    BY <1>2, BoundsAssumption DEF SubmitCall, TypeOK
  <2>2. call' \in [Callers -> Calls]
    BY <1>1, <1>2 DEF SubmitCall, Calls
  <2>3. QED
    BY <1>2, <2>1, <2>2 DEF SubmitCall, TypeOK, venue
<1>3. CASE SnapDone(c)
  <2>1. call' \in [Callers -> Calls]
    BY <1>1, <1>3 DEF SnapDone, Calls, Idle
  <2>2. QED
    BY <1>3, <2>1 DEF SnapDone, TypeOK, venue
<1>4. CASE CallRaises(c)
  <2>1. call' \in [Callers -> Calls]
    BY <1>1, <1>4 DEF CallRaises
  <2>2. QED
    BY <1>4, <2>1 DEF CallRaises, TypeOK, venue
<1>5. ASSUME NEW o \in Orders, CancelCall(c, o) PROVE TypeOK'
  <2>1. trade[o] \in Wires
    BY <1>5 DEF CancelCall, TypeOK
  <2>2. call' \in [Callers -> Calls]
    BY <1>1, <1>5, <2>1 DEF CancelCall, Calls
  <2>3. QED
    BY <1>5, <2>2 DEF CancelCall, TypeOK, venue
<1>6. CASE CancelSend(c)
  <2>1. call[c].wire \in Wires
    BY <1>1, <1>6 DEF CancelSend, Calls, Idle
  <2>2. call' \in [Callers -> Calls] /\ asked' \subseteq Wires
    BY <1>1, <1>6, <2>1 DEF CancelSend, TypeOK
  <2>3. QED
    BY <1>6, <2>2 DEF CancelSend, TypeOK
<1>7. CASE SnapUnavailable(c)
  <2>1. call[c].order \in Orders
    BY <1>1, <1>7 DEF SnapUnavailable, Calls, Idle
  <2>2. Event("REJECTED", NoWire, NoExec, "price_rule") \in Events
    BY DEF Event, Events, EventsFor, Kinds, Reasons
  <2>3. emitted' \in [Orders -> Seq(Events)]
    BY <1>7, <2>1, <2>2, EmitType DEF SnapUnavailable
  <2>4. call' \in [Callers -> Calls]
    BY <1>1, <1>7 DEF SnapUnavailable
  <2>5. QED
    BY <1>7, <2>3, <2>4 DEF SnapUnavailable, TypeOK, venue
<1>8. CASE Place(c)
  <2> DEFINE p == call[c].order
             w == Len(placed) + 1
  <2>1. p \in Orders
    BY <1>1, <1>8 DEF Place, Calls, Idle
  <2>2. w \in Wires /\ placed' = Append(placed, p)
    BY <1>8 DEF Place
  <2>3. Event("SUBMITTED", w, NoExec, "none") \in Events
    BY <2>2 DEF Event, Events, EventsFor, Kinds, Reasons
  <2>4. emitted' \in [Orders -> Seq(Events)]
    BY <1>8, <2>1, <2>3, EmitType DEF Place
  <2>5. placed' \in Seq(Orders) /\ Len(placed') <= MaxWires
    BY <2>1, <2>2, BoundsAssumption DEF TypeOK, Wires
  <2>6. track' \in [Orders -> Tracking] /\ trade' \in [Orders -> Wires \cup {NoWire}]
    BY <1>8, <2>2 DEF Place, TypeOK, FreshTracking, Tracking
  <2>7. call' \in [Callers -> Calls]
    BY <1>1, <1>8 DEF Place
  <2>8. QED
    BY <1>8, <2>4, <2>5, <2>6, <2>7 DEF Place, TypeOK
<1>9. QED
  BY <1>2, <1>3, <1>4, <1>5, <1>6, <1>7, <1>8

(* The venue's steps, each with the handler it runs.                       *)
LEMMA VenueStepType ==
  ASSUME TypeOK, NEW w \in Wires,
         \/ VenueAccept(w) \/ VenueCancel(w)
         \/ \E e \in Execs : VenueExecute(w, e) \/ DeliverFill(w, e)
         \/ \E b \in BOOLEAN : VenueInactive(w, b) \/ VenueError(w, b)
  PROVE  TypeOK'
<1>1. ASSUME NEW text \in SUBSET Signal, StatusText(w, text)
      PROVE  signals' \in [Wires -> SUBSET Signal]
  BY <1>1 DEF StatusText, TypeOK, Signal
<1>2. CASE VenueAccept(w)
  <2>1. w \in PlacedWires /\ OnAccepted(w)
    BY <1>2 DEF VenueAccept, Live
  <2>2. track' \in [Orders -> Tracking] /\ tasks' \in Seq(Tasks) /\ stash' \subseteq Wires
    BY <2>1, HandlerType
  <2>3. signals' \in [Wires -> SUBSET Signal]
    BY <1>1, <1>2 DEF VenueAccept
  <2>4. QED
    BY <1>2, <2>2, <2>3 DEF VenueAccept, AtVenue, TypeOK
<1>3. CASE VenueCancel(w)
  <2>1. track' \in [Orders -> Tracking] /\ tasks' \in Seq(Tasks) /\ stash' \subseteq Wires
    <3>1. w \in PlacedWires
      BY <1>3 DEF VenueCancel, Live
    <3>2. CASE connected
      BY <1>3, <3>1, <3>2, HandlerType DEF VenueCancel
    <3>3. CASE ~connected
      BY <1>3, <3>3 DEF VenueCancel, TypeOK
    <3>4. QED
      BY <3>2, <3>3
  <2>2. signals' \in [Wires -> SUBSET Signal]
    BY <1>1, <1>3 DEF VenueCancel, TypeOK
  <2>3. vstate' \in [Wires -> {"sent", "working", "cancelled"}]
    BY <1>3 DEF VenueCancel, TypeOK
  <2>4. QED
    BY <1>3, <2>1, <2>2, <2>3 DEF VenueCancel, AtVenue, TypeOK
<1>4. ASSUME NEW e \in Execs, VenueExecute(w, e) PROVE TypeOK'
  BY <1>4 DEF VenueExecute, broker, TypeOK
<1>5. ASSUME NEW e \in Execs, DeliverFill(w, e) PROVE TypeOK'
  <2>1. track' \in [Orders -> Tracking] /\ tasks' \in Seq(Tasks) /\ stash' \subseteq Wires
    BY <1>5, HandlerType DEF DeliverFill
  <2>2. QED
    BY <1>5, <2>1 DEF DeliverFill, AtVenue, TypeOK
<1>6. ASSUME NEW b \in BOOLEAN, VenueInactive(w, b) PROVE TypeOK'
  <2>1. track' \in [Orders -> Tracking] /\ tasks' \in Seq(Tasks) /\ stash' \subseteq Wires
    BY <1>6, HandlerType DEF VenueInactive, Live
  <2>2. (IF b THEN {"held"} ELSE {}) \in SUBSET Signal
    BY DEF Signal
  <2>3. signals' \in [Wires -> SUBSET Signal]
    BY <1>1, <1>6, <2>2 DEF VenueInactive
  <2>4. QED
    BY <1>6, <2>1, <2>3 DEF VenueInactive, AtVenue, TypeOK
<1>7. ASSUME NEW b \in BOOLEAN, VenueError(w, b) PROVE TypeOK'
  <2>1. signals' \in [Wires -> SUBSET Signal]
    BY <1>7 DEF VenueError, TypeOK, Signal
  <2>2. QED
    BY <1>7, <2>1 DEF VenueError, AtVenue, TypeOK
<1>8. QED
  BY <1>2, <1>3, <1>4, <1>5, <1>6, <1>7

(* Connect, disconnect and the ready queue keep the types.                 *)
LEMMA LoopStepType ==
  ASSUME TypeOK, Connect \/ Disconnect \/ YieldTask \/ PutTask
  PROVE  TypeOK'
<1>1. CASE Connect
  BY <1>1 DEF Connect, TypeOK, venue
<1>2. CASE Disconnect
  BY <1>2 DEF Disconnect, TypeOK
<1>3. CASE YieldTask
  <2>1. tasks # <<>> /\ Head(tasks) \in Tasks /\ Tail(tasks) \in Seq(Tasks)
    BY <1>3, QueueType DEF YieldTask, Yielding
  <2>2. [Head(tasks) EXCEPT !.left = @ - 1] \in Tasks
    BY <1>3, <2>1 DEF YieldTask, Yielding, Tasks, InactiveYields
  <2>3. tasks' \in Seq(Tasks)
    BY <1>3, <2>1, <2>2 DEF YieldTask
  <2>4. QED
    BY <1>3, <2>3 DEF YieldTask, TypeOK, venue
<1>4. CASE PutTask
  <2>1. /\ Head(tasks).order \in Orders
        /\ Tail(tasks) \in Seq(Tasks)
        /\ PutEvent(Head(tasks)) \in Events
    BY <1>4, QueueType DEF PutTask, Tasks
  <2>2. emitted' \in [Orders -> Seq(Events)]
    BY <1>4, <2>1, EmitType DEF PutTask
  <2>3. stash' \subseteq Wires
    BY <1>4 DEF PutTask, TypeOK
  <2>4. QED
    BY <1>4, <2>1, <2>2, <2>3 DEF PutTask, TypeOK, venue
<1>5. QED
  BY <1>1, <1>2, <1>3, <1>4

(* Every step keeps the types.                                             *)
LEMMA StepType == TypeOK /\ [Next]_vars => TypeOK'
<1> SUFFICES ASSUME TypeOK, [Next]_vars PROVE TypeOK'
  OBVIOUS
<1>1. CASE UNCHANGED vars
  BY <1>1 DEF vars, broker, venue, TypeOK
<1>2. CASE Next
  BY <1>2, LoopStepType, CallerStepType, VenueStepType DEF Next
<1>3. QED
  BY <1>1, <1>2

(* The broker's maps, its ready queue and its event streams keep their     *)
(* types whatever the callers and the venue do (broker.py IBBroker).       *)
THEOREM TypeCorrect == Spec => []TypeOK
<1>1. Init => TypeOK
  BY InitType
<1>2. TypeOK /\ [Next]_vars => TypeOK'
  BY StepType
<1>3. QED
  BY <1>1, <1>2, PTL DEF Spec
-----------------------------------------------------------------------------
(* At most one terminal event, and nothing after it.  QueueInv and         *)
(* StreamInv are stated for any queue and tracking map, so that a handler  *)
(* that creates two tasks is two applications of one lemma.                *)
QueueOK(q, tr) ==
  \A i \in DOMAIN q :
    /\ q[i].ev.wire \in PlacedWires
    /\ q[i].order = placed[q[i].ev.wire]
    /\ q[i].left > 0 => q[i].ev.kind \in TerminalKinds
    /\ q[i].ev.kind \in TerminalKinds =>
         /\ tr[q[i].order].terminal
         /\ \A j \in DOMAIN q : i < j => q[j].ev.wire # q[i].ev.wire

StreamOK(q, tr) ==
  \A o \in Orders : \A i \in DOMAIN emitted[o] :
    emitted[o][i].wire # NoWire =>
      /\ emitted[o][i].wire \in PlacedWires
      /\ placed[emitted[o][i].wire] = o
      /\ IsTerminal(emitted[o][i]) =>
           /\ tr[o].terminal
           /\ \A j \in DOMAIN q : q[j].ev.wire # emitted[o][i].wire

(* A task appended to the ready queue keeps the queue's invariant when it  *)
(* is for a placed order and closes it only if it is marked terminal.      *)
LEMMA AppendOK ==
  ASSUME TypeOK, NEW q \in Seq(Tasks), NEW t \in Tasks,
         NEW tr2 \in [Orders -> Tracking],
         QueueOK(q, track), StreamOK(q, track),
         t.ev.wire \in PlacedWires, t.order = placed[t.ev.wire],
         ~track[t.order].terminal,
         t.left > 0 => t.ev.kind \in TerminalKinds,
         t.ev.kind \in TerminalKinds => tr2[t.order].terminal,
         \A p \in Orders : track[p].terminal => tr2[p].terminal
  PROVE  QueueOK(Append(q, t), tr2) /\ StreamOK(Append(q, t), tr2)
<1> DEFINE r == Append(q, t)
<1>1. /\ Len(r) = Len(q) + 1 /\ DOMAIN r = 1..Len(r) /\ DOMAIN q = 1..Len(q)
      /\ Len(q) \in Nat
      /\ \A i \in DOMAIN q : r[i] = q[i]
      /\ r[Len(r)] = t
  OBVIOUS
<1>2. t.order \in Orders
  BY DEF Tasks
<1>3. \A i \in DOMAIN q : q[i].ev.kind \in TerminalKinds => q[i].ev.wire # t.ev.wire
  BY DEF QueueOK
<1>4. ASSUME NEW i \in DOMAIN q PROVE q[i].order \in Orders
  <2>1. q[i] \in Tasks
    BY <1>4
  <2>2. QED
    BY <2>1 DEF Tasks
<1> HIDE DEF r
<1>5. QueueOK(r, tr2)
  <2> SUFFICES ASSUME NEW i \in DOMAIN r
               PROVE  /\ r[i].ev.wire \in PlacedWires
                      /\ r[i].order = placed[r[i].ev.wire]
                      /\ r[i].left > 0 => r[i].ev.kind \in TerminalKinds
                      /\ r[i].ev.kind \in TerminalKinds =>
                           /\ tr2[r[i].order].terminal
                           /\ \A j \in DOMAIN r : i < j => r[j].ev.wire # r[i].ev.wire
    BY DEF QueueOK
  <2>1. CASE i \in DOMAIN q
    <3>1. r[i] = q[i] /\ q[i].order \in Orders
      BY <1>1, <1>4, <2>1
    <3>2. ASSUME q[i].ev.kind \in TerminalKinds, NEW j \in DOMAIN r, i < j
          PROVE  r[j].ev.wire # q[i].ev.wire
      <4>1. CASE j \in DOMAIN q
        BY <1>1, <2>1, <3>2, <4>1 DEF QueueOK
      <4>2. CASE j = Len(r)
        BY <1>1, <1>3, <2>1, <3>2, <4>2
      <4>3. QED
        BY <1>1, <4>1, <4>2
    <3>3. QED
      BY <2>1, <3>1, <3>2 DEF QueueOK
  <2>2. CASE i = Len(r)
    BY <1>1, <2>2
  <2>3. QED
    BY <1>1, <2>1, <2>2
<1>6. StreamOK(r, tr2)
  <2> SUFFICES ASSUME NEW o \in Orders, NEW i \in DOMAIN emitted[o],
                      emitted[o][i].wire # NoWire, IsTerminal(emitted[o][i]),
                      NEW j \in DOMAIN r
               PROVE  r[j].ev.wire # emitted[o][i].wire
    BY DEF StreamOK
  <2>1. CASE j \in DOMAIN q
    BY <1>1, <2>1 DEF StreamOK
  <2>2. CASE j = Len(r)
    BY <1>1, <2>2 DEF StreamOK
  <2>3. QED
    BY <1>1, <2>1, <2>2
<1>7. QED
  BY <1>5, <1>6 DEF r

(* A handler's step: the maps and streams it leaves alone, the queue and   *)
(* tracking record it changes.                                             *)
LEMMA HandlerInv ==
  ASSUME TypeOK, QueueInv, StreamInv, NEW w \in PlacedWires,
         UNCHANGED <<placed, emitted>>,
         \/ OnAccepted(w) \/ OnCancelled(w) \/ OnInactive(w)
         \/ \E e \in Execs : OnFill(w, e)
  PROVE  QueueInv' /\ StreamInv'
<1> DEFINE o == placed[w]
<1>1. QueueOK(tasks, track) /\ StreamOK(tasks, track)
  BY DEF QueueOK, StreamOK, QueueInv, StreamInv
<1>2. SUFFICES QueueOK(tasks', track') /\ StreamOK(tasks', track')
  BY DEF QueueOK, StreamOK, QueueInv, StreamInv, PlacedWires, IsTerminal
<1>3. /\ track' \in [Orders -> Tracking] /\ tasks' \in Seq(Tasks)
      /\ track \in [Orders -> Tracking] /\ tasks \in Seq(Tasks)
      /\ w \in Wires /\ o \in Orders
  BY HandlerType, PlacedOrder DEF TypeOK
<1>4. CASE UNCHANGED <<track, tasks>>
  BY <1>1, <1>4
<1>5. ASSUME NEW kind \in Kinds, NEW e \in Execs \cup {NoExec},
             NEW why \in Reasons \cup {"lookup"}, NEW left \in 0..InactiveYields
      PROVE  /\ [order |-> o, ev |-> Event(kind, w, e, why), left |-> left] \in Tasks
             /\ Event(kind, w, e, why).kind = kind /\ Event(kind, w, e, why).wire = w
  BY <1>3, EventType DEF Tasks, Event
<1>6. ASSUME NEW kind \in Kinds, NEW e \in Execs \cup {NoExec},
             NEW why \in Reasons \cup {"lookup"}, NEW left \in 0..InactiveYields,
             NEW q \in Seq(Tasks), QueueOK(q, track), StreamOK(q, track),
             ~track[o].terminal,
             NEW tr2 \in [Orders -> Tracking],
             \A p \in Orders : track[p].terminal => tr2[p].terminal,
             left > 0 => kind \in TerminalKinds,
             kind \in TerminalKinds => tr2[o].terminal
      PROVE  /\ QueueOK(CreateTask(q, o, Event(kind, w, e, why), left), tr2)
             /\ StreamOK(CreateTask(q, o, Event(kind, w, e, why), left), tr2)
  <2> DEFINE t == [order |-> o, ev |-> Event(kind, w, e, why), left |-> left]
  <2>1. /\ t \in Tasks /\ t.ev.wire \in PlacedWires /\ t.order = placed[t.ev.wire]
        /\ ~track[t.order].terminal
        /\ t.left > 0 => t.ev.kind \in TerminalKinds
        /\ t.ev.kind \in TerminalKinds => tr2[t.order].terminal
    <3>1. t \in Tasks /\ t.ev.kind = kind /\ t.ev.wire = w BY <1>5, <1>6
    <3>2. t.order = o /\ t.left = left OBVIOUS
    <3> HIDE DEF t
    <3> QED BY <1>6, <3>1, <3>2
  <2> HIDE DEF t
  <2>2. QueueOK(Append(q, t), tr2) /\ StreamOK(Append(q, t), tr2)
    BY <1>3, <1>6, <2>1, AppendOK
  <2>3. QED
    BY <2>2 DEF CreateTask, t
<1>7. /\ 0 \in 0..InactiveYields /\ InactiveYields \in 0..InactiveYields /\ ~(0 > 0)
      /\ "ACCEPTED" \in Kinds /\ "REJECTED" \in Kinds /\ "CANCELED" \in Kinds
      /\ "REJECTED" \in TerminalKinds /\ "CANCELED" \in TerminalKinds
      /\ "ACCEPTED" \notin TerminalKinds
      /\ "none" \in Reasons \cup {"lookup"} /\ "log" \in Reasons \cup {"lookup"}
      /\ "engine" \in Reasons \cup {"lookup"} /\ "lookup" \in Reasons \cup {"lookup"}
      /\ NoExec \in Execs \cup {NoExec}
  BY DEF InactiveYields, Kinds, TerminalKinds, Reasons
<1>8. CASE OnAccepted(w) /\ ~UNCHANGED <<track, tasks>>
  <2>1. /\ ~track[o].terminal
        /\ track' = [track EXCEPT ![o].accepted = TRUE]
        /\ tasks' = CreateTask(tasks, o, Event("ACCEPTED", w, NoExec, "none"), 0)
    BY <1>8 DEF OnAccepted, Closed
  <2>2. \A p \in Orders : track[p].terminal => track'[p].terminal
    BY <2>1, <1>3
  <2>3. QED
    BY <2>1, <2>2, <1>1, <1>3, <1>6, <1>7
<1>9. ASSUME track' = [track EXCEPT ![o].terminal = TRUE]
      PROVE  track'[o].terminal /\ \A p \in Orders : track[p].terminal => track'[p].terminal
  BY <1>3, <1>9 DEF Tracking
<1>10. CASE OnCancelled(w) /\ ~UNCHANGED <<track, tasks>>
  <2>1. /\ ~track[o].terminal
        /\ track' = [track EXCEPT ![o].terminal = TRUE]
        /\ \/ tasks' = CreateTask(tasks, o, Event("REJECTED", w, NoExec, "log"), 0)
           \/ tasks' = CreateTask(tasks, o, Event("CANCELED", w, NoExec, "engine"), 0)
    BY <1>10 DEF OnCancelled, Closed
  <2>2. track'[o].terminal /\ \A p \in Orders : track[p].terminal => track'[p].terminal
    BY <2>1, <1>9
  <2>3. CASE tasks' = CreateTask(tasks, o, Event("REJECTED", w, NoExec, "log"), 0)
    BY <2>1, <2>2, <2>3, <1>1, <1>3, <1>6, <1>7
  <2>4. CASE tasks' = CreateTask(tasks, o, Event("CANCELED", w, NoExec, "engine"), 0)
    BY <2>1, <2>2, <2>4, <1>1, <1>3, <1>6, <1>7
  <2>5. QED
    BY <2>1, <2>3, <2>4
<1>11. CASE OnInactive(w) /\ ~UNCHANGED <<track, tasks>>
  <2>1. /\ ~track[o].terminal
        /\ track' = [track EXCEPT ![o].terminal = TRUE]
        /\ tasks' = CreateTask(tasks, o, Event("REJECTED", w, NoExec, "lookup"),
                               InactiveYields)
    BY <1>11 DEF OnInactive, Inactivate, Closed
  <2>2. QED
    BY <2>1, <1>1, <1>3, <1>6, <1>7, <1>9
<1>12. ASSUME NEW e \in Execs, OnFill(w, e), ~UNCHANGED <<track, tasks>>
       PROVE  QueueOK(tasks', track') /\ StreamOK(tasks', track')
  <2> DEFINE kind == IF Whole(o, e) THEN "FILLED" ELSE "PARTIAL_FILL"
  <2>1. /\ ~track[o].terminal
        /\ track' = [track EXCEPT ![o] =
                       [accepted |-> TRUE, terminal |-> Whole(o, e),
                        seen |-> @.seen \cup {e}, cum |-> CumAfter(o, e)]]
        /\ tasks' = CreateTask(ImpliedAccept(w), o, Event(kind, w, e, "none"), 0)
    BY <1>12 DEF OnFill, Closed
  <2>2. /\ ImpliedAccept(w) \in Seq(Tasks)
        /\ QueueOK(ImpliedAccept(w), track) /\ StreamOK(ImpliedAccept(w), track)
    <3>1. CASE track[o].accepted
      BY <3>1, <1>1, <1>3 DEF ImpliedAccept
    <3>2. CASE ~track[o].accepted
      <4>1. ImpliedAccept(w) = CreateTask(tasks, o, Event("ACCEPTED", w, NoExec, "none"), 0)
        BY <3>2 DEF ImpliedAccept
      <4>2. CreateTask(tasks, o, Event("ACCEPTED", w, NoExec, "none"), 0) \in Seq(Tasks)
        <5>1. Event("ACCEPTED", w, NoExec, "none") \in EventsFor(Reasons \cup {"lookup"})
          BY <1>3, <1>7, EventType
        <5>2. QED
          BY <5>1, <1>3, <1>7, CreateTaskType
      <4>3. \A p \in Orders : track[p].terminal => track[p].terminal
        OBVIOUS
      <4>4. /\ QueueOK(CreateTask(tasks, o, Event("ACCEPTED", w, NoExec, "none"), 0), track)
            /\ StreamOK(CreateTask(tasks, o, Event("ACCEPTED", w, NoExec, "none"), 0), track)
        BY <4>3, <2>1, <1>1, <1>3, <1>6, <1>7
      <4>5. QED
        BY <4>1, <4>2, <4>4
    <3>3. QED
      BY <3>1, <3>2
  <2>3. \A p \in Orders : track[p].terminal => track'[p].terminal
    BY <2>1, <1>3
  <2>4. Whole(o, e) => track'[o].terminal
    BY <2>1, <1>3
  <2>5. kind \in Kinds /\ (kind \in TerminalKinds => track'[o].terminal)
    BY <2>4 DEF Kinds, TerminalKinds
  <2>6. "none" \in Reasons \cup {"lookup"}
    BY DEF Reasons
  <2> HIDE DEF kind
  <2>7. QED
    BY <2>1, <2>2, <2>3, <2>5, <2>6, <1>3, <1>6, <1>7
<1>13. QED
  BY <1>4, <1>8, <1>10, <1>11, <1>12

-----------------------------------------------------------------------------
(* A coroutine inside submit owns its id when ids are not reused           *)
(* concurrently: the duplicate check admits nobody else until it returns.  *)
LEMMA CallInvStep ==
  ASSUME TypeOK, ConcurrentReuse = FALSE, CallInv, [Next]_vars
  PROVE  CallInv'
<1>1. CASE UNCHANGED <<call, trade>>
  BY <1>1 DEF CallInv, Submitting
<1>2. call \in [Callers -> Calls] /\ trade \in [Orders -> Wires \cup {NoWire}]
  BY DEF TypeOK
<1>3. ASSUME NEW c \in Callers, NEW k \in Calls, k.pc \notin {"snap", "token"},
             call' = [call EXCEPT ![c] = k], UNCHANGED trade
      PROVE  CallInv'
  BY <1>2, <1>3 DEF CallInv, Submitting
<1>4. Idle \in Calls /\ Idle.pc = "idle"
  BY DEF Idle, Calls
<1>5. ASSUME NEW c \in Callers,
             SnapUnavailable(c) \/ CallRaises(c) \/ CancelSend(c)
      PROVE  CallInv'
  BY <1>3, <1>4, <1>5 DEF SnapUnavailable, CallRaises, CancelSend
<1>6. ASSUME NEW c \in Callers, SnapDone(c)
      PROVE  CallInv'
  BY <1>2, <1>6 DEF SnapDone, CallInv, Submitting, Calls
<1>7. ASSUME NEW c \in Callers, NEW o \in Orders, CancelCall(c, o)
      PROVE  CallInv'
  <2>1. [pc |-> "cancel", order |-> o, wire |-> trade[o]] \in Calls
    BY <1>2, <1>7 DEF CancelCall, Calls
  <2>2. QED
    BY <2>1, <1>3, <1>7 DEF CancelCall
<1>8. ASSUME NEW c \in Callers, NEW o \in Orders, SubmitCall(c, o)
      PROVE  CallInv'
  <2>1. PICK pc \in {"snap", "token"} :
          call' = [call EXCEPT ![c] = [pc |-> pc, order |-> o, wire |-> NoWire]]
    BY <1>8 DEF SubmitCall
  <2>2. /\ call'[c].order = o /\ trade' = trade /\ trade[o] = NoWire
        /\ \A d \in Callers : d # c => call'[d] = call[d]
        /\ \A d \in Callers : ~(Submitting(d) /\ call[d].order = o)
    BY <2>1, <1>2, <1>8 DEF SubmitCall, Untracked, InFlight, Submitting
  <2>3. QED
    BY <2>2 DEF CallInv, Submitting
<1>9. ASSUME NEW c \in Callers, Place(c)
      PROVE  CallInv'
  <2>1. /\ call'[c] = Idle /\ Submitting(c)
        /\ \A d \in Callers : d # c => call'[d] = call[d]
        /\ \A p \in Orders : p # call[c].order => trade'[p] = trade[p]
    BY <1>2, <1>9 DEF Place, Submitting
  <2>2. \A d \in Callers : Submitting(d) => call[d].order \in Orders
    BY <1>2, NoneAssumption DEF Submitting, Calls, Idle
  <2>3. QED
    BY <2>1, <2>2, <1>4 DEF CallInv, Submitting
<1>10. CASE \/ Connect \/ Disconnect \/ YieldTask \/ PutTask
            \/ \E w \in Wires :
                 \/ VenueAccept(w) \/ VenueCancel(w)
                 \/ \E e \in Execs : VenueExecute(w, e) \/ DeliverFill(w, e)
                 \/ \E b \in BOOLEAN : VenueInactive(w, b) \/ VenueError(w, b)
  <2>1. UNCHANGED <<call, trade>>
    BY <1>10 DEF Connect, Disconnect, YieldTask, PutTask, VenueAccept, VenueCancel,
                 VenueExecute, DeliverFill, VenueInactive, VenueError, AtVenue, broker
  <2>2. QED
    BY <2>1, <1>1
<1>11. CASE UNCHANGED vars
  BY <1>1, <1>11 DEF vars, broker
<1>12. QED
  BY <1>5, <1>6, <1>7, <1>8, <1>9, <1>10, <1>11 DEF Next

(* Only Place changes the venue's orders and the map.                      *)
LEMMA OnlyPlace ==
  ASSUME [Next]_vars, ~UNCHANGED <<placed, trade>>
  PROVE  \E c \in Callers : Place(c)
<1>1. CASE UNCHANGED vars
  BY <1>1 DEF vars, broker, venue
<1>2. CASE \/ Connect \/ Disconnect \/ YieldTask \/ PutTask
  BY <1>2 DEF Connect, Disconnect, YieldTask, PutTask, venue
<1>3. ASSUME NEW c \in Callers,
             \/ SnapDone(c) \/ SnapUnavailable(c) \/ CallRaises(c) \/ CancelSend(c)
             \/ \E o \in Orders : SubmitCall(c, o) \/ CancelCall(c, o)
      PROVE  FALSE
  BY <1>3 DEF SnapDone, SnapUnavailable, CallRaises, CancelSend, SubmitCall,
              CancelCall, venue
<1>4. ASSUME NEW w \in Wires,
             \/ VenueAccept(w) \/ VenueCancel(w)
             \/ \E e \in Execs : VenueExecute(w, e) \/ DeliverFill(w, e)
             \/ \E b \in BOOLEAN : VenueInactive(w, b) \/ VenueError(w, b)
      PROVE  FALSE
  BY <1>4 DEF VenueAccept, VenueCancel, VenueExecute, DeliverFill, VenueInactive,
              VenueError, AtVenue, broker
<1>5. QED
  BY <1>1, <1>2, <1>3, <1>4 DEF Next

(* What Place leaves behind: one more venue order, tracked afresh, for an  *)
(* id that no earlier venue order carries.                                 *)
LEMMA PlaceFacts ==
  ASSUME TypeOK, CallInv, WireInv, NEW c \in Callers, Place(c)
  PROVE  /\ call[c].order \in Orders /\ Len(placed) + 1 \in Wires
         /\ Len(placed) \in Nat
         /\ PlacedWires' = PlacedWires \cup {Len(placed) + 1}
         /\ Len(placed) + 1 \notin PlacedWires
         /\ placed'[Len(placed) + 1] = call[c].order
         /\ trade'[call[c].order] = Len(placed) + 1
         /\ \A v \in PlacedWires : /\ placed'[v] = placed[v]
                                   /\ placed[v] # call[c].order
                                   /\ trade'[placed[v]] = trade[placed[v]]
<1> DEFINE o == call[c].order
<1>1. /\ o \in Orders /\ trade[o] = NoWire /\ Submitting(c)
      /\ placed \in Seq(Orders) /\ trade \in [Orders -> Wires \cup {NoWire}]
  BY NoneAssumption DEF TypeOK, CallInv, Submitting, Place, Calls, Idle
<1>2. /\ placed' = Append(placed, o) /\ Len(placed) + 1 \in Wires
      /\ trade' = [trade EXCEPT ![o] = Len(placed) + 1]
  BY DEF Place
<1> HIDE DEF o
<1>3. /\ Len(placed) \in Nat /\ Len(placed') = Len(placed) + 1
      /\ placed'[Len(placed) + 1] = o
      /\ \A v \in 1..Len(placed) : placed'[v] = placed[v] /\ placed[v] \in Orders
  BY <1>1, <1>2
<1>4. \A v \in PlacedWires : trade[placed[v]] = v /\ v # NoWire
  BY DEF WireInv, PlacedWires, NoWire
<1>5. \A v \in PlacedWires : placed[v] # o
  BY <1>1, <1>4
<1>6. PlacedWires' = PlacedWires \cup {Len(placed) + 1} /\ Len(placed) + 1 \notin PlacedWires
  BY <1>3 DEF PlacedWires
<1>7. trade'[o] = Len(placed) + 1 /\ \A p \in Orders : p # o => trade'[p] = trade[p]
  BY <1>1, <1>2
<1>8. QED
  BY <1>1, <1>2, <1>3, <1>5, <1>6, <1>7 DEF o, PlacedWires

(* The map always names the one venue order of an id.                      *)
LEMMA WireInvStep ==
  ASSUME TypeOK, CallInv, WireInv, [Next]_vars
  PROVE  WireInv'
<1>1. CASE UNCHANGED <<placed, trade>>
  BY <1>1 DEF WireInv, PlacedWires
<1>2. ASSUME NEW c \in Callers, Place(c)
      PROVE  WireInv'
  BY <1>2, PlaceFacts DEF WireInv
<1>3. QED
  BY <1>1, <1>2, OnlyPlace

(* A put appends one event to one stream.                                  *)
LEMMA EmitFacts ==
  ASSUME TypeOK, NEW o \in Orders, NEW ev, Emit(o, ev)
  PROVE  \A p \in Orders :
           /\ p # o => emitted'[p] = emitted[p]
           /\ p = o => /\ DOMAIN emitted'[p] = DOMAIN emitted[p] \cup {Len(emitted[p]) + 1}
                       /\ \A i \in DOMAIN emitted[p] :
                            i < Len(emitted[p]) + 1 /\ emitted'[p][i] = emitted[p][i]
                       /\ emitted'[p][Len(emitted[p]) + 1] = ev
                       /\ Len(emitted[p]) \in Nat
                       /\ DOMAIN emitted[p] = 1..Len(emitted[p])
<1>1. emitted \in [Orders -> Seq(Events)]
  BY DEF TypeOK
<1>2. emitted' = [emitted EXCEPT ![o] = Append(emitted[o], ev)]
  BY DEF Emit
<1>3. emitted[o] \in Seq(Events) /\ emitted'[o] = Append(emitted[o], ev)
  BY <1>1, <1>2
<1>4. QED
  BY <1>1, <1>2, <1>3

(* Removing the head of the ready queue shifts the others.                 *)
LEMMA HeadFacts ==
  ASSUME TypeOK, tasks # <<>>
  PROVE  /\ Tail(tasks) \in Seq(Tasks) /\ Len(tasks) \in Nat \ {0}
         /\ 1 \in DOMAIN tasks /\ Head(tasks) = tasks[1] /\ Head(tasks) \in Tasks
         /\ Len(Tail(tasks)) = Len(tasks) - 1
         /\ \A i \in DOMAIN Tail(tasks) :
              i + 1 \in DOMAIN tasks /\ Tail(tasks)[i] = tasks[i + 1] /\ 1 < i + 1
<1>1. tasks \in Seq(Tasks)
  BY DEF TypeOK
<1>2. QED
  BY <1>1

(* The tail keeps both invariants, and no task in it has the venue order   *)
(* of a terminal head.                                                     *)
LEMMA TailOK ==
  ASSUME TypeOK, QueueInv, StreamInv, tasks # <<>>
  PROVE  /\ QueueOK(Tail(tasks), track) /\ StreamOK(Tail(tasks), track)
         /\ Head(tasks).ev.kind \in TerminalKinds =>
              \A i \in DOMAIN Tail(tasks) :
                Tail(tasks)[i].ev.wire # Head(tasks).ev.wire
<1>1. DOMAIN Tail(tasks) \subseteq Nat
  BY HeadFacts
<1>2. QueueOK(Tail(tasks), track)
  <2> SUFFICES ASSUME NEW i \in DOMAIN Tail(tasks)
      PROVE  /\ Tail(tasks)[i].ev.wire \in PlacedWires
             /\ Tail(tasks)[i].order = placed[Tail(tasks)[i].ev.wire]
             /\ Tail(tasks)[i].left > 0 => Tail(tasks)[i].ev.kind \in TerminalKinds
             /\ Tail(tasks)[i].ev.kind \in TerminalKinds =>
                  /\ track[Tail(tasks)[i].order].terminal
                  /\ \A j \in DOMAIN Tail(tasks) :
                       i < j => Tail(tasks)[j].ev.wire # Tail(tasks)[i].ev.wire
    BY DEF QueueOK
  <2>1. i + 1 \in DOMAIN tasks /\ Tail(tasks)[i] = tasks[i + 1]
    BY HeadFacts
  <2>2. ASSUME NEW j \in DOMAIN Tail(tasks), i < j
        PROVE  j + 1 \in DOMAIN tasks /\ Tail(tasks)[j] = tasks[j + 1] /\ i + 1 < j + 1
    BY <1>1, <2>2, HeadFacts
  <2>3. QED
    BY <2>1, <2>2 DEF QueueInv
<1>3. StreamOK(Tail(tasks), track)
  BY HeadFacts DEF StreamInv, StreamOK
<1>4. ASSUME Head(tasks).ev.kind \in TerminalKinds, NEW i \in DOMAIN Tail(tasks)
      PROVE  Tail(tasks)[i].ev.wire # Head(tasks).ev.wire
  BY <1>4, HeadFacts DEF QueueInv
<1>5. QED
  BY <1>2, <1>3, <1>4

(* YieldTask moves a terminal task behind tasks of other venue orders.     *)
LEMMA YieldInv ==
  ASSUME TypeOK, QueueInv, StreamInv, YieldTask
  PROVE  QueueInv' /\ StreamInv'
<1> DEFINE q == Tail(tasks)
           t == [Head(tasks) EXCEPT !.left = @ - 1]
<1>1. /\ tasks # <<>> /\ tasks' = Append(q, t) /\ Head(tasks).left > 0
      /\ UNCHANGED <<track, emitted, placed>>
  BY DEF YieldTask, Yielding, venue
<1>2. /\ q \in Seq(Tasks) /\ QueueOK(q, track) /\ StreamOK(q, track)
      /\ Head(tasks) = tasks[1] /\ 1 \in DOMAIN tasks /\ Head(tasks) \in Tasks
  BY <1>1, HeadFacts, TailOK
<1>3. /\ t.ev = Head(tasks).ev /\ t.order = Head(tasks).order
      /\ t.ev.wire \in PlacedWires /\ t.order = placed[t.ev.wire]
      /\ t.ev.kind \in TerminalKinds /\ track[t.order].terminal
  BY <1>1, <1>2 DEF QueueInv, Tasks
<1>4. \A i \in DOMAIN q : q[i].ev.wire # t.ev.wire
  BY <1>1, <1>3, TailOK
<1>5. \A o \in Orders : \A i \in DOMAIN emitted[o] :
        emitted[o][i].wire # NoWire /\ IsTerminal(emitted[o][i]) =>
          emitted[o][i].wire # t.ev.wire
  BY <1>2, <1>3 DEF StreamInv
<1> HIDE DEF q, t
<1> DEFINE r == Append(q, t)
<1>6. /\ Len(r) = Len(q) + 1 /\ DOMAIN r = 1..Len(r) /\ DOMAIN q = 1..Len(q)
      /\ Len(q) \in Nat /\ r[Len(r)] = t
      /\ \A i \in DOMAIN q : r[i] = q[i]
  BY <1>2
<1> HIDE DEF r
<1>7. QueueOK(r, track)
  <2> SUFFICES ASSUME NEW i \in DOMAIN r
      PROVE  /\ r[i].ev.wire \in PlacedWires
             /\ r[i].order = placed[r[i].ev.wire]
             /\ r[i].left > 0 => r[i].ev.kind \in TerminalKinds
             /\ r[i].ev.kind \in TerminalKinds =>
                  /\ track[r[i].order].terminal
                  /\ \A j \in DOMAIN r : i < j => r[j].ev.wire # r[i].ev.wire
    BY DEF QueueOK
  <2>1. CASE i = Len(r)
    BY <1>3, <1>6, <2>1
  <2>2. CASE i \in DOMAIN q
    <3>1. ASSUME NEW j \in DOMAIN r, i < j, q[i].ev.kind \in TerminalKinds
          PROVE  r[j].ev.wire # q[i].ev.wire
      <4>1. CASE j \in DOMAIN q
        BY <1>2, <1>6, <2>2, <3>1, <4>1 DEF QueueOK
      <4>2. CASE j = Len(r)
        BY <1>4, <1>6, <2>2, <4>2
      <4>3. QED
        BY <4>1, <4>2, <1>6
    <3>2. QED
      BY <1>2, <1>6, <2>2, <3>1 DEF QueueOK
  <2>3. QED
    BY <2>1, <2>2, <1>6
<1>8. StreamOK(r, track)
  BY <1>2, <1>5, <1>6 DEF StreamOK
<1>9. QED
  BY <1>1, <1>7, <1>8 DEF r, QueueOK, StreamOK, QueueInv, StreamInv, PlacedWires, IsTerminal

(* PutTask: the event leaves the queue and enters the stream.              *)
LEMMA PutInv ==
  ASSUME TypeOK, QueueInv, StreamInv, PutTask
  PROVE  QueueInv' /\ StreamInv'
<1> DEFINE t == Head(tasks)
           o == t.order
           ev == PutEvent(t)
           n == Len(emitted[o]) + 1
<1>1. /\ tasks # <<>> /\ tasks' = Tail(tasks) /\ Emit(o, ev)
      /\ UNCHANGED <<track, placed>>
  BY DEF PutTask, venue
<1>2. /\ o \in Orders /\ ev.wire = t.ev.wire /\ ev.kind = t.ev.kind
      /\ t.ev.wire \in PlacedWires /\ placed[t.ev.wire] = o
      /\ t.ev.kind \in TerminalKinds => track[o].terminal
  <2>1. t \in Tasks /\ t = tasks[1] /\ 1 \in DOMAIN tasks
    BY <1>1, HeadFacts
  <2>2. ev.wire = t.ev.wire /\ ev.kind = t.ev.kind
    BY <2>1 DEF PutEvent, Tasks, EventsFor
  <2>3. QED
    BY <2>1, <2>2 DEF QueueInv, Tasks
<1>3. /\ QueueOK(Tail(tasks), track) /\ StreamOK(Tail(tasks), track)
      /\ t.ev.kind \in TerminalKinds =>
           \A i \in DOMAIN Tail(tasks) : Tail(tasks)[i].ev.wire # t.ev.wire
  BY <1>1, TailOK
<1> HIDE DEF t, ev
<1>4. \A p \in Orders :
        /\ p # o => emitted'[p] = emitted[p]
        /\ p = o => /\ DOMAIN emitted'[p] = DOMAIN emitted[p] \cup {n}
                    /\ \A i \in DOMAIN emitted[p] : emitted'[p][i] = emitted[p][i]
                    /\ emitted'[p][n] = ev
  BY <1>1, <1>2, EmitFacts
<1>5. QueueInv'
  BY <1>1, <1>3 DEF QueueOK, QueueInv, PlacedWires
<1>6. ASSUME NEW p \in Orders, NEW i \in DOMAIN emitted'[p], emitted'[p][i].wire # NoWire
      PROVE  /\ emitted'[p][i].wire \in PlacedWires
             /\ placed[emitted'[p][i].wire] = p
             /\ IsTerminal(emitted'[p][i]) =>
                  /\ track[p].terminal
                  /\ \A j \in DOMAIN Tail(tasks) :
                       Tail(tasks)[j].ev.wire # emitted'[p][i].wire
  <2>1. CASE p = o /\ i = n
    <3>1. emitted'[p][i] = ev
      BY <1>4, <2>1
    <3>2. QED
      BY <3>1, <2>1, <1>2, <1>3 DEF IsTerminal
  <2>2. CASE i \in DOMAIN emitted[p] /\ emitted'[p][i] = emitted[p][i]
    BY <1>3, <1>6, <2>2 DEF StreamOK
  <2>3. QED
    BY <2>1, <2>2, <1>4, <1>6
<1>7. StreamInv'
  BY <1>1, <1>6 DEF StreamInv, PlacedWires, IsTerminal
<1>8. QED
  BY <1>5, <1>7

(* A REJECTED of the price lookup carries no venue order id.               *)
LEMMA UnavailableInv ==
  ASSUME TypeOK, QueueInv, StreamInv, NEW c \in Callers, SnapUnavailable(c)
  PROVE  QueueInv' /\ StreamInv'
<1> DEFINE o == call[c].order
           ev == Event("REJECTED", NoWire, NoExec, "price_rule")
<1>1. Emit(o, ev) /\ UNCHANGED <<track, tasks, placed>>
  BY DEF SnapUnavailable, venue
<1>2. o \in Orders /\ ev.wire = NoWire
  BY NoneAssumption DEF TypeOK, SnapUnavailable, Calls, Idle, Event
<1> HIDE DEF o, ev
<1>3. \A p \in Orders :
        /\ p # o => emitted'[p] = emitted[p]
        /\ p = o => \A i \in DOMAIN emitted'[p] :
             \/ i \in DOMAIN emitted[p] /\ emitted'[p][i] = emitted[p][i]
             \/ emitted'[p][i] = ev
  BY <1>1, <1>2, EmitFacts
<1>4. QueueInv'
  BY <1>1 DEF QueueInv, PlacedWires
<1>5. StreamInv'
  BY <1>1, <1>2, <1>3 DEF StreamInv, PlacedWires, IsTerminal
<1>6. QED
  BY <1>4, <1>5

(* Place: the id it tracks afresh has no task and no earlier wired event.  *)
LEMMA PlaceInv ==
  ASSUME TypeOK, CallInv, WireInv, QueueInv, StreamInv, NEW c \in Callers, Place(c)
  PROVE  QueueInv' /\ StreamInv'
<1> DEFINE o == call[c].order
           w == Len(placed) + 1
           ev == Event("SUBMITTED", w, NoExec, "none")
           n == Len(emitted[o]) + 1
<1>1. /\ track' = [track EXCEPT ![o] = FreshTracking] /\ tasks' = tasks
      /\ Emit(o, ev) /\ track \in [Orders -> Tracking]
  BY DEF Place, TypeOK
<1>2. /\ o \in Orders /\ w \in Wires
      /\ PlacedWires' = PlacedWires \cup {w} /\ w \notin PlacedWires
      /\ placed'[w] = o
      /\ \A v \in PlacedWires : placed'[v] = placed[v] /\ placed[v] # o
  BY PlaceFacts
<1>3. ev.wire = w /\ ~IsTerminal(ev) /\ w # NoWire
  BY <1>2 DEF Event, IsTerminal, TerminalKinds, Wires, NoWire
<1> HIDE DEF o, w, ev
<1>4. \A p \in Orders :
        /\ p # o => emitted'[p] = emitted[p] /\ track'[p] = track[p]
        /\ p = o => /\ DOMAIN emitted'[p] = DOMAIN emitted[p] \cup {n}
                    /\ \A i \in DOMAIN emitted[p] : emitted'[p][i] = emitted[p][i]
                    /\ emitted'[p][n] = ev
  <2>1. \A p \in Orders : p # o => track'[p] = track[p]
    BY <1>1, <1>2
  <2>2. QED
    BY <1>1, <1>2, <2>1, EmitFacts
<1>5. QueueInv'
  <2>1. \A i \in DOMAIN tasks : tasks[i].order \in Orders /\ tasks[i].order # o
    <3>1. \A i \in DOMAIN tasks : tasks[i] \in Tasks
      BY DEF TypeOK
    <3>2. \A i \in DOMAIN tasks : tasks[i].order \in Orders
      BY <3>1 DEF Tasks
    <3>3. QED
      BY <3>2, <1>2 DEF QueueInv
  <2>2. \A i \in DOMAIN tasks : track'[tasks[i].order] = track[tasks[i].order]
    BY <1>4, <2>1
  <2>3. QED
    BY <1>1, <1>2, <2>2 DEF QueueInv
<1>6. ASSUME NEW p \in Orders, NEW i \in DOMAIN emitted'[p], emitted'[p][i].wire # NoWire
      PROVE  /\ emitted'[p][i].wire \in PlacedWires'
             /\ placed'[emitted'[p][i].wire] = p
             /\ IsTerminal(emitted'[p][i]) =>
                  /\ track'[p].terminal
                  /\ \A j \in DOMAIN tasks : tasks[j].ev.wire # emitted'[p][i].wire
  <2>1. CASE emitted'[p][i] = ev /\ p = o
    BY <2>1, <1>2, <1>3
  <2>2. CASE i \in DOMAIN emitted[p] /\ emitted'[p][i] = emitted[p][i]
    <3>1. emitted[p][i].wire \in PlacedWires /\ placed[emitted[p][i].wire] = p
      BY <1>6, <2>2 DEF StreamInv
    <3>2. p # o /\ track'[p] = track[p]
      BY <3>1, <1>2, <1>4
    <3>3. QED
      BY <3>1, <3>2, <1>2, <1>6, <2>2 DEF StreamInv
  <2>3. QED
    BY <2>1, <2>2, <1>4, <1>6
<1>7. StreamInv'
  BY <1>1, <1>6 DEF StreamInv, IsTerminal
<1>8. QED
  BY <1>5, <1>7

(* Both invariants survive every step.                                     *)
LEMMA QueueStreamStep ==
  ASSUME TypeOK, CallInv, WireInv, QueueInv, StreamInv, [Next]_vars
  PROVE  QueueInv' /\ StreamInv'
<1>1. CASE UNCHANGED <<track, tasks, emitted, placed>>
  BY <1>1 DEF QueueInv, StreamInv, PlacedWires, IsTerminal
<1>2. CASE Connect \/ Disconnect \/ UNCHANGED vars
  BY <1>1, <1>2 DEF Connect, Disconnect, vars, broker, venue
<1>3. CASE YieldTask \/ PutTask
  BY <1>3, YieldInv, PutInv
<1>4. ASSUME NEW c \in Callers,
             \/ SnapDone(c) \/ CallRaises(c) \/ CancelSend(c)
             \/ \E o \in Orders : SubmitCall(c, o) \/ CancelCall(c, o)
      PROVE  QueueInv' /\ StreamInv'
  BY <1>1, <1>4 DEF SnapDone, CallRaises, CancelSend, SubmitCall, CancelCall, venue
<1>5. ASSUME NEW c \in Callers, SnapUnavailable(c) \/ Place(c)
      PROVE  QueueInv' /\ StreamInv'
  BY <1>5, UnavailableInv, PlaceInv
<1>6. ASSUME NEW w \in Wires, VenueAccept(w) \/ VenueCancel(w)
      PROVE  QueueInv' /\ StreamInv'
  <2>1. w \in PlacedWires /\ UNCHANGED <<placed, emitted>>
    BY <1>6 DEF VenueAccept, VenueCancel, Live, AtVenue
  <2>2. CASE UNCHANGED <<track, tasks>>
    BY <2>1, <2>2, <1>1
  <2>3. CASE OnAccepted(w) \/ OnCancelled(w)
    BY <2>1, <2>3, HandlerInv
  <2>4. QED
    BY <1>6, <2>2, <2>3 DEF VenueAccept, VenueCancel
<1>7. ASSUME NEW w \in Wires, NEW e \in Execs, VenueExecute(w, e) \/ DeliverFill(w, e)
      PROVE  QueueInv' /\ StreamInv'
  <2>1. CASE VenueExecute(w, e)
    BY <1>1, <2>1 DEF VenueExecute, broker
  <2>2. CASE DeliverFill(w, e)
    BY <2>2, HandlerInv DEF DeliverFill, AtVenue
  <2>3. QED
    BY <1>7, <2>1, <2>2
<1>8. ASSUME NEW w \in Wires, NEW b \in BOOLEAN, VenueInactive(w, b) \/ VenueError(w, b)
      PROVE  QueueInv' /\ StreamInv'
  <2>1. CASE VenueError(w, b)
    BY <1>1, <2>1 DEF VenueError, AtVenue
  <2>2. CASE VenueInactive(w, b)
    BY <2>2, HandlerInv DEF VenueInactive, AtVenue, Live
  <2>3. QED
    BY <1>8, <2>1, <2>2
<1>9. QED
  BY <1>2, <1>3, <1>4, <1>5, <1>6, <1>7, <1>8 DEF Next

(* One put keeps the property when the stream holds no terminal event of   *)
(* the venue order it is about.                                            *)
LEMMA EmitTerminal ==
  ASSUME TypeOK, TerminalIsLast, NEW o \in Orders, NEW ev, Emit(o, ev),
         \A i \in DOMAIN emitted[o] :
           IsTerminal(emitted[o][i]) => emitted[o][i].wire # ev.wire
  PROVE  TerminalIsLast'
<1> DEFINE n == Len(emitted[o]) + 1
<1>1. \A p \in Orders :
        /\ p # o => emitted'[p] = emitted[p]
        /\ p = o => /\ DOMAIN emitted'[p] = DOMAIN emitted[p] \cup {n}
                    /\ \A i \in DOMAIN emitted[p] :
                         i < n /\ emitted'[p][i] = emitted[p][i]
                    /\ emitted'[p][n] = ev
                    /\ n \in Nat /\ DOMAIN emitted[p] \subseteq Nat
  BY EmitFacts
<1> HIDE DEF n
<1>2. SUFFICES ASSUME NEW p \in Orders, NEW i \in DOMAIN emitted'[p],
                      NEW j \in DOMAIN emitted'[p], i < j,
                      emitted'[p][i].wire = emitted'[p][j].wire
               PROVE  ~IsTerminal(emitted'[p][i])
  BY DEF TerminalIsLast, IsTerminal
<1>3. CASE p # o
  BY <1>1, <1>2, <1>3 DEF TerminalIsLast
<1>4. CASE p = o
  <2>1. i \in DOMAIN emitted[p] /\ emitted'[p][i] = emitted[p][i]
    BY <1>1, <1>2, <1>4
  <2>2. CASE j = n
    BY <1>1, <1>2, <1>4, <2>1, <2>2
  <2>3. CASE j \in DOMAIN emitted[p]
    BY <1>1, <1>2, <1>4, <2>1, <2>3 DEF TerminalIsLast
  <2>4. QED
    BY <1>1, <1>4, <2>2, <2>3
<1>5. QED
  BY <1>3, <1>4

(* Streams grow in PutTask, SnapUnavailable and Place only.                *)
LEMMA OnlyPuts ==
  ASSUME [Next]_vars, emitted' # emitted
  PROVE  PutTask \/ \E c \in Callers : SnapUnavailable(c) \/ Place(c)
<1>1. CASE UNCHANGED vars
  BY <1>1 DEF vars, broker
<1>2. CASE \/ Connect \/ Disconnect \/ YieldTask
  BY <1>2 DEF Connect, Disconnect, YieldTask
<1>3. ASSUME NEW c \in Callers,
             \/ SnapDone(c) \/ CallRaises(c) \/ CancelSend(c)
             \/ \E o \in Orders : SubmitCall(c, o) \/ CancelCall(c, o)
      PROVE  FALSE
  BY <1>3 DEF SnapDone, CallRaises, CancelSend, SubmitCall, CancelCall
<1>4. ASSUME NEW w \in Wires,
             \/ VenueAccept(w) \/ VenueCancel(w)
             \/ \E e \in Execs : VenueExecute(w, e) \/ DeliverFill(w, e)
             \/ \E b \in BOOLEAN : VenueInactive(w, b) \/ VenueError(w, b)
      PROVE  FALSE
  BY <1>4 DEF VenueAccept, VenueCancel, VenueExecute, DeliverFill, VenueInactive,
              VenueError, AtVenue, broker
<1>5. QED
  BY <1>1, <1>2, <1>3, <1>4 DEF Next

(* Nothing is put for a venue order after its terminal event: no earlier   *)
(* terminal event shares its venue order with a queued task.               *)
LEMMA TerminalStep ==
  ASSUME TypeOK, CallInv, WireInv, QueueInv, StreamInv, TerminalIsLast, [Next]_vars
  PROVE  TerminalIsLast'
<1>1. CASE UNCHANGED emitted
  BY <1>1 DEF TerminalIsLast, IsTerminal
<1>2. CASE PutTask
  <2> DEFINE t == Head(tasks)
  <2>1. t \in Tasks /\ t = tasks[1] /\ 1 \in DOMAIN tasks
    BY <1>2, HeadFacts DEF PutTask
  <2>2. t.order \in Orders /\ PutEvent(t).wire = t.ev.wire /\ Emit(t.order, PutEvent(t))
    BY <1>2, <2>1 DEF PutTask, PutEvent, Tasks, EventsFor
  <2>3. \A i \in DOMAIN emitted[t.order] :
          IsTerminal(emitted[t.order][i]) => emitted[t.order][i].wire # t.ev.wire
    BY <2>1, <2>2 DEF StreamInv, IsTerminal
  <2> HIDE DEF t
  <2>4. QED
    BY <2>2, <2>3, EmitTerminal
<1>3. ASSUME NEW c \in Callers, SnapUnavailable(c)
      PROVE  TerminalIsLast'
  <2> DEFINE ev == Event("REJECTED", NoWire, NoExec, "price_rule")
  <2>1. call[c].order \in Orders /\ Emit(call[c].order, ev) /\ ev.wire = NoWire
    BY <1>3, NoneAssumption DEF TypeOK, SnapUnavailable, Calls, Idle, Event
  <2> HIDE DEF ev
  <2>2. QED
    BY <2>1, EmitTerminal DEF IsTerminal
<1>4. ASSUME NEW c \in Callers, Place(c)
      PROVE  TerminalIsLast'
  <2> DEFINE w == Len(placed) + 1
             ev == Event("SUBMITTED", w, NoExec, "none")
  <2>1. /\ call[c].order \in Orders /\ Emit(call[c].order, ev)
        /\ ev.wire = w /\ w \notin PlacedWires
    BY <1>4, PlaceFacts DEF Place, Event
  <2> HIDE DEF w, ev
  <2>2. QED
    BY <2>1, EmitTerminal DEF StreamInv, IsTerminal
<1>5. QED
  BY <1>1, <1>2, <1>3, <1>4, OnlyPuts

(* The inductive invariant holds initially and is kept by every step.      *)
LEMMA IInvInductive ==
  ASSUME ConcurrentReuse = FALSE
  PROVE  (Init => IInv) /\ (IInv /\ [Next]_vars => IInv')
<1>1. ASSUME Init PROVE IInv
  <2>1. /\ \A c \in Callers : ~Submitting(c)
        /\ PlacedWires = {} /\ DOMAIN tasks = {}
        /\ \A o \in Orders : DOMAIN emitted[o] = {}
    BY <1>1 DEF Init, Submitting, Idle, PlacedWires
  <2>2. QED
    BY <1>1, <2>1, InitType DEF IInv, CallInv, WireInv, QueueInv, StreamInv, TerminalIsLast
<1>2. ASSUME IInv, [Next]_vars PROVE IInv'
  BY <1>2, StepType, CallInvStep, WireInvStep, QueueStreamStep, TerminalStep DEF IInv
<1>3. QED
  BY <1>1, <1>2

(* When no two submit calls with one client order id are in flight at      *)
(* once, no id is placed at the venue twice (broker.py submit).            *)
THEOREM NoDuplicatePlacement ==
  ASSUME ConcurrentReuse = FALSE
  PROVE  Spec => []PlacedOnce
<1>1. Init => IInv
  BY IInvInductive
<1>2. IInv /\ [Next]_vars => IInv'
  BY IInvInductive
<1>3. IInv => PlacedOnce
  BY DEF IInv, WireInv, PlacedOnce
<1>4. QED
  BY <1>1, <1>2, <1>3, PTL DEF Spec

(* Under the same condition the terminal event of a venue order is the     *)
(* last one put for it, deferred REJECTED included (broker.py handlers).   *)
THEOREM NothingAfterTerminal ==
  ASSUME ConcurrentReuse = FALSE
  PROVE  Spec => []TerminalIsLast
<1>1. Init => IInv
  BY IInvInductive
<1>2. IInv /\ [Next]_vars => IInv'
  BY IInvInductive
<1>3. IInv => TerminalIsLast
  BY DEF IInv
<1>4. QED
  BY <1>1, <1>2, <1>3, PTL DEF Spec
-----------------------------------------------------------------------------
(* What the four handlers have in common.                                  *)

(* A task at the back of the queue leaves the others where they are.       *)
LEMMA BackOfQueue ==
  ASSUME NEW q \in Seq(Tasks), NEW t \in Tasks
  PROVE  /\ Append(q, t) \in Seq(Tasks)
         /\ DOMAIN Append(q, t) = DOMAIN q \cup {Len(q) + 1}
         /\ \A i \in DOMAIN q : Append(q, t)[i] = q[i] /\ i \in Nat /\ i < Len(q) + 1
         /\ Append(q, t)[Len(q) + 1] = t
         /\ Len(q) + 1 \in Nat
OBVIOUS

(* The task a handler creates for the venue order w.                       *)
NewTask(w, kind, e, why, left) ==
  [order |-> placed[w], ev |-> Event(kind, w, e, why), left |-> left]

TaskOK(t, w, kind, e, why, left) ==
  /\ t \in Tasks /\ t.order = placed[w] /\ t.left = left
  /\ t.ev.kind = kind /\ t.ev.wire = w /\ t.ev.exec = e /\ t.ev.why = why

LEMMA NewTaskFacts ==
  ASSUME TypeOK, NEW w \in PlacedWires, NEW kind \in Kinds, NEW e \in Execs \cup {NoExec},
         NEW why \in Reasons \cup {"lookup"}, NEW left \in 0..InactiveYields
  PROVE  TaskOK(NewTask(w, kind, e, why, left), w, kind, e, why, left)
<1>1. w \in Wires /\ placed[w] \in Orders
  BY PlacedOrder
<1>2. Event(kind, w, e, why) \in EventsFor(Reasons \cup {"lookup"})
  BY <1>1, EventType
<1>3. QED
  BY <1>1, <1>2 DEF NewTask, TaskOK, Tasks, Event

(* Each handler either ignores the push or, the order being open, does one *)
(* of four things.                                                         *)
Accepts(w) ==
  /\ ~track[placed[w]].accepted
  /\ track' = [track EXCEPT ![placed[w]].accepted = TRUE]
  /\ tasks' = Append(tasks, NewTask(w, "ACCEPTED", NoExec, "none", 0))
  /\ stash' = stash

Cancels(w) ==
  /\ track' = [track EXCEPT ![placed[w]].terminal = TRUE]
  /\ \/ /\ ~track[placed[w]].accepted
        /\ tasks' = Append(tasks, NewTask(w, "REJECTED", NoExec, "log", 0))
     \/ tasks' = Append(tasks, NewTask(w, "CANCELED", NoExec, "engine", 0))
  /\ stash' = stash \ {w}

Defers(w) ==
  /\ track' = [track EXCEPT ![placed[w]].terminal = TRUE]
  /\ tasks' = Append(tasks, NewTask(w, "REJECTED", NoExec, "lookup", InactiveYields))
  /\ stash' = stash

AcceptedQueue(w) ==
  IF track[placed[w]].accepted THEN tasks
  ELSE Append(tasks, NewTask(w, "ACCEPTED", NoExec, "none", 0))

FillKind(w, e) == IF Whole(placed[w], e) THEN "FILLED" ELSE "PARTIAL_FILL"

Fills(w, e) ==
  /\ ~Seen(placed[w], e)
  /\ track' = [track EXCEPT ![placed[w]] =
                 [accepted |-> TRUE, terminal |-> Whole(placed[w], e),
                  seen |-> @.seen \cup {e}, cum |-> CumAfter(placed[w], e)]]
  /\ tasks' = Append(AcceptedQueue(w), NewTask(w, FillKind(w, e), e, "none", 0))
  /\ stash' = IF Whole(placed[w], e) THEN stash \ {w} ELSE stash

LEMMA KnownTasks ==
  ASSUME TypeOK, NEW w \in PlacedWires
  PROVE  /\ TaskOK(NewTask(w, "ACCEPTED", NoExec, "none", 0), w, "ACCEPTED", NoExec, "none", 0)
         /\ TaskOK(NewTask(w, "REJECTED", NoExec, "log", 0), w, "REJECTED", NoExec, "log", 0)
         /\ TaskOK(NewTask(w, "CANCELED", NoExec, "engine", 0),
                   w, "CANCELED", NoExec, "engine", 0)
         /\ TaskOK(NewTask(w, "REJECTED", NoExec, "lookup", InactiveYields),
                   w, "REJECTED", NoExec, "lookup", InactiveYields)
         /\ \A e \in Execs : TaskOK(NewTask(w, FillKind(w, e), e, "none", 0),
                                   w, FillKind(w, e), e, "none", 0)
<1>1. /\ 0 \in 0..InactiveYields /\ InactiveYields \in 0..InactiveYields
      /\ "ACCEPTED" \in Kinds /\ "REJECTED" \in Kinds /\ "CANCELED" \in Kinds
      /\ "none" \in Reasons \cup {"lookup"} /\ "log" \in Reasons \cup {"lookup"}
      /\ "engine" \in Reasons \cup {"lookup"} /\ "lookup" \in Reasons \cup {"lookup"}
      /\ NoExec \in Execs \cup {NoExec}
  BY DEF InactiveYields, Kinds, Reasons
<1>2. \A e \in Execs : e \in Execs \cup {NoExec} /\ FillKind(w, e) \in Kinds
  BY DEF FillKind, Kinds
<1>3. TaskOK(NewTask(w, "ACCEPTED", NoExec, "none", 0), w, "ACCEPTED", NoExec, "none", 0)
  BY <1>1, NewTaskFacts
<1>4. TaskOK(NewTask(w, "REJECTED", NoExec, "log", 0), w, "REJECTED", NoExec, "log", 0)
  BY <1>1, NewTaskFacts
<1>5. TaskOK(NewTask(w, "CANCELED", NoExec, "engine", 0), w, "CANCELED", NoExec, "engine", 0)
  BY <1>1, NewTaskFacts
<1>6. TaskOK(NewTask(w, "REJECTED", NoExec, "lookup", InactiveYields),
             w, "REJECTED", NoExec, "lookup", InactiveYields)
  BY <1>1, NewTaskFacts
<1>7. ASSUME NEW e \in Execs
      PROVE  TaskOK(NewTask(w, FillKind(w, e), e, "none", 0), w, FillKind(w, e), e, "none", 0)
  <2>1. e \in Execs \cup {NoExec} /\ FillKind(w, e) \in Kinds
    BY <1>2
  <2>2. QED
    BY <1>1, <2>1, NewTaskFacts
<1>8. QED
  BY <1>3, <1>4, <1>5, <1>6, <1>7

LEMMA FillCases ==
  ASSUME NEW w \in PlacedWires, NEW e \in Execs, OnFill(w, e)
  PROVE  \/ /\ UNCHANGED <<track, tasks, stash>>
            /\ track[placed[w]].terminal \/ e \in track[placed[w]].seen
         \/ ~track[placed[w]].terminal /\ Fills(w, e)
<1>1. ImpliedAccept(w) = AcceptedQueue(w)
  BY DEF ImpliedAccept, AcceptedQueue, CreateTask, NewTask
<1>2. CreateTask(ImpliedAccept(w), placed[w], Event(FillKind(w, e), w, e, "none"), 0)
        = Append(AcceptedQueue(w), NewTask(w, FillKind(w, e), e, "none", 0))
  BY <1>1 DEF CreateTask, NewTask
<1>3. QED
  BY <1>2 DEF OnFill, Closed, Seen, Fills, FillKind

LEMMA AcceptCase ==
  ASSUME NEW w \in PlacedWires, OnAccepted(w)
  PROVE  \/ UNCHANGED <<track, tasks, stash>>
         \/ ~track[placed[w]].terminal /\ Accepts(w)
BY DEF OnAccepted, Closed, Accepts, CreateTask, NewTask

LEMMA CancelCase ==
  ASSUME NEW w \in PlacedWires, OnCancelled(w)
  PROVE  \/ UNCHANGED <<track, tasks, stash>>
         \/ ~track[placed[w]].terminal /\ Cancels(w)
BY DEF OnCancelled, Closed, Cancels, CancelIsReject, CreateTask, NewTask

LEMMA InactiveCase ==
  ASSUME NEW w \in PlacedWires, OnInactive(w)
  PROVE  \/ UNCHANGED <<track, tasks, stash>>
         \/ ~track[placed[w]].terminal /\ Defers(w)
BY DEF OnInactive, Inactivate, Closed, Defers, CreateTask, NewTask

LEMMA HandlerCases ==
  ASSUME NEW w \in PlacedWires,
         \/ OnAccepted(w) \/ OnCancelled(w) \/ OnInactive(w)
         \/ \E e \in Execs : OnFill(w, e)
  PROVE  \/ UNCHANGED <<track, tasks, stash>>
         \/ /\ ~track[placed[w]].terminal
            /\ \/ Accepts(w) \/ Cancels(w) \/ Defers(w)
               \/ \E e \in Execs : Fills(w, e)
BY AcceptCase, CancelCase, InactiveCase, FillCases

(* Seen from the queue: new tasks come behind the old ones, for the order  *)
(* of w, whose REJECTED may be deferred only if it stays in the stash.     *)
LEMMA HandlerQueue ==
  ASSUME TypeOK, NEW w \in PlacedWires,
         \/ OnAccepted(w) \/ OnCancelled(w) \/ OnInactive(w)
         \/ \E e \in Execs : OnFill(w, e),
         ~UNCHANGED <<track, tasks, stash>>
  PROVE  /\ ~track[placed[w]].terminal
         /\ \A p \in Orders : p # placed[w] => track'[p] = track[p]
         /\ DOMAIN tasks \subseteq DOMAIN tasks'
         /\ \A i \in DOMAIN tasks : tasks'[i] = tasks[i]
         /\ \A i \in DOMAIN tasks' \ DOMAIN tasks :
              /\ tasks'[i].order = placed[w] /\ tasks'[i].ev.wire = w
              /\ tasks'[i].ev.why \in {"none", "log", "engine", "lookup"}
              /\ tasks'[i].ev.why = "lookup" => tasks'[i].ev.kind \in TerminalKinds /\ stash' = stash
         /\ \/ stash' = stash
            \/ stash' = stash \ {w} /\ track'[placed[w]].terminal
<1> DEFINE o == placed[w]
<1>1. /\ track \in [Orders -> Tracking] /\ tasks \in Seq(Tasks) /\ o \in Orders
      /\ track[o] \in Tracking
  BY PlacedOrder DEF TypeOK
<1>2. /\ NewTask(w, "ACCEPTED", NoExec, "none", 0) \in Tasks
      /\ NewTask(w, "ACCEPTED", NoExec, "none", 0).order = o
      /\ NewTask(w, "ACCEPTED", NoExec, "none", 0).ev.wire = w
      /\ NewTask(w, "ACCEPTED", NoExec, "none", 0).ev.why = "none"
  BY KnownTasks DEF TaskOK
<1>3. CASE Accepts(w) /\ ~track[o].terminal
  BY <1>1, <1>2, <1>3, BackOfQueue DEF Accepts
<1>4. ASSUME track' = [track EXCEPT ![o].terminal = TRUE]
      PROVE  track'[o].terminal /\ \A p \in Orders : p # o => track'[p] = track[p]
  BY <1>1, <1>4 DEF Tracking
<1>5. CASE Cancels(w) /\ ~track[o].terminal
  <2>1. PICK t \in Tasks : /\ tasks' = Append(tasks, t)
                           /\ t.order = o /\ t.ev.wire = w /\ t.ev.why \in {"log", "engine"}
    <3>1. CASE tasks' = Append(tasks, NewTask(w, "REJECTED", NoExec, "log", 0))
      BY <3>1, KnownTasks DEF TaskOK
    <3>2. CASE tasks' = Append(tasks, NewTask(w, "CANCELED", NoExec, "engine", 0))
      BY <3>2, KnownTasks DEF TaskOK
    <3>3. QED
      BY <1>5, <3>1, <3>2 DEF Cancels
  <2>2. QED
    BY <1>1, <1>4, <1>5, <2>1, BackOfQueue DEF Cancels
<1>6. CASE Defers(w) /\ ~track[o].terminal
  <2>1. PICK t \in Tasks : /\ tasks' = Append(tasks, t)
                           /\ t.order = o /\ t.ev.wire = w /\ t.ev.why = "lookup"
                           /\ t.ev.kind \in TerminalKinds
    BY <1>6, KnownTasks DEF Defers, TerminalKinds, TaskOK
  <2>2. QED
    BY <1>1, <1>4, <1>6, <2>1, BackOfQueue DEF Defers
<1>7. ASSUME NEW e \in Execs, Fills(w, e), ~track[o].terminal
      PROVE  /\ \A p \in Orders : p # o => track'[p] = track[p]
             /\ DOMAIN tasks \subseteq DOMAIN tasks'
             /\ \A i \in DOMAIN tasks : tasks'[i] = tasks[i]
             /\ \A i \in DOMAIN tasks' \ DOMAIN tasks :
                  /\ tasks'[i].order = o /\ tasks'[i].ev.wire = w
                  /\ tasks'[i].ev.why = "none"
             /\ \/ stash' = stash
                \/ stash' = stash \ {w} /\ track'[o].terminal
  <2>1. PICK t \in Tasks : /\ tasks' = Append(AcceptedQueue(w), t)
                           /\ t.order = o /\ t.ev.wire = w /\ t.ev.why = "none"
    BY <1>7, KnownTasks DEF Fills, TaskOK
  <2>2. /\ AcceptedQueue(w) \in Seq(Tasks)
        /\ DOMAIN tasks \subseteq DOMAIN AcceptedQueue(w)
        /\ \A i \in DOMAIN tasks : AcceptedQueue(w)[i] = tasks[i]
        /\ \A i \in DOMAIN AcceptedQueue(w) \ DOMAIN tasks :
             AcceptedQueue(w)[i] = NewTask(w, "ACCEPTED", NoExec, "none", 0)
    BY <1>1, <1>2, BackOfQueue DEF AcceptedQueue
  <2>3. /\ track'[o].terminal = Whole(o, e)
        /\ \A p \in Orders : p # o => track'[p] = track[p]
    BY <1>1, <1>7 DEF Fills
  <2>4. \/ stash' = stash
        \/ stash' = stash \ {w} /\ track'[o].terminal
    BY <1>7, <2>3 DEF Fills
  <2>5. /\ DOMAIN tasks' = DOMAIN AcceptedQueue(w) \cup {Len(AcceptedQueue(w)) + 1}
        /\ \A i \in DOMAIN AcceptedQueue(w) : tasks'[i] = AcceptedQueue(w)[i]
        /\ tasks'[Len(AcceptedQueue(w)) + 1] = t
    BY <2>1, <2>2, BackOfQueue
  <2>6. QED
    BY <1>2, <2>1, <2>2, <2>3, <2>4, <2>5
<1>8. QED
  BY HandlerCases, <1>3, <1>5, <1>6, <1>7
-----------------------------------------------------------------------------
(* Reasons.  An error the session heard is in the stash until the event    *)
(* that closes its order takes it: a deferred REJECTED still finds it.     *)
Deferring(t) == t.ev.why = "lookup"

ReasonTasks ==
  \A i \in DOMAIN tasks :
    /\ tasks[i].ev.why # "rejected"
    /\ Deferring(tasks[i]) => tasks[i].ev.kind \in TerminalKinds

Taken(w) ==
  /\ track[placed[w]].terminal
  /\ \A i \in DOMAIN tasks : Deferring(tasks[i]) => tasks[i].ev.wire # w

HeardInv ==
  /\ ReasonTasks
  /\ heard \subseteq PlacedWires
  /\ \A w \in heard : w \in stash \/ Taken(w)

ReasonInv == IInv /\ HeardInv

(* A deferred task is for an order already marked terminal.                *)
LEMMA DeferredIsClosed ==
  ASSUME QueueInv, ReasonTasks, NEW i \in DOMAIN tasks, Deferring(tasks[i])
  PROVE  /\ tasks[i].ev.wire \in PlacedWires
         /\ track[placed[tasks[i].ev.wire]].terminal
BY DEF QueueInv, ReasonTasks

LEMMA HeardHandler ==
  ASSUME TypeOK, QueueInv, HeardInv, NEW w \in PlacedWires,
         \/ OnAccepted(w) \/ OnCancelled(w) \/ OnInactive(w)
         \/ \E e \in Execs : OnFill(w, e),
         UNCHANGED <<placed, heard>>
  PROVE  HeardInv'
<1>1. CASE UNCHANGED <<track, tasks, stash>>
  BY <1>1 DEF HeardInv, ReasonTasks, Taken, Deferring, PlacedWires
<1>2. CASE ~UNCHANGED <<track, tasks, stash>>
  <2>1. /\ ~track[placed[w]].terminal
        /\ \A p \in Orders : p # placed[w] => track'[p] = track[p]
        /\ \A i \in DOMAIN tasks' :
             \/ i \in DOMAIN tasks /\ tasks'[i] = tasks[i]
             \/ /\ tasks'[i].ev.wire = w
                /\ tasks'[i].ev.why \in {"none", "log", "engine", "lookup"}
                /\ tasks'[i].ev.why = "lookup" =>
                     tasks'[i].ev.kind \in TerminalKinds /\ stash' = stash
        /\ \/ stash' = stash
           \/ stash' = stash \ {w} /\ track'[placed[w]].terminal
    BY <1>2, HandlerQueue
  <2>2. ReasonTasks'
    BY <2>1 DEF HeardInv, ReasonTasks, Deferring
  <2>3. \A i \in DOMAIN tasks : Deferring(tasks[i]) => tasks[i].ev.wire # w
    BY <2>1, DeferredIsClosed DEF HeardInv
  <2>4. ASSUME NEW v \in heard
        PROVE  v \in stash' \/ Taken(v)'
    <3>1. v \in PlacedWires /\ (v \in stash \/ Taken(v)) /\ placed[v] \in Orders
      BY PlacedOrder DEF HeardInv
    <3>2. CASE v = w
      <4>1. v \in stash
        BY <2>1, <3>1, <3>2 DEF Taken
      <4>2. CASE stash' = stash
        BY <4>1, <4>2
      <4>3. CASE stash' = stash \ {w} /\ track'[placed[w]].terminal /\ stash' # stash
        <5>1. \A i \in DOMAIN tasks' : tasks'[i].ev.why = "lookup" =>
                 i \in DOMAIN tasks /\ tasks'[i] = tasks[i]
          BY <2>1, <4>3
        <5>2. QED
          BY <2>3, <3>2, <4>3, <5>1 DEF Taken, Deferring
      <4>4. QED
        BY <2>1, <4>2, <4>3
    <3>3. CASE v # w
      <4>1. v \in stash => v \in stash'
        BY <2>1, <3>3
      <4>2. CASE Taken(v)
        <5>1. track'[placed[v]].terminal
          BY <2>1, <3>1, <4>2 DEF Taken
        <5>2. QED
          BY <2>1, <3>3, <4>2, <5>1 DEF Taken, Deferring
      <4>3. QED
        BY <3>1, <4>1, <4>2
    <3>4. QED
      BY <3>2, <3>3
  <2>5. QED
    BY <2>2, <2>4 DEF HeardInv, PlacedWires
<1>3. QED
  BY <1>1, <1>2

(* The put that looks a reason up is the last of its venue order.          *)
LEMMA HeardPut ==
  ASSUME TypeOK, QueueInv, StreamInv, HeardInv, PutTask
  PROVE  HeardInv'
<1> DEFINE t == Head(tasks)
<1>1. /\ tasks # <<>> /\ tasks' = Tail(tasks) /\ UNCHANGED <<track, placed, heard>>
      /\ stash' = IF Deferring(t) THEN stash \ {t.ev.wire} ELSE stash
  BY DEF PutTask, venue, Deferred, Deferring
<1>2. /\ t = tasks[1] /\ 1 \in DOMAIN tasks
      /\ \A i \in DOMAIN tasks' : i + 1 \in DOMAIN tasks /\ tasks'[i] = tasks[i + 1]
      /\ t.ev.kind \in TerminalKinds => \A i \in DOMAIN tasks' : tasks'[i].ev.wire # t.ev.wire
  BY <1>1, HeadFacts, TailOK
<1> HIDE DEF t
<1>3. ReasonTasks'
  BY <1>2 DEF HeardInv, ReasonTasks, Deferring
<1>4. ASSUME NEW w \in heard
      PROVE  w \in stash' \/ Taken(w)'
  <2>1. w \in stash \/ Taken(w)
    BY DEF HeardInv
  <2>2. CASE Taken(w)
    BY <1>1, <1>2, <2>2 DEF Taken, Deferring
  <2>3. CASE w \in stash /\ w \notin stash'
    <3>1. Deferring(t) /\ w = t.ev.wire
      BY <1>1, <2>3
    <3>2. t.ev.kind \in TerminalKinds /\ track[placed[w]].terminal
      BY <1>2, <3>1, DeferredIsClosed DEF HeardInv, ReasonTasks
    <3>3. QED
      BY <1>1, <1>2, <3>1, <3>2 DEF Taken
  <2>4. QED
    BY <2>1, <2>2, <2>3
<1>5. QED
  BY <1>1, <1>3, <1>4 DEF HeardInv, PlacedWires

LEMMA HeardYield ==
  ASSUME TypeOK, HeardInv, YieldTask
  PROVE  HeardInv'
<1> DEFINE t == [Head(tasks) EXCEPT !.left = @ - 1]
<1>1. /\ tasks # <<>> /\ tasks' = Append(Tail(tasks), t)
      /\ UNCHANGED <<track, placed, heard, stash>>
  BY DEF YieldTask, Yielding, venue
<1>2. /\ 1 \in DOMAIN tasks /\ t.ev = tasks[1].ev
      /\ Tail(tasks) \in Seq(Tasks)
      /\ \A i \in DOMAIN Tail(tasks) : i + 1 \in DOMAIN tasks /\ Tail(tasks)[i] = tasks[i + 1]
  BY <1>1, HeadFacts DEF Tasks
<1> HIDE DEF t
<1>3. \A i \in DOMAIN tasks' : \E j \in DOMAIN tasks : tasks'[i].ev = tasks[j].ev
  <2>1. \A i \in DOMAIN tasks' :
          \/ i \in DOMAIN Tail(tasks) /\ tasks'[i] = Tail(tasks)[i]
          \/ tasks'[i] = t
    BY <1>1, <1>2
  <2>2. QED
    BY <1>2, <2>1
<1>4. ReasonTasks'
  BY <1>3 DEF HeardInv, ReasonTasks, Deferring
<1>5. \A w \in heard : Taken(w) => Taken(w)'
  BY <1>1, <1>3 DEF Taken, Deferring
<1>6. QED
  BY <1>1, <1>4, <1>5 DEF HeardInv, PlacedWires

LEMMA HeardPlace ==
  ASSUME TypeOK, CallInv, WireInv, HeardInv, NEW c \in Callers, Place(c)
  PROVE  HeardInv'
<1>1. /\ UNCHANGED <<tasks, stash, heard>>
      /\ track' = [track EXCEPT ![call[c].order] = FreshTracking]
  BY DEF Place
<1>2. /\ PlacedWires \subseteq PlacedWires'
      /\ \A v \in PlacedWires : /\ placed'[v] = placed[v] /\ placed[v] # call[c].order
                                /\ placed[v] \in Orders
  BY PlaceFacts, PlacedOrder
<1>3. \A v \in PlacedWires : track'[placed[v]] = track[placed[v]]
  BY <1>1, <1>2 DEF TypeOK
<1>4. QED
  BY <1>1, <1>2, <1>3 DEF HeardInv, ReasonTasks, Taken, Deferring

LEMMA HeardStep ==
  ASSUME TypeOK, CallInv, WireInv, QueueInv, StreamInv, HeardInv, [Next]_vars
  PROVE  HeardInv'
<1>1. CASE UNCHANGED <<track, tasks, placed, stash, heard>>
  BY <1>1 DEF HeardInv, ReasonTasks, Taken, Deferring, PlacedWires
<1>2. CASE Connect \/ UNCHANGED vars
  BY <1>1, <1>2 DEF Connect, vars, broker, venue
<1>3. CASE Disconnect
  BY <1>3 DEF Disconnect, HeardInv, ReasonTasks, Deferring
<1>4. CASE YieldTask \/ PutTask
  BY <1>4, HeardYield, HeardPut
<1>5. ASSUME NEW c \in Callers,
             \/ SnapDone(c) \/ SnapUnavailable(c) \/ CallRaises(c) \/ CancelSend(c)
             \/ \E o \in Orders : SubmitCall(c, o) \/ CancelCall(c, o)
      PROVE  HeardInv'
  BY <1>1, <1>5
     DEF SnapDone, SnapUnavailable, CallRaises, CancelSend, SubmitCall, CancelCall, venue
<1>6. ASSUME NEW c \in Callers, Place(c)
      PROVE  HeardInv'
  BY <1>6, HeardPlace
<1>7. ASSUME NEW w \in Wires, VenueAccept(w) \/ VenueCancel(w)
      PROVE  HeardInv'
  <2>1. w \in PlacedWires /\ UNCHANGED <<placed, heard>>
    BY <1>7 DEF VenueAccept, VenueCancel, Live
  <2>2. CASE UNCHANGED <<track, tasks, stash>>
    BY <1>1, <2>1, <2>2
  <2>3. CASE OnAccepted(w) \/ OnCancelled(w)
    BY <2>1, <2>3, HeardHandler
  <2>4. QED
    BY <1>7, <2>2, <2>3 DEF VenueAccept, VenueCancel
<1>8. ASSUME NEW w \in Wires, NEW e \in Execs, VenueExecute(w, e) \/ DeliverFill(w, e)
      PROVE  HeardInv'
  <2>1. CASE VenueExecute(w, e)
    BY <1>1, <2>1 DEF VenueExecute, broker
  <2>2. CASE DeliverFill(w, e)
    BY <2>2, HeardHandler DEF DeliverFill
  <2>3. QED
    BY <1>8, <2>1, <2>2
<1>9. ASSUME NEW w \in Wires, NEW b \in BOOLEAN, VenueInactive(w, b)
      PROVE  HeardInv'
  BY <1>9, HeardHandler DEF VenueInactive, Live
<1>10. ASSUME NEW w \in Wires, NEW b \in BOOLEAN, VenueError(w, b)
       PROVE  HeardInv'
  BY <1>10 DEF VenueError, AtVenue, HeardInv, ReasonTasks, Taken, Deferring, PlacedWires
<1>11. QED
  BY <1>2, <1>3, <1>4, <1>5, <1>6, <1>7, <1>8, <1>9, <1>10 DEF Next

(* The action property, of one step from a state with the invariant.       *)
LEMMA ReasonStep ==
  ASSUME ReasonInv, [Next]_vars, NEW o \in Orders, emitted'[o] # emitted[o],
         emitted'[o][Len(emitted'[o])].why = "rejected"
  PROVE  emitted'[o][Len(emitted'[o])].wire \notin heard
<1> USE DEF ReasonInv
<1>1. ASSUME NEW p \in Orders, NEW ev \in Events, Emit(p, ev)
      PROVE  p = o /\ emitted'[o][Len(emitted'[o])] = ev
  <2>1. emitted \in [Orders -> Seq(Events)]
    BY DEF IInv, TypeOK
  <2>2. p = o /\ emitted'[o] = Append(emitted[o], ev)
    BY <1>1, <2>1 DEF Emit
  <2>3. QED
    BY <2>1, <2>2
<1>2. ASSUME NEW c \in Callers, SnapUnavailable(c) PROVE FALSE
  <2>1. call[c].order \in Orders
    BY <1>2, NoneAssumption DEF IInv, TypeOK, SnapUnavailable, Calls, Idle
  <2>2. Event("REJECTED", NoWire, NoExec, "price_rule") \in Events
    BY EventType DEF Events, Kinds, Reasons
  <2>3. emitted'[o][Len(emitted'[o])] = Event("REJECTED", NoWire, NoExec, "price_rule")
    BY <1>1, <1>2, <2>1, <2>2 DEF SnapUnavailable
  <2>4. QED
    BY <2>3 DEF Event
<1>3. ASSUME NEW c \in Callers, Place(c) PROVE FALSE
  <2>1. call[c].order \in Orders /\ Len(placed) + 1 \in Wires
    BY <1>3, PlaceFacts DEF IInv
  <2>2. Event("SUBMITTED", Len(placed) + 1, NoExec, "none") \in Events
    BY <2>1, EventType DEF Events, Kinds, Reasons
  <2>3. emitted'[o][Len(emitted'[o])] = Event("SUBMITTED", Len(placed) + 1, NoExec, "none")
    BY <1>1, <1>3, <2>1, <2>2 DEF Place
  <2>4. QED
    BY <2>3 DEF Event
<1>4. CASE PutTask
  <2> DEFINE t == Head(tasks)
  <2>1. /\ t \in Tasks /\ t = tasks[1] /\ 1 \in DOMAIN tasks /\ PutEvent(t) \in Events
    BY <1>4, HeadFacts, QueueType DEF PutTask, IInv
  <2>2. t.order \in Orders /\ Emit(t.order, PutEvent(t)) /\ t.ev.wire \in PlacedWires
    BY <1>4, <2>1 DEF PutTask, Tasks, IInv, QueueInv
  <2>3. emitted'[o][Len(emitted'[o])] = PutEvent(t)
    BY <1>1, <2>1, <2>2
  <2>4. PutEvent(t).wire = t.ev.wire /\ PutEvent(t).why = "rejected"
    BY <2>1, <2>3 DEF PutEvent, Tasks, EventsFor
  <2>5. Deferring(t)
    BY <2>1, <2>4 DEF PutEvent, Deferred, Deferring, HeardInv, ReasonTasks
  <2>6. RejectReason(t.ev.wire) = "rejected"
    BY <2>1, <2>4, <2>5 DEF PutEvent, Deferred, Deferring, Tasks, EventsFor
  <2>7. t.ev.wire \notin stash
    BY <2>6 DEF RejectReason
  <2>8. t.ev.wire \notin heard
    BY <2>1, <2>5, <2>7 DEF HeardInv, Taken
  <2>9. QED
    BY <2>3, <2>4, <2>8
<1>5. QED
  BY <1>2, <1>3, <1>4, OnlyPuts

(* REJECTED gives the bare reason only when the session heard no error for *)
(* the order: what the handler's deferral by three loop turns is for       *)
(* (broker.py _emit_rejected_via_inactive).                                *)
THEOREM ErrorsReachTheirOrder ==
  ASSUME ConcurrentReuse = FALSE
  PROVE  Spec => ReasonKept
<1>1. Init => ReasonInv
  <2>1. Init => IInv
    BY IInvInductive
  <2>2. Init => HeardInv
    BY DEF Init, HeardInv, ReasonTasks
  <2>3. QED
    BY <2>1, <2>2 DEF ReasonInv
<1>2. ReasonInv /\ [Next]_vars => ReasonInv'
  BY IInvInductive, HeardStep DEF ReasonInv, IInv
<1>3. ReasonInv /\ [Next]_vars =>
        [\A o \in Orders : emitted'[o] # emitted[o] =>
           LET ev == emitted'[o][Len(emitted'[o])] IN
           ev.why = "rejected" => ev.wire \notin heard]_emitted
  BY ReasonStep
<1>4. QED
  BY <1>1, <1>2, <1>3, PTL DEF Spec, ReasonKept
-----------------------------------------------------------------------------
(* Executions.  The venue makes each for one order and pushes only what it *)
(* made; a tracking record has seen what its stream and its tasks tell,    *)
(* and no two of them tell the same.                                       *)
VenueInv ==
  /\ \A v, w \in Wires : \A e \in Execs : e \in executed[v] /\ e \in executed[w] => v = w
  /\ \A w \in Wires : executed[w] # {} => w \in PlacedWires
  /\ \A e \in delivered : \E w \in Wires : e \in executed[w]

TradeInv == \A o \in Orders : trade[o] # NoWire =>
              trade[o] \in PlacedWires /\ placed[trade[o]] = o

SeenInv ==
  /\ \A o \in Orders : \A e \in track[o].seen :
       \E w \in PlacedWires : placed[w] = o /\ e \in executed[w]
  /\ \A w \in PlacedWires : \A e \in executed[w] \cap delivered :
       e \in track[placed[w]].seen \/ track[placed[w]].terminal

Streamed(o, e) == \E i \in DOMAIN emitted[o] : emitted[o][i].exec = e
Waiting(o, e) == \E i \in DOMAIN tasks : tasks[i].order = o /\ tasks[i].ev.exec = e

ToldInv ==
  /\ \A o \in Orders : \A e \in Execs :
       e \in track[o].seen <=> Streamed(o, e) \/ Waiting(o, e)
  /\ \A i, j \in DOMAIN tasks :
       tasks[i].ev.exec = tasks[j].ev.exec => tasks[i].ev.exec = NoExec \/ i = j
  /\ \A i \in DOMAIN tasks : \A o \in Orders :
       tasks[i].ev.exec # NoExec => ~Streamed(o, tasks[i].ev.exec)

LedgerInv == VenueInv /\ TradeInv /\ SeenInv /\ ToldInv /\ NoExecTwice

(* No execution is in the records of two orders.                           *)
LEMMA SeenApart ==
  ASSUME TypeOK, VenueInv, SeenInv,
         NEW o \in Orders, NEW w \in PlacedWires, NEW e \in track[o].seen, e \in executed[w]
  PROVE  o = placed[w]
<1>1. PICK v \in PlacedWires : placed[v] = o /\ e \in executed[v]
  BY DEF SeenInv
<1>2. v \in Wires /\ w \in Wires /\ e \in Execs
  BY PlacedOrder DEF TypeOK
<1>3. QED
  BY <1>1, <1>2 DEF VenueInv

(* Well-typed tasks and events carry an execution or none.                 *)
LEMMA ExecTypes ==
  ASSUME TypeOK
  PROVE  /\ \A i \in DOMAIN tasks :
              /\ tasks[i] \in Tasks /\ tasks[i].order \in Orders
              /\ tasks[i].ev.exec \in Execs \cup {NoExec}
         /\ \A o \in Orders : \A i \in DOMAIN emitted[o] :
              emitted[o][i].exec \in Execs \cup {NoExec}
<1>1. ASSUME NEW i \in DOMAIN tasks
      PROVE  /\ tasks[i] \in Tasks /\ tasks[i].order \in Orders
             /\ tasks[i].ev.exec \in Execs \cup {NoExec}
  <2>1. tasks[i] \in Tasks
    BY DEF TypeOK
  <2>2. QED
    BY <2>1 DEF Tasks, EventsFor
<1>2. ASSUME NEW o \in Orders, NEW i \in DOMAIN emitted[o]
      PROVE  emitted[o][i].exec \in Execs \cup {NoExec}
  <2>1. emitted[o][i] \in Events
    BY DEF TypeOK
  <2>2. QED
    BY <2>1 DEF Events, EventsFor
<1>3. QED
  BY <1>1, <1>2

(* A handler that reports no execution leaves every account as it was.     *)
LEMMA QuietHandler ==
  ASSUME TypeOK, NEW w \in PlacedWires,
         OnAccepted(w) \/ OnCancelled(w) \/ OnInactive(w),
         ~UNCHANGED <<track, tasks, stash>>
  PROVE  /\ \A o \in Orders : /\ track'[o].seen = track[o].seen
                              /\ track[o].terminal => track'[o].terminal
         /\ \A i \in DOMAIN tasks' \ DOMAIN tasks : tasks'[i].ev.exec = NoExec
<1> DEFINE o == placed[w]
<1>1. /\ track \in [Orders -> Tracking] /\ tasks \in Seq(Tasks) /\ o \in Orders
      /\ track[o] \in Tracking
  BY PlacedOrder DEF TypeOK
<1>2. Accepts(w) \/ Cancels(w) \/ Defers(w)
  BY AcceptCase, CancelCase, InactiveCase
<1>3. /\ \/ track' = [track EXCEPT ![o].accepted = TRUE]
         \/ track' = [track EXCEPT ![o].terminal = TRUE]
      /\ \E t \in Tasks : tasks' = Append(tasks, t) /\ t.ev.exec = NoExec
  <2>1. CASE Accepts(w)
    BY <2>1, KnownTasks DEF Accepts, TaskOK
  <2>2. CASE Cancels(w)
    BY <2>2, KnownTasks DEF Cancels, TaskOK
  <2>3. CASE Defers(w)
    BY <2>3, KnownTasks DEF Defers, TaskOK
  <2>4. QED
    BY <1>2, <2>1, <2>2, <2>3
<1>4. \A p \in Orders : /\ track'[p].seen = track[p].seen
                        /\ track[p].terminal => track'[p].terminal
  <2>1. \A p \in Orders : p # o => track'[p] = track[p]
    BY <1>1, <1>3
  <2>2. CASE track' = [track EXCEPT ![o].accepted = TRUE]
    <3>1. track'[o].seen = track[o].seen /\ track'[o].terminal = track[o].terminal
      BY <1>1, <2>2 DEF Tracking
    <3>2. QED
      BY <2>1, <3>1
  <2>3. CASE track' = [track EXCEPT ![o].terminal = TRUE]
    <3>1. track'[o].seen = track[o].seen /\ track'[o].terminal
      BY <1>1, <2>3 DEF Tracking
    <3>2. QED
      BY <2>1, <3>1
  <2>4. QED
    BY <1>3, <2>2, <2>3
<1>5. QED
  BY <1>1, <1>3, <1>4, BackOfQueue

LEMMA FillHandler ==
  ASSUME TypeOK, NEW w \in PlacedWires, NEW e \in Execs, Fills(w, e)
  PROVE  /\ e \notin track[placed[w]].seen
         /\ track'[placed[w]].seen = track[placed[w]].seen \cup {e}
         /\ \A p \in Orders : p # placed[w] => track'[p] = track[p]
         /\ DOMAIN tasks \subseteq DOMAIN tasks'
         /\ \A i \in DOMAIN tasks : tasks'[i] = tasks[i]
         /\ \E n \in DOMAIN tasks' \ DOMAIN tasks :
              /\ tasks'[n].order = placed[w] /\ tasks'[n].ev.exec = e
              /\ \A i \in DOMAIN tasks' \ DOMAIN tasks : i # n => tasks'[i].ev.exec = NoExec
<1> DEFINE q == AcceptedQueue(w)
           t == NewTask(w, FillKind(w, e), e, "none", 0)
           n == Len(q) + 1
<1>1. /\ track \in [Orders -> Tracking] /\ tasks \in Seq(Tasks) /\ placed[w] \in Orders
  BY PlacedOrder DEF TypeOK
<1>2. /\ e \notin track[placed[w]].seen
      /\ track'[placed[w]].seen = track[placed[w]].seen \cup {e}
      /\ \A p \in Orders : p # placed[w] => track'[p] = track[p]
      /\ tasks' = Append(q, t)
  BY <1>1 DEF Fills, Seen
<1>3. /\ NewTask(w, "ACCEPTED", NoExec, "none", 0) \in Tasks
      /\ NewTask(w, "ACCEPTED", NoExec, "none", 0).ev.exec = NoExec
      /\ t \in Tasks /\ t.order = placed[w] /\ t.ev.exec = e
  BY KnownTasks DEF TaskOK
<1>4. /\ q \in Seq(Tasks) /\ DOMAIN tasks \subseteq DOMAIN q
      /\ \A i \in DOMAIN tasks : q[i] = tasks[i]
      /\ \A i \in DOMAIN q \ DOMAIN tasks : q[i].ev.exec = NoExec
  BY <1>1, <1>3, BackOfQueue DEF AcceptedQueue
<1> HIDE DEF q, t
<1>5. /\ DOMAIN tasks' = DOMAIN q \cup {n}
      /\ \A i \in DOMAIN q : tasks'[i] = q[i] /\ i \in Nat /\ i < n
      /\ tasks'[n] = t /\ n \in Nat
  BY <1>2, <1>3, <1>4, BackOfQueue
<1>6. n \in DOMAIN tasks' \ DOMAIN tasks
  <2>1. n \notin DOMAIN q
    BY <1>5
  <2>2. QED
    BY <2>1, <1>4, <1>5
<1> HIDE DEF n
<1>7. \A i \in DOMAIN tasks' \ DOMAIN tasks : i # n => tasks'[i].ev.exec = NoExec
  BY <1>4, <1>5
<1>8. \A i \in DOMAIN tasks : tasks'[i] = tasks[i]
  BY <1>4, <1>5
<1>9. QED
  BY <1>2, <1>3, <1>4, <1>5, <1>6, <1>7, <1>8

(* Handlers: the records and the queue change together.                    *)
LEMMA ToldQuiet ==
  ASSUME TypeOK, ToldInv, UNCHANGED emitted,
         DOMAIN tasks \subseteq DOMAIN tasks',
         \A i \in DOMAIN tasks : tasks'[i] = tasks[i],
         \A i \in DOMAIN tasks' \ DOMAIN tasks : tasks'[i].ev.exec = NoExec,
         \A o \in Orders : track'[o].seen = track[o].seen
  PROVE  ToldInv'
<1>1. \A o \in Orders, e \in Execs : Waiting(o, e)' <=> Waiting(o, e)
  BY NoneAssumption DEF Waiting
<1>2. \A o \in Orders, e \in Execs : Streamed(o, e)' <=> Streamed(o, e)
  BY DEF Streamed
<1>3. \A i, j \in DOMAIN tasks' :
        tasks'[i].ev.exec = tasks'[j].ev.exec => tasks'[i].ev.exec = NoExec \/ i = j
  BY DEF ToldInv
<1>4. ASSUME NEW i \in DOMAIN tasks', NEW o \in Orders, tasks'[i].ev.exec # NoExec,
             NEW j \in DOMAIN emitted[o], emitted[o][j].exec = tasks'[i].ev.exec
      PROVE  FALSE
  BY <1>4 DEF ToldInv, Streamed
<1>5. QED
  BY <1>1, <1>2, <1>3, <1>4 DEF ToldInv, Streamed

LEMMA ToldFill ==
  ASSUME TypeOK, VenueInv, SeenInv, ToldInv, UNCHANGED emitted,
         NEW w \in PlacedWires, NEW e \in executed[w], e \in Execs, Fills(w, e)
  PROVE  ToldInv'
<1> DEFINE o == placed[w]
<1>1. PICK n \in DOMAIN tasks' \ DOMAIN tasks :
        /\ tasks'[n].order = o /\ tasks'[n].ev.exec = e
        /\ \A i \in DOMAIN tasks' \ DOMAIN tasks : i # n => tasks'[i].ev.exec = NoExec
  BY FillHandler
<1>2. /\ e \notin track[o].seen /\ track'[o].seen = track[o].seen \cup {e}
      /\ \A p \in Orders : p # o => track'[p] = track[p]
      /\ DOMAIN tasks \subseteq DOMAIN tasks'
      /\ \A i \in DOMAIN tasks : tasks'[i] = tasks[i]
      /\ o \in Orders
  BY FillHandler, PlacedOrder
<1>3. ASSUME NEW p \in Orders PROVE ~Streamed(p, e) /\ ~Waiting(p, e)
  <2>1. e \notin track[p].seen
    BY <1>2, SeenApart
  <2>2. QED
    BY <2>1 DEF ToldInv
<1> HIDE DEF o
<1>4. ASSUME NEW p \in Orders, NEW x \in Execs
      PROVE  /\ Streamed(p, x)' <=> Streamed(p, x)
             /\ Waiting(p, x)' <=> Waiting(p, x) \/ (p = o /\ x = e)
  BY <1>1, <1>2, NoneAssumption DEF Streamed, Waiting
<1>5. ASSUME NEW p \in Orders, NEW x \in Execs
      PROVE  x \in track'[p].seen <=> Streamed(p, x)' \/ Waiting(p, x)'
  <2>1. x \in track[p].seen <=> Streamed(p, x) \/ Waiting(p, x)
    BY DEF ToldInv
  <2>2. x \in track'[p].seen <=> x \in track[p].seen \/ (p = o /\ x = e)
    BY <1>2
  <2>3. QED
    BY <1>4, <2>1, <2>2
<1>6. \A i \in DOMAIN tasks : tasks[i].ev.exec # e
  BY <1>3, ExecTypes DEF Waiting
<1>7. \A i, j \in DOMAIN tasks' :
        tasks'[i].ev.exec = tasks'[j].ev.exec => tasks'[i].ev.exec = NoExec \/ i = j
  BY <1>1, <1>2, <1>6 DEF ToldInv
<1>8. ASSUME NEW i \in DOMAIN tasks', NEW p \in Orders, tasks'[i].ev.exec # NoExec,
             NEW j \in DOMAIN emitted[p], emitted[p][j].exec = tasks'[i].ev.exec
      PROVE  FALSE
  <2>1. CASE i = n
    BY <1>1, <1>3, <1>8, <2>1 DEF Streamed
  <2>2. CASE i \in DOMAIN tasks
    BY <1>2, <1>8, <2>2 DEF ToldInv, Streamed
  <2>3. QED
    BY <1>1, <1>8, <2>1, <2>2
<1>9. QED
  BY <1>5, <1>7, <1>8 DEF ToldInv, Streamed

(* YieldTask carries the oldest task round the queue.                      *)
LEMMA ToldYield ==
  ASSUME TypeOK, ToldInv, YieldTask
  PROVE  ToldInv'
<1> DEFINE t == [Head(tasks) EXCEPT !.left = @ - 1]
           n == Len(tasks)
           from(i) == IF i = n THEN 1 ELSE i + 1
<1>1. /\ tasks # <<>> /\ tasks' = Append(Tail(tasks), t)
      /\ UNCHANGED <<track, emitted>>
  BY DEF YieldTask, Yielding
<1>2. /\ 1 \in DOMAIN tasks /\ t.ev = tasks[1].ev /\ t.order = tasks[1].order
      /\ Tail(tasks) \in Seq(Tasks) /\ n \in Nat \ {0} /\ Len(Tail(tasks)) = n - 1
      /\ \A i \in DOMAIN Tail(tasks) : i + 1 \in DOMAIN tasks /\ Tail(tasks)[i] = tasks[i + 1]
  BY <1>1, HeadFacts DEF Tasks
<1>3. /\ DOMAIN tasks = 1..n /\ DOMAIN Tail(tasks) = 1..(n - 1)
  BY <1>1, <1>2 DEF TypeOK
<1> HIDE DEF t, n
<1>4. /\ DOMAIN tasks' = 1..n
      /\ \A i \in 1..n : /\ from(i) \in 1..n
                         /\ tasks'[i].ev = tasks[from(i)].ev
                         /\ tasks'[i].order = tasks[from(i)].order
  <2>1. DOMAIN tasks' = 1..n /\ tasks'[n] = t
        /\ \A i \in 1..(n - 1) : tasks'[i] = Tail(tasks)[i]
    BY <1>1, <1>2, <1>3
  <2>2. QED
    BY <1>2, <1>3, <2>1
<1>5. \A i, j \in 1..n : from(i) = from(j) => i = j
  BY <1>2
<1>6. ASSUME NEW i \in 1..n PROVE \E k \in 1..n : from(k) = i
  <2>1. CASE i = 1
    BY <1>2, <2>1
  <2>2. CASE i # 1
    <3>1. i - 1 \in 1..n /\ i - 1 # n /\ (i - 1) + 1 = i
      BY <1>2, <2>2
    <3>2. QED
      BY <3>1
  <2>3. QED
    BY <2>1, <2>2
<1> HIDE DEF from
<1>7. \A o \in Orders, e \in Execs : Waiting(o, e)' <=> Waiting(o, e)
  <2> SUFFICES ASSUME NEW o \in Orders, NEW e \in Execs
               PROVE  Waiting(o, e)' <=> Waiting(o, e)
    OBVIOUS
  <2>1. ASSUME NEW i \in 1..n, tasks'[i].order = o, tasks'[i].ev.exec = e
        PROVE  from(i) \in 1..n /\ tasks[from(i)].order = o /\ tasks[from(i)].ev.exec = e
    BY <1>4, <2>1
  <2>2. ASSUME NEW i \in 1..n, tasks[i].order = o, tasks[i].ev.exec = e
        PROVE  \E k \in 1..n : tasks'[k].order = o /\ tasks'[k].ev.exec = e
    BY <1>4, <1>6, <2>2
  <2>3. QED
    BY <1>3, <1>4, <2>1, <2>2 DEF Waiting
<1>8. \A i, j \in DOMAIN tasks' :
        tasks'[i].ev.exec = tasks'[j].ev.exec => tasks'[i].ev.exec = NoExec \/ i = j
  BY <1>3, <1>4, <1>5 DEF ToldInv
<1>9. \A i \in DOMAIN tasks' : \A o \in Orders :
        tasks'[i].ev.exec # NoExec => ~Streamed(o, tasks'[i].ev.exec)
  BY <1>3, <1>4 DEF ToldInv
<1>10. QED
  BY <1>1, <1>7, <1>8, <1>9 DEF ToldInv, Streamed

(* One put: the event of an order is the next of its stream.               *)
LEMMA PutTells ==
  ASSUME TypeOK, NEW o \in Orders, NEW ev, Emit(o, ev)
  PROVE  \A p \in Orders : \A e :
           Streamed(p, e)' <=> Streamed(p, e) \/ (p = o /\ e = ev.exec)
BY EmitFacts DEF Streamed

(* The put of an execution nobody has told keeps NoExecTwice.              *)
LEMMA PutOnce ==
  ASSUME TypeOK, NoExecTwice, NEW o \in Orders, NEW ev, Emit(o, ev),
         ev.exec # NoExec => \A p \in Orders : ~Streamed(p, ev.exec)
  PROVE  NoExecTwice'
<1> DEFINE n == Len(emitted[o]) + 1
<1>1. ASSUME NEW p \in Orders, NEW i \in DOMAIN emitted'[p]
      PROVE  \/ i \in DOMAIN emitted[p] /\ emitted'[p][i] = emitted[p][i]
             \/ p = o /\ i = n /\ emitted'[p][i] = ev
  BY EmitFacts
<1> HIDE DEF n
<1>2. ASSUME NEW p \in Orders, NEW q \in Orders,
             NEW i \in DOMAIN emitted'[p], NEW j \in DOMAIN emitted'[q],
             emitted'[p][i].exec = emitted'[q][j].exec, emitted'[p][i].exec # NoExec
      PROVE  p = q /\ i = j
  BY <1>1, <1>2 DEF NoExecTwice, Streamed
<1>3. QED
  BY <1>2 DEF NoExecTwice

LEMMA ToldPut ==
  ASSUME TypeOK, ToldInv, NoExecTwice, PutTask
  PROVE  ToldInv' /\ NoExecTwice'
<1> DEFINE t == Head(tasks)
<1>1. /\ tasks # <<>> /\ tasks' = Tail(tasks) /\ UNCHANGED track
      /\ Emit(t.order, PutEvent(t))
  BY DEF PutTask
<1>2. /\ t = tasks[1] /\ 1 \in DOMAIN tasks /\ t \in Tasks
      /\ \A i \in DOMAIN tasks' : i + 1 \in DOMAIN tasks /\ tasks'[i] = tasks[i + 1]
  BY <1>1, HeadFacts
<1>3. /\ t.order \in Orders /\ PutEvent(t).exec = t.ev.exec
      /\ DOMAIN tasks = 1..Len(tasks) /\ DOMAIN tasks' = 1..(Len(tasks) - 1)
      /\ Len(tasks) \in Nat \ {0}
  <2>1. t.order \in Orders /\ PutEvent(t).exec = t.ev.exec
    BY <1>2 DEF PutEvent, Tasks, EventsFor
  <2>2. QED
    BY <2>1, <1>1, HeadFacts DEF TypeOK
<1> HIDE DEF t
<1>4. \A p \in Orders : \A e : Streamed(p, e)' <=> Streamed(p, e) \/ (p = t.order /\ e = t.ev.exec)
  BY <1>1, <1>3, PutTells
<1>5. NoExecTwice'
  <2>1. t.ev.exec # NoExec => \A p \in Orders : ~Streamed(p, t.ev.exec)
    BY <1>2 DEF ToldInv
  <2>2. QED
    BY <1>1, <1>3, <2>1, PutOnce
<1>6. ASSUME NEW p \in Orders, NEW e \in Execs
      PROVE  e \in track'[p].seen <=> Streamed(p, e)' \/ Waiting(p, e)'
  <2>1. Waiting(p, e) <=> Waiting(p, e)' \/ (p = t.order /\ e = t.ev.exec)
    <3>1. \A i \in DOMAIN tasks : i = 1 \/ (i - 1 \in DOMAIN tasks' /\ tasks'[i - 1] = tasks[i])
      <4>1. ASSUME NEW i \in DOMAIN tasks, i # 1
            PROVE  i - 1 \in DOMAIN tasks' /\ (i - 1) + 1 = i
        BY <1>3, <4>1
      <4>2. QED
        BY <1>2, <4>1
    <3>2. QED
      BY <1>2, <3>1 DEF Waiting
  <2>2. e \in track[p].seen <=> Streamed(p, e) \/ Waiting(p, e)
    BY DEF ToldInv
  <2>3. QED
    BY <1>1, <1>4, <2>1, <2>2
<1>7. \A i, j \in DOMAIN tasks' :
        tasks'[i].ev.exec = tasks'[j].ev.exec => tasks'[i].ev.exec = NoExec \/ i = j
  BY <1>2, <1>3 DEF ToldInv
<1>8. ASSUME NEW i \in DOMAIN tasks', NEW p \in Orders, tasks'[i].ev.exec # NoExec
      PROVE  \A j \in DOMAIN emitted'[p] : emitted'[p][j].exec # tasks'[i].ev.exec
  <2>1. tasks'[i].ev.exec # t.ev.exec
    <3>1. i + 1 \in DOMAIN tasks /\ tasks'[i] = tasks[i + 1] /\ i + 1 # 1
      BY <1>2, <1>3
    <3>2. QED
      BY <1>2, <1>8, <3>1 DEF ToldInv
  <2>2. ~Streamed(p, tasks'[i].ev.exec)
    BY <1>2, <1>8 DEF ToldInv
  <2>3. PICK e : e = tasks'[i].ev.exec
    OBVIOUS
  <2>4. ~Streamed(p, e)'
    BY <1>4, <2>1, <2>2, <2>3
  <2>5. QED
    BY <2>3, <2>4 DEF Streamed
<1>9. QED
  BY <1>5, <1>6, <1>7, <1>8 DEF ToldInv, Streamed

(* A put that reports no execution.                                        *)
LEMMA ToldEmpty ==
  ASSUME TypeOK, ToldInv, NoExecTwice, NEW o \in Orders, NEW ev, Emit(o, ev),
         ev.exec = NoExec, UNCHANGED tasks,
         \A p \in Orders : track'[p].seen = track[p].seen
  PROVE  ToldInv' /\ NoExecTwice'
<1>1. NoExecTwice'
  BY PutOnce
<1>2. \A p \in Orders : \A e : e # NoExec => (Streamed(p, e)' <=> Streamed(p, e))
  BY PutTells
<1>3. ASSUME NEW p \in Orders, NEW e \in Execs
      PROVE  e \in track'[p].seen <=> Streamed(p, e)' \/ Waiting(p, e)'
  <2>1. (Streamed(p, e)' <=> Streamed(p, e)) /\ (Waiting(p, e)' <=> Waiting(p, e))
    BY <1>2, NoneAssumption DEF Waiting
  <2>2. QED
    BY <2>1 DEF ToldInv
<1>4. ASSUME NEW i \in DOMAIN tasks, NEW p \in Orders, tasks[i].ev.exec # NoExec
      PROVE  \A j \in DOMAIN emitted'[p] : emitted'[p][j].exec # tasks[i].ev.exec
  <2>1. PICK e : e = tasks[i].ev.exec
    OBVIOUS
  <2>2. ~Streamed(p, e) /\ e # NoExec
    BY <1>4, <2>1 DEF ToldInv
  <2>3. ~Streamed(p, e)'
    BY <1>2, <2>2
  <2>4. QED
    BY <2>1, <2>3 DEF Streamed
<1>5. QED
  BY <1>1, <1>3, <1>4 DEF ToldInv, Streamed

(* The venue's own accounts, step by step.                                 *)
LEMMA VenueInvStep ==
  ASSUME TypeOK, CallInv, WireInv, VenueInv, [Next]_vars
  PROVE  VenueInv'
<1>1. CASE UNCHANGED <<placed, executed, delivered>>
  BY <1>1 DEF VenueInv, PlacedWires
<1>2. CASE Connect \/ Disconnect \/ YieldTask \/ PutTask \/ UNCHANGED vars
  BY <1>1, <1>2 DEF Connect, Disconnect, YieldTask, PutTask, vars, venue
<1>3. ASSUME NEW c \in Callers,
             \/ SnapDone(c) \/ SnapUnavailable(c) \/ CallRaises(c) \/ CancelSend(c)
             \/ \E o \in Orders : SubmitCall(c, o) \/ CancelCall(c, o)
      PROVE  VenueInv'
  BY <1>1, <1>3
     DEF SnapDone, SnapUnavailable, CallRaises, CancelSend, SubmitCall, CancelCall, venue
<1>4. ASSUME NEW c \in Callers, Place(c)
      PROVE  VenueInv'
  <2>1. PlacedWires \subseteq PlacedWires' /\ UNCHANGED <<executed, delivered>>
    BY <1>4, PlaceFacts DEF Place
  <2>2. QED
    BY <2>1 DEF VenueInv
<1>5. ASSUME NEW w \in Wires,
             \/ VenueAccept(w) \/ VenueCancel(w)
             \/ \E b \in BOOLEAN : VenueInactive(w, b) \/ VenueError(w, b)
      PROVE  VenueInv'
  BY <1>1, <1>5 DEF VenueAccept, VenueCancel, VenueInactive, VenueError
<1>6. ASSUME NEW w \in Wires, NEW e \in Execs, VenueExecute(w, e)
      PROVE  VenueInv'
  <2>1. /\ w \in PlacedWires /\ \A v \in Wires : e \notin executed[v]
        /\ executed' = [executed EXCEPT ![w] = @ \cup {e}]
        /\ UNCHANGED <<placed, delivered>>
    BY <1>6 DEF VenueExecute, Live
  <2>2. executed \in [Wires -> SUBSET Execs]
    BY DEF TypeOK
  <2>3. \A v \in Wires : executed'[v] = IF v = w THEN executed[v] \cup {e} ELSE executed[v]
    BY <2>1, <2>2
  <2>4. QED
    BY <2>1, <2>3 DEF VenueInv, PlacedWires
<1>7. ASSUME NEW w \in Wires, NEW e \in Execs, DeliverFill(w, e)
      PROVE  VenueInv'
  BY <1>7 DEF DeliverFill, VenueInv, PlacedWires
<1>8. QED
  BY <1>2, <1>3, <1>4, <1>5, <1>6, <1>7 DEF Next

(* The map names a placed order of its id or nothing.                      *)
LEMMA TradeInvStep ==
  ASSUME TypeOK, CallInv, WireInv, TradeInv, [Next]_vars
  PROVE  TradeInv'
<1>1. CASE UNCHANGED <<placed, trade>>
  BY <1>1 DEF TradeInv, PlacedWires
<1>2. ASSUME NEW c \in Callers, Place(c)
      PROVE  TradeInv'
  <2>1. trade' = [trade EXCEPT ![call[c].order] = Len(placed) + 1]
    BY <1>2 DEF Place
  <2>2. trade \in [Orders -> Wires \cup {NoWire}]
    BY DEF TypeOK
  <2>3. \A o \in Orders : o # call[c].order => trade'[o] = trade[o]
    BY <2>1, <2>2
  <2>4. QED
    BY <1>2, <2>3, PlaceFacts DEF TradeInv
<1>3. QED
  BY <1>1, <1>2, OnlyPlace

(* Steps that touch neither the records nor what they are about.           *)
LEMMA SeenUnchanged ==
  ASSUME SeenInv, UNCHANGED <<track, placed, executed, delivered>>
  PROVE  SeenInv'
BY DEF SeenInv, PlacedWires

LEMMA SeenHandler ==
  ASSUME TypeOK, SeenInv, NEW w \in PlacedWires,
         OnAccepted(w) \/ OnCancelled(w) \/ OnInactive(w),
         UNCHANGED <<placed, executed, delivered>>
  PROVE  SeenInv'
<1>1. CASE UNCHANGED <<track, tasks, stash>>
  BY <1>1, SeenUnchanged
<1>2. CASE ~UNCHANGED <<track, tasks, stash>>
  <2>1. \A o \in Orders : /\ track'[o].seen = track[o].seen
                          /\ track[o].terminal => track'[o].terminal
    BY <1>2, QuietHandler
  <2>2. QED
    BY <2>1, PlacedOrder DEF SeenInv, PlacedWires
<1>3. QED
  BY <1>1, <1>2

LEMMA SeenFill ==
  ASSUME TypeOK, WireInv, VenueInv, SeenInv, NEW w \in PlacedWires, NEW e \in Execs,
         e \in executed[w], OnFill(w, e), delivered' = delivered \cup {e},
         UNCHANGED <<placed, executed>>
  PROVE  SeenInv'
<1>1. \A v \in PlacedWires : /\ v \in Wires /\ placed[v] \in Orders
                             /\ placed[v] = placed[w] => v = w
  BY PlacedOrder DEF WireInv
<1>2. \A v \in PlacedWires : e \in executed[v] => v = w
  BY <1>1 DEF VenueInv
<1>3. CASE UNCHANGED track /\ (track[placed[w]].terminal \/ e \in track[placed[w]].seen)
  BY <1>1, <1>2, <1>3 DEF SeenInv, PlacedWires
<1>4. CASE Fills(w, e) /\ ~track[placed[w]].terminal
  <2>1. /\ track'[placed[w]].seen = track[placed[w]].seen \cup {e}
        /\ \A p \in Orders : p # placed[w] => track'[p] = track[p]
    BY <1>4, FillHandler
  <2>2. ASSUME NEW o \in Orders, NEW x \in track'[o].seen
        PROVE  \E v \in PlacedWires : placed[v] = o /\ x \in executed[v]
    BY <2>1, <2>2 DEF SeenInv
  <2>3. ASSUME NEW v \in PlacedWires, NEW x \in executed[v] \cap delivered'
        PROVE  x \in track'[placed[v]].seen \/ track'[placed[v]].terminal
    <3>1. CASE v = w
      <4>1. x \in track'[placed[w]].seen \/ (x \in delivered /\ x # e)
        BY <2>1
      <4>2. QED
        BY <1>4, <2>1, <3>1, <4>1 DEF SeenInv
    <3>2. CASE v # w
      BY <1>1, <1>2, <2>1, <3>2 DEF SeenInv
    <3>3. QED
      BY <3>1, <3>2
  <2>4. QED
    BY <2>2, <2>3 DEF SeenInv, PlacedWires
<1>5. QED
  BY <1>3, <1>4, FillCases

(* Place forgets a record only of an id without executions.                *)
LEMMA PlaceLedger ==
  ASSUME TypeOK, CallInv, WireInv, VenueInv, SeenInv, ToldInv, NoExecTwice,
         NEW c \in Callers, Place(c)
  PROVE  SeenInv' /\ ToldInv' /\ NoExecTwice'
<1> DEFINE o == call[c].order
           w == Len(placed) + 1
           ev == Event("SUBMITTED", w, NoExec, "none")
<1>1. /\ track' = [track EXCEPT ![o] = FreshTracking] /\ Emit(o, ev)
      /\ UNCHANGED <<tasks, executed, delivered>> /\ track \in [Orders -> Tracking]
  BY DEF Place, TypeOK
<1>2. /\ o \in Orders /\ w \in Wires /\ w \notin PlacedWires
      /\ PlacedWires' = PlacedWires \cup {w} /\ placed'[w] = o
      /\ \A v \in PlacedWires : placed'[v] = placed[v] /\ placed[v] # o /\ placed[v] \in Orders
  BY PlaceFacts, PlacedOrder
<1>3. ev.exec = NoExec
  BY DEF Event
<1> HIDE DEF o, w, ev
<1>4. track[o].seen = {} /\ executed[w] = {}
  BY <1>2 DEF SeenInv, VenueInv
<1>5. \A p \in Orders : track'[p].seen = track[p].seen /\ (p # o => track'[p] = track[p])
  BY <1>1, <1>2, <1>4 DEF FreshTracking
<1>6. SeenInv'
  BY <1>1, <1>2, <1>4, <1>5 DEF SeenInv
<1>7. ToldInv' /\ NoExecTwice'
  BY <1>1, <1>2, <1>3, <1>5, ToldEmpty
<1>8. QED
  BY <1>6, <1>7

LEMMA LedgerStep ==
  ASSUME IInv, LedgerInv, [Next]_vars
  PROVE  SeenInv' /\ ToldInv' /\ NoExecTwice'
<1> USE DEF IInv, LedgerInv
<1>1. ASSUME UNCHANGED <<track, tasks, emitted>> PROVE ToldInv' /\ NoExecTwice'
  BY <1>1 DEF ToldInv, NoExecTwice, Streamed, Waiting
<1>2. CASE UNCHANGED <<track, tasks, emitted, placed, executed, delivered>>
  BY <1>1, <1>2, SeenUnchanged
<1>3. CASE Connect \/ Disconnect \/ UNCHANGED vars
  BY <1>2, <1>3 DEF Connect, Disconnect, vars, broker, venue
<1>4. CASE YieldTask
  BY <1>4, SeenUnchanged, ToldYield DEF YieldTask, venue, NoExecTwice
<1>5. CASE PutTask
  BY <1>5, SeenUnchanged, ToldPut DEF PutTask, venue
<1>6. ASSUME NEW c \in Callers,
             \/ SnapDone(c) \/ CallRaises(c) \/ CancelSend(c)
             \/ \E o \in Orders : SubmitCall(c, o) \/ CancelCall(c, o)
      PROVE  SeenInv' /\ ToldInv' /\ NoExecTwice'
  BY <1>2, <1>6 DEF SnapDone, CallRaises, CancelSend, SubmitCall, CancelCall, venue
<1>7. ASSUME NEW c \in Callers, SnapUnavailable(c)
      PROVE  SeenInv' /\ ToldInv' /\ NoExecTwice'
  <2> DEFINE ev == Event("REJECTED", NoWire, NoExec, "price_rule")
  <2>1. call[c].order \in Orders /\ Emit(call[c].order, ev) /\ ev.exec = NoExec
    BY <1>7, NoneAssumption DEF TypeOK, SnapUnavailable, Calls, Idle, Event
  <2> HIDE DEF ev
  <2>2. QED
    BY <1>7, <2>1, SeenUnchanged, ToldEmpty DEF SnapUnavailable, venue
<1>8. ASSUME NEW c \in Callers, Place(c)
      PROVE  SeenInv' /\ ToldInv' /\ NoExecTwice'
  BY <1>8, PlaceLedger
<1>9. ASSUME NEW w \in PlacedWires, OnAccepted(w) \/ OnCancelled(w) \/ OnInactive(w),
             UNCHANGED <<emitted, placed, executed, delivered>>
      PROVE  SeenInv' /\ ToldInv' /\ NoExecTwice'
  <2>1. SeenInv'
    BY <1>9, SeenHandler
  <2>2. CASE UNCHANGED <<track, tasks, stash>>
    BY <1>1, <1>9, <2>1, <2>2
  <2>3. CASE ~UNCHANGED <<track, tasks, stash>>
    <3>1. ToldInv'
      BY <1>9, <2>3, HandlerQueue, QuietHandler, ToldQuiet
    <3>2. QED
      BY <1>9, <2>1, <3>1 DEF NoExecTwice
  <2>4. QED
    BY <2>2, <2>3
<1>10. ASSUME NEW w \in Wires,
              \/ VenueAccept(w) \/ VenueCancel(w)
              \/ \E b \in BOOLEAN : VenueInactive(w, b) \/ VenueError(w, b)
       PROVE  SeenInv' /\ ToldInv' /\ NoExecTwice'
  <2>1. UNCHANGED <<emitted, placed, executed, delivered>>
    BY <1>10 DEF VenueAccept, VenueCancel, VenueInactive, VenueError, AtVenue
  <2>2. CASE UNCHANGED <<track, tasks>>
    BY <1>2, <2>1, <2>2
  <2>3. CASE ~UNCHANGED <<track, tasks>>
    <3>1. w \in PlacedWires /\ (OnAccepted(w) \/ OnCancelled(w) \/ OnInactive(w))
      BY <1>10, <2>3 DEF VenueAccept, VenueCancel, VenueInactive, VenueError, Live
    <3>2. QED
      BY <1>9, <2>1, <3>1
  <2>4. QED
    BY <2>2, <2>3
<1>11. ASSUME NEW w \in Wires, NEW e \in Execs, VenueExecute(w, e)
       PROVE  SeenInv' /\ ToldInv' /\ NoExecTwice'
  <2>1. /\ \A v \in Wires : e \notin executed[v]
        /\ executed' = [executed EXCEPT ![w] = @ \cup {e}]
        /\ UNCHANGED <<track, tasks, emitted, placed, delivered>>
    BY <1>11 DEF VenueExecute, broker
  <2>2. executed \in [Wires -> SUBSET Execs] /\ \A v \in PlacedWires : v \in Wires
    BY PlacedOrder DEF TypeOK
  <2>3. \A v \in Wires : executed'[v] = IF v = w THEN executed[v] \cup {e} ELSE executed[v]
    BY <2>1, <2>2
  <2>4. e \notin delivered
    BY <2>1 DEF VenueInv
  <2>5. SeenInv'
    BY <2>1, <2>2, <2>3, <2>4 DEF SeenInv, PlacedWires
  <2>6. QED
    BY <1>1, <2>1, <2>5
<1>12. ASSUME NEW w \in Wires, NEW e \in Execs, DeliverFill(w, e)
       PROVE  SeenInv' /\ ToldInv' /\ NoExecTwice'
  <2>1. /\ w \in PlacedWires /\ e \in executed[w] /\ OnFill(w, e)
        /\ delivered' = delivered \cup {e} /\ UNCHANGED <<emitted, placed, executed>>
    BY <1>12 DEF DeliverFill, AtVenue
  <2>2. SeenInv'
    BY <2>1, SeenFill
  <2>3. NoExecTwice'
    BY <2>1 DEF NoExecTwice
  <2>4. ToldInv'
    <3>1. CASE UNCHANGED <<track, tasks, stash>>
      BY <1>1, <2>1, <3>1
    <3>2. CASE Fills(w, e)
      BY <2>1, <3>2, ToldFill
    <3>3. QED
      BY <2>1, <3>1, <3>2, FillCases
  <2>5. QED
    BY <2>2, <2>3, <2>4
<1>13. QED
  BY <1>3, <1>4, <1>5, <1>6, <1>7, <1>8, <1>10, <1>11, <1>12 DEF Next

(* The invariant in the terms of the model's ledger.                       *)
LEMMA LedgerTells ==
  ASSUME IInv, LedgerInv
  PROVE  SeenLedger
<1> USE DEF IInv, LedgerInv
<1>1. SUFFICES ASSUME NEW o \in Orders
      PROVE  LET known == Reported(o, Len(emitted[o])) \cup Queued(o) IN
             /\ track[o].seen = known
             /\ trade[o] # NoWire =>
                  /\ known \subseteq executed[trade[o]]
                  /\ executed[trade[o]] \cap delivered \subseteq known \/ track[o].terminal
  BY DEF SeenLedger
<1> DEFINE known == Reported(o, Len(emitted[o])) \cup Queued(o)
<1>2. ASSUME NEW e \in Execs
      PROVE  e \in known <=> Streamed(o, e) \/ Waiting(o, e)
  <2>1. emitted[o] \in Seq(Events)
    BY DEF TypeOK
  <2>2. DOMAIN emitted[o] = 1..Len(emitted[o])
    BY <2>1
  <2>3. e \in Reported(o, Len(emitted[o])) <=> Streamed(o, e)
    BY <2>2, NoneAssumption DEF Reported, Streamed
  <2>4. e \in Queued(o) <=> Waiting(o, e)
    BY NoneAssumption DEF Queued, Waiting
  <2>5. QED
    BY <2>3, <2>4
<1>3. known \subseteq Execs
  <2>1. emitted[o] \in Seq(Events)
    BY DEF TypeOK
  <2>2. DOMAIN emitted[o] = 1..Len(emitted[o])
    BY <2>1
  <2>3. QED
    BY <2>2, ExecTypes DEF Reported, Queued
<1>4. track[o].seen \subseteq Execs
  <2>1. track[o] \in Tracking
    BY DEF TypeOK
  <2>2. QED
    BY <2>1 DEF Tracking
<1> HIDE DEF known
<1>5. track[o].seen = known
  <2>1. \A e \in Execs : e \in track[o].seen <=> e \in known
    BY <1>2 DEF ToldInv
  <2>2. QED
    BY <1>3, <1>4, <2>1
<1>6. ASSUME trade[o] # NoWire
      PROVE  /\ known \subseteq executed[trade[o]]
             /\ executed[trade[o]] \cap delivered \subseteq known \/ track[o].terminal
  <2>1. trade[o] \in PlacedWires /\ placed[trade[o]] = o
    BY <1>6 DEF TradeInv
  <2>2. \A w \in PlacedWires : placed[w] = o => w = trade[o]
    BY DEF WireInv
  <2>3. known \subseteq executed[trade[o]]
    BY <1>5, <2>2 DEF SeenInv
  <2>4. \A e \in executed[trade[o]] \cap delivered : e \in known \/ track[o].terminal
    BY <1>5, <2>1 DEF SeenInv
  <2>5. QED
    BY <2>3, <2>4
<1>7. QED
  BY <1>5, <1>6 DEF known
-----------------------------------------------------------------------------
(* Whole orders.  A record counts what it has seen, never more than the    *)
(* quantity; it is complete exactly when a FILLED is in its stream or on   *)
(* its way there, and closed no later.                                     *)
CumInv ==
  /\ \A o \in Orders : IsFiniteSet(track[o].seen) /\ track[o].cum = Sum(track[o].seen)
  /\ \A w \in Wires : IsFiniteSet(executed[w]) /\ Sum(executed[w]) <= Qty

FillWaits(o) == \E i \in DOMAIN tasks : tasks[i].order = o /\ tasks[i].ev.kind = "FILLED"
FillPut(o) ==
  \E i \in DOMAIN emitted[o] : emitted[o][i].kind = "FILLED" /\ emitted[o][i].wire # NoWire

CompleteInv ==
  /\ \A o \in Orders : ~track[o].terminal => track[o].cum < Qty
  /\ \A o \in Orders : track[o].cum >= Qty => FillWaits(o) \/ FillPut(o)
  /\ \A i \in DOMAIN tasks :
       /\ tasks[i].ev.kind = "FILLED" =>
            tasks[i].ev.exec # NoExec /\ track[tasks[i].order].cum = Qty
       /\ tasks[i].ev.kind = "CANCELED" => track[tasks[i].order].cum < Qty

WholeInv == CumInv /\ CompleteInv /\ FilledMeansWhole

(* Quantities of executions add up.                                        *)
LEMMA SumQty ==
  ASSUME NEW S \in SUBSET Execs, IsFiniteSet(S)
  PROVE  /\ Sum(S) \in Nat
         /\ \A e \in Execs \ S : IsFiniteSet(S \cup {e}) /\ Sum(S \cup {e}) = Sum(S) + ExecQty[e]
         /\ \A P \in SUBSET S : /\ IsFiniteSet(P) /\ Sum(P) \in Nat /\ Sum(P) <= Sum(S)
                                /\ P # S => Sum(P) < Sum(S)
<1>1. \A e \in Execs : ExecQty[e] \in Nat /\ ExecQty[e] \in Int /\ ExecQty[e] > 0
  BY QtyAssumption
<1>2. \A P \in SUBSET S : IsFiniteSet(P) /\ P \in SUBSET Execs
  BY FS_Subset
<1>3. \A P \in SUBSET S : SumFunctionOnSet(ExecQty, P) \in Nat
  <2> TAKE P \in SUBSET S
  <2>1. IsFiniteSet(P) /\ \A e \in P : ExecQty[e] \in Int /\ ExecQty[e] \in Nat
    BY <1>1, <1>2
  <2> QED BY <2>1, SumType
<1>4. ASSUME NEW e \in Execs \ S
      PROVE  IsFiniteSet(S \cup {e}) /\ Sum(S \cup {e}) = Sum(S) + ExecQty[e]
  <2>1. IsFiniteSet(S \cup {e}) BY FS_AddElement
  <2>2. \A x \in S : ExecQty[x] \in Int BY <1>1
  <2>3. ExecQty[e] \in Int BY <1>1
  <2>4. SumFunctionOnSet(ExecQty, S \cup {e}) = SumFunctionOnSet(ExecQty, S) + ExecQty[e]
    BY <2>2, <2>3, SumAdd
  <2> QED BY <2>1, <2>4 DEF Sum
<1>5. ASSUME NEW P \in SUBSET S PROVE SumFunctionOnSet(ExecQty, P) <= SumFunctionOnSet(ExecQty, S)
  <2>1. \A x \in S : ExecQty[x] \in Nat BY <1>1
  <2> QED BY <2>1, SumPart
<1>6. ASSUME NEW P \in SUBSET S, P # S
      PROVE  SumFunctionOnSet(ExecQty, P) < SumFunctionOnSet(ExecQty, S)
  <2>1. PICK e \in S : e \notin P BY <1>6
  <2>2. S \ {e} \in SUBSET S /\ P \in SUBSET (S \ {e}) /\ IsFiniteSet(S \ {e}) BY <1>2, <2>1
  <2>3. \A x \in S : ExecQty[x] \in Int BY <1>1
  <2>4. SumFunctionOnSet(ExecQty, S) = ExecQty[e] + SumFunctionOnSet(ExecQty, S \ {e})
    BY <2>3, SumRemove
  <2>5. \A x \in S \ {e} : ExecQty[x] \in Nat BY <1>1
  <2>6. SumFunctionOnSet(ExecQty, P) <= SumFunctionOnSet(ExecQty, S \ {e})
    BY <2>2, <2>5, SumPart
  <2>7. /\ SumFunctionOnSet(ExecQty, P) \in Nat /\ SumFunctionOnSet(ExecQty, S \ {e}) \in Nat
        /\ ExecQty[e] \in Nat /\ ExecQty[e] > 0
    BY <1>1, <1>3, <2>2
  <2> QED BY <2>4, <2>6, <2>7
<1> QED BY <1>2, <1>3, <1>4, <1>5, <1>6 DEF Sum

(* What a record has seen the venue executed for its one order.            *)
LEMMA SeenExecuted ==
  ASSUME TypeOK, WireInv, SeenInv, NEW w \in PlacedWires
  PROVE  track[placed[w]].seen \subseteq executed[w]
<1>1. placed[w] \in Orders BY PlacedOrder
<1> SUFFICES ASSUME NEW e \in track[placed[w]].seen PROVE e \in executed[w] OBVIOUS
<1>2. PICK v \in PlacedWires : placed[v] = placed[w] /\ e \in executed[v] BY <1>1 DEF SeenInv
<1>3. v = w BY <1>2 DEF WireInv
<1> QED BY <1>2, <1>3

LEMMA CumFacts ==
  ASSUME TypeOK, WireInv, SeenInv, CumInv, NEW o \in Orders
  PROVE  /\ track[o].seen \in SUBSET Execs /\ track[o].cum \in Nat /\ track[o].cum <= Qty
         /\ IsFiniteSet(track[o].seen) /\ track[o].cum = Sum(track[o].seen)
<1>1. track[o] \in Tracking BY DEF TypeOK
<1>2. track[o].seen \in SUBSET Execs /\ track[o].cum \in Nat BY <1>1 DEF Tracking
<1>3. IsFiniteSet(track[o].seen) /\ track[o].cum = Sum(track[o].seen) BY DEF CumInv
<1>4. CASE track[o].seen = {}
  <2>1. Sum({}) = 0 BY SumEmpty DEF Sum
  <2> QED BY <1>2, <1>3, <1>4, <2>1, QtyAssumption
<1>5. CASE track[o].seen # {}
  <2>1. PICK w \in PlacedWires : placed[w] = o BY <1>5 DEF SeenInv
  <2>2. w \in Wires /\ track[o].seen \in SUBSET executed[w]
    BY <2>1, SeenExecuted, PlacedOrder
  <2>3. executed[w] \in SUBSET Execs /\ IsFiniteSet(executed[w]) /\ Sum(executed[w]) <= Qty
    BY <2>2 DEF TypeOK, CumInv
  <2>4. Sum(track[o].seen) <= Sum(executed[w]) /\ Sum(executed[w]) \in Nat
    BY <2>2, <2>3, SumQty
  <2> QED BY <1>2, <1>3, <2>3, <2>4, QtyAssumption
<1> QED BY <1>2, <1>3, <1>4, <1>5

(* Only one venue order, and so only one wire, belongs to an id.           *)
LEMMA TaskWires ==
  ASSUME TypeOK, WireInv, QueueInv
  PROVE  /\ \A i, j \in DOMAIN tasks : tasks[i].order = tasks[j].order => tasks[i].ev.wire = tasks[j].ev.wire
         /\ \A i \in DOMAIN tasks : tasks[i].ev.wire = trade[tasks[i].order]
         /\ \A i \in DOMAIN tasks : tasks[i].ev.kind \in TerminalKinds =>
              /\ track[tasks[i].order].terminal
              /\ \A j \in DOMAIN tasks : i < j => tasks[j].order # tasks[i].order
<1>1. \A i \in DOMAIN tasks : tasks[i].ev.wire = trade[tasks[i].order] BY DEF QueueInv, WireInv
<1> QED BY <1>1 DEF QueueInv
-----------------------------------------------------------------------------
(* The put of an event, given what the stream has told by then.            *)
LEMMA PutWhole ==
  ASSUME TypeOK, FilledMeansWhole, NEW o \in Orders, NEW ev, Emit(o, ev),
         ev.exec \in Execs \cup {NoExec},
         NEW told, told = {e \in Execs : Streamed(o, e)'},
         ev.kind = "FILLED" => Sum(told) = Qty,
         ev.kind \in {"PARTIAL_FILL", "CANCELED"} => Sum(told) < Qty
  PROVE  FilledMeansWhole'
<1>0. PICK n : n = Len(emitted[o]) + 1 OBVIOUS
<1> SUFFICES ASSUME NEW p \in Orders, NEW i \in DOMAIN emitted'[p]
             PROVE  /\ emitted'[p][i].kind = "FILLED" => Sum(Reported(p, i)') = Qty
                    /\ emitted'[p][i].kind \in {"PARTIAL_FILL", "CANCELED"} =>
                         Sum(Reported(p, i)') < Qty
  BY DEF FilledMeansWhole, Sum
<1>1. emitted[p] \in Seq(Events) BY DEF TypeOK
<1>2. DOMAIN emitted[p] = 1..Len(emitted[p]) BY <1>1
<1>3. CASE i \in DOMAIN emitted[p]
  <2>1. emitted'[p][i] = emitted[p][i] /\ \A j \in 1..i : emitted'[p][j] = emitted[p][j]
    BY <1>2, <1>3, EmitFacts
  <2>2. Reported(p, i)' = Reported(p, i) BY <2>1 DEF Reported
  <2> QED BY <1>3, <2>1, <2>2 DEF FilledMeansWhole
<1>4. CASE i \notin DOMAIN emitted[p]
  <2>1. p = o /\ i = n /\ emitted'[o][n] = ev /\ DOMAIN emitted'[o] = 1..n
    <3>1. p = o BY <1>4, EmitFacts
    <3>2. i = n /\ emitted'[o][n] = ev /\ DOMAIN emitted'[o] = DOMAIN emitted[o] \cup {n}
      BY <1>0, <1>4, <3>1, EmitFacts
    <3>3. Len(emitted[o]) \in Nat BY EmitFacts
    <3>4. 1..n = 1..Len(emitted[o]) \cup {n} BY <1>0, <3>3
    <3> QED BY <1>2, <3>1, <3>2, <3>4
  <2>2. \A j \in 1..n : emitted'[o][j].exec \in Execs \cup {NoExec}
    BY <1>2, <2>1, EmitFacts, ExecTypes
  <2>3. Reported(o, n)' = {emitted'[o][j].exec : j \in 1..n} \ {NoExec} BY DEF Reported
  <2>4. Reported(o, n)' = told BY <2>1, <2>2, <2>3, NoneAssumption DEF Streamed
  <2> QED BY <2>1, <2>4
<1> QED BY <1>3, <1>4
(* PutTask: a terminal event is put when nothing of its order is left in   *)
(* the queue, a partial fill while the completing one still is.            *)
LEMMA WholePut ==
  ASSUME IInv, LedgerInv, LedgerInv', WholeInv, PutTask
  PROVE  CompleteInv' /\ FilledMeansWhole'
<1> USE DEF IInv, LedgerInv, WholeInv
<1> DEFINE t == Head(tasks)
<1>1. /\ tasks # <<>> /\ tasks' = Tail(tasks) /\ UNCHANGED <<track, placed>>
      /\ Emit(t.order, PutEvent(t))
  BY DEF PutTask, venue
<1>2. /\ t = tasks[1] /\ 1 \in DOMAIN tasks /\ t \in Tasks
      /\ \A i \in DOMAIN tasks' : i + 1 \in DOMAIN tasks /\ tasks'[i] = tasks[i + 1] /\ 1 < i + 1
      /\ \A i \in DOMAIN tasks \ {1} : i - 1 \in DOMAIN tasks' /\ tasks'[i - 1] = tasks[i]
  <2>1. /\ DOMAIN tasks = 1..Len(tasks) /\ DOMAIN tasks' = 1..(Len(tasks) - 1)
        /\ Len(tasks) \in Nat \ {0}
    BY <1>1, HeadFacts DEF TypeOK
  <2>2. /\ t = tasks[1] /\ 1 \in DOMAIN tasks /\ t \in Tasks
        /\ \A i \in DOMAIN tasks' : i + 1 \in DOMAIN tasks /\ tasks'[i] = tasks[i + 1] /\ 1 < i + 1
    BY <1>1, HeadFacts
  <2>3. ASSUME NEW i \in DOMAIN tasks \ {1} PROVE i - 1 \in DOMAIN tasks' /\ (i - 1) + 1 = i
    BY <2>1
  <2> QED BY <2>2, <2>3
<1> DEFINE o == t.order
           ev == PutEvent(t)
<1>3. /\ o \in Orders /\ ev.exec = t.ev.exec /\ ev.kind = t.ev.kind /\ ev.wire = t.ev.wire
      /\ ev.exec \in Execs \cup {NoExec}
  <2>1. t.order \in Orders /\ t.ev \in EventsFor(Reasons \cup {"lookup"})
    BY <1>2 DEF Tasks
  <2> QED BY <2>1 DEF PutEvent, EventsFor
<1>4. /\ t.ev.wire \in PlacedWires /\ placed[t.ev.wire] = o /\ t.ev.wire = trade[o]
      /\ t.ev.wire # NoWire
  <2>1. t.ev.wire \in PlacedWires /\ placed[t.ev.wire] = o BY <1>2 DEF QueueInv
  <2> QED BY <2>1 DEF WireInv, PlacedWires, NoWire
<1>5. Emit(o, ev) BY <1>1
<1> HIDE DEF t, ev
<1>6. PICK c : c = o /\ c \in Orders BY <1>3
<1>7. PICK told : told = {e \in Execs : Streamed(c, e)'} OBVIOUS
<1>8. /\ told \subseteq track[c].seen
      /\ \A e \in track[c].seen \ told : \E i \in DOMAIN tasks' : tasks'[i].order = c
  <2>1. \A e \in Execs : e \in track'[c].seen <=> Streamed(c, e)' \/ Waiting(c, e)'
    BY <1>6 DEF ToldInv
  <2>2. track' = track BY <1>1
  <2>3. track[c].seen \in SUBSET Execs BY <1>6, CumFacts
  <2> QED BY <1>7, <2>1, <2>2, <2>3 DEF Waiting
<1>9. /\ track[c].cum = Sum(track[c].seen) /\ IsFiniteSet(track[c].seen)
      /\ track[c].seen \in SUBSET Execs /\ track[c].cum \in Nat /\ track[c].cum <= Qty
  BY <1>6, CumFacts
<1>10. t.ev.kind \in TerminalKinds => told = track[c].seen
  <2> SUFFICES ASSUME t.ev.kind \in TerminalKinds,
                      NEW i \in DOMAIN tasks', tasks'[i].order = c
               PROVE  FALSE
    BY <1>8
  <2>1. i + 1 \in DOMAIN tasks /\ tasks[i + 1].order = tasks[1].order /\ 1 < i + 1
    BY <1>2, <1>6
  <2> QED BY <1>2, <2>1, TaskWires
<1>11. t.ev.kind = "FILLED" => Sum(told) = Qty /\ track[c].cum = Qty
  <2> SUFFICES ASSUME t.ev.kind = "FILLED" PROVE Sum(told) = Qty /\ track[c].cum = Qty
    OBVIOUS
  <2>1. track[c].cum = Qty BY <1>2, <1>6 DEF CompleteInv
  <2>2. told = track[c].seen BY <1>10 DEF TerminalKinds
  <2> QED BY <1>9, <2>1, <2>2
<1>12. t.ev.kind = "CANCELED" => Sum(told) < Qty
  <2> SUFFICES ASSUME t.ev.kind = "CANCELED" PROVE Sum(told) < Qty
    OBVIOUS
  <2>1. track[c].cum < Qty BY <1>2, <1>6 DEF CompleteInv
  <2>2. told = track[c].seen BY <1>10 DEF TerminalKinds
  <2> QED BY <1>9, <2>1, <2>2
<1>13. t.ev.kind = "PARTIAL_FILL" => Sum(told) < Qty
  <2> SUFFICES ASSUME t.ev.kind = "PARTIAL_FILL" PROVE Sum(told) < Qty
    OBVIOUS
  <2>1. Sum(told) \in Nat /\ Sum(told) <= track[c].cum
        /\ (told # track[c].seen => Sum(told) < track[c].cum)
    BY <1>8, <1>9, SumQty
  <2>2. CASE track[c].cum < Qty BY <1>9, <2>1, <2>2, QtyAssumption
  <2>3. CASE track[c].cum >= Qty
    <3>1. ~FillPut(c)
      <4> SUFFICES ASSUME NEW i \in DOMAIN emitted[c], emitted[c][i].kind = "FILLED",
                          emitted[c][i].wire # NoWire
                   PROVE  FALSE
        BY DEF FillPut
      <4>1. /\ emitted[c][i].wire \in PlacedWires /\ placed[emitted[c][i].wire] = c
            /\ \A j \in DOMAIN tasks : tasks[j].ev.wire # emitted[c][i].wire
        BY <1>6 DEF StreamInv, IsTerminal, TerminalKinds
      <4>2. emitted[c][i].wire = t.ev.wire BY <1>4, <1>6, <4>1 DEF WireInv
      <4> QED BY <1>2, <4>1, <4>2
    <3>2. PICK k \in DOMAIN tasks : tasks[k].order = c /\ tasks[k].ev.kind = "FILLED"
      BY <1>6, <2>3, <3>1 DEF CompleteInv, FillWaits
    <3>3. k # 1 BY <1>2, <3>2
    <3>4. PICK e : e = tasks[k].ev.exec OBVIOUS
    <3>5. e \in Execs
      BY <3>2, <3>4, ExecTypes DEF CompleteInv
    <3>6. PICK m \in DOMAIN tasks' : tasks'[m] = tasks[k] BY <1>2, <3>3
    <3>7. Waiting(c, e)' BY <3>2, <3>4, <3>6 DEF Waiting
    <3>8. tasks'[m].ev.exec = e /\ e # NoExec BY <3>4, <3>5, <3>6, NoneAssumption
    <3>9. \A p \in Orders : tasks'[m].ev.exec # NoExec =>
             ~\E j \in DOMAIN emitted'[p] : emitted'[p][j].exec = tasks'[m].ev.exec
      BY <3>6 DEF ToldInv, Streamed
    <3>10. ~Streamed(c, e)' BY <1>6, <3>8, <3>9 DEF Streamed
    <3>11. e \in track'[c].seen BY <1>6, <3>5, <3>7 DEF ToldInv
    <3>12. e \in track[c].seen /\ e \notin told BY <1>1, <1>7, <3>10, <3>11
    <3> QED BY <1>9, <2>1, <3>12, QtyAssumption
  <2> QED BY <1>9, <2>2, <2>3, QtyAssumption
<1>14. FilledMeansWhole'
  <2>1. Emit(c, ev) BY <1>5, <1>6
  <2>2. ev.kind = "FILLED" => Sum(told) = Qty BY <1>3, <1>11
  <2>3. ev.kind \in {"PARTIAL_FILL", "CANCELED"} => Sum(told) < Qty BY <1>3, <1>12, <1>13
  <2> QED BY <1>3, <1>6, <1>7, <2>1, <2>2, <2>3, PutWhole
<1>15. CompleteInv'
  <2>1. \A p \in Orders : ~track'[p].terminal => track'[p].cum < Qty
    BY <1>1 DEF CompleteInv
  <2>2. ASSUME NEW p \in Orders, track'[p].cum >= Qty PROVE FillWaits(p)' \/ FillPut(p)'
    <3>1. FillWaits(p) \/ FillPut(p) BY <1>1, <2>2 DEF CompleteInv
    <3>2. CASE FillPut(p)
      <4>1. PICK i \in DOMAIN emitted[p] :
              emitted[p][i].kind = "FILLED" /\ emitted[p][i].wire # NoWire
        BY <3>2 DEF FillPut
      <4>2. i \in DOMAIN emitted'[p] /\ emitted'[p][i] = emitted[p][i]
        BY <1>3, <1>5, <4>1, EmitFacts
      <4> QED BY <4>1, <4>2 DEF FillPut
    <3>3. CASE FillWaits(p)
      <4>1. PICK k \in DOMAIN tasks : tasks[k].order = p /\ tasks[k].ev.kind = "FILLED"
        BY <3>3 DEF FillWaits
      <4>2. CASE k = 1
        <5>1. p = o /\ ev.kind = "FILLED" /\ ev.wire # NoWire BY <1>2, <1>3, <1>4, <4>1, <4>2
        <5>2. \E i \in DOMAIN emitted'[p] : emitted'[p][i] = ev BY <1>3, <1>5, <5>1, EmitFacts
        <5> QED BY <5>1, <5>2 DEF FillPut
      <4>3. CASE k # 1
        <5>1. \E m \in DOMAIN tasks' : tasks'[m] = tasks[k] BY <1>2, <4>3
        <5> QED BY <4>1, <5>1 DEF FillWaits
      <4> QED BY <4>2, <4>3
    <3> QED BY <3>1, <3>2, <3>3
  <2>3. ASSUME NEW i \in DOMAIN tasks'
        PROVE  /\ tasks'[i].ev.kind = "FILLED" =>
                    tasks'[i].ev.exec # NoExec /\ track'[tasks'[i].order].cum = Qty
               /\ tasks'[i].ev.kind = "CANCELED" => track'[tasks'[i].order].cum < Qty
    BY <1>1, <1>2, <2>3 DEF CompleteInv
  <2> QED BY <2>1, <2>2, <2>3 DEF CompleteInv, FillWaits, FillPut
<1> QED BY <1>14, <1>15

(* Turns of the ready queue change no account.                             *)
LEMMA WholeYield ==
  ASSUME TypeOK, CompleteInv, YieldTask
  PROVE  CompleteInv'
<1> DEFINE t == [Head(tasks) EXCEPT !.left = @ - 1]
           n == Len(tasks)
<1>1. /\ tasks # <<>> /\ tasks' = Append(Tail(tasks), t)
      /\ UNCHANGED <<track, emitted>>
  BY DEF YieldTask, Yielding
<1>2. /\ 1 \in DOMAIN tasks /\ t.ev = tasks[1].ev /\ t.order = tasks[1].order
      /\ Tail(tasks) \in Seq(Tasks) /\ n \in Nat \ {0} /\ Len(Tail(tasks)) = n - 1
      /\ \A i \in DOMAIN Tail(tasks) : i + 1 \in DOMAIN tasks /\ Tail(tasks)[i] = tasks[i + 1]
  BY <1>1, HeadFacts DEF Tasks
<1>3. /\ DOMAIN tasks = 1..n /\ DOMAIN Tail(tasks) = 1..(n - 1)
  BY <1>1, <1>2 DEF TypeOK
<1> HIDE DEF t, n
<1>4. DOMAIN tasks' = 1..n /\ tasks'[n] = t
        /\ \A i \in 1..(n - 1) : tasks'[i] = Tail(tasks)[i]
  BY <1>1, <1>2, <1>3
<1>5. \A i \in DOMAIN tasks' : \E k \in DOMAIN tasks :
        tasks'[i].ev = tasks[k].ev /\ tasks'[i].order = tasks[k].order
  <2> TAKE i \in DOMAIN tasks'
  <2>1. CASE i = n BY <1>2, <1>4, <2>1
  <2>2. CASE i # n
    <3>1. i \in 1..(n - 1) BY <1>2, <1>4, <2>2
    <3> QED BY <1>2, <1>3, <1>4, <3>1
  <2> QED BY <2>1, <2>2
<1>6. \A k \in DOMAIN tasks : \E i \in DOMAIN tasks' :
        tasks'[i].ev = tasks[k].ev /\ tasks'[i].order = tasks[k].order
  <2> TAKE k \in DOMAIN tasks
  <2>1. CASE k = 1
    <3>1. n \in DOMAIN tasks' BY <1>2, <1>4
    <3> QED BY <1>2, <1>4, <2>1, <3>1
  <2>2. CASE k # 1
    <3>1. k - 1 \in 1..(n - 1) /\ (k - 1) + 1 = k BY <1>2, <1>3, <2>2
    <3>2. tasks'[k - 1] = tasks[k] BY <1>2, <1>3, <1>4, <3>1
    <3>3. k - 1 \in DOMAIN tasks' BY <1>2, <1>4, <3>1
    <3> QED BY <3>2, <3>3
  <2> QED BY <2>1, <2>2
<1>7. \A o \in Orders : FillWaits(o) => FillWaits(o)'
  BY <1>6 DEF FillWaits
<1>8. \A o \in Orders : track[o].cum >= Qty => FillWaits(o)' \/ FillPut(o)'
  BY <1>1, <1>7 DEF CompleteInv, FillPut
<1>9. \A i \in DOMAIN tasks' :
        /\ tasks'[i].ev.kind = "FILLED" =>
             tasks'[i].ev.exec # NoExec /\ track[tasks'[i].order].cum = Qty
        /\ tasks'[i].ev.kind = "CANCELED" => track[tasks'[i].order].cum < Qty
  BY <1>5 DEF CompleteInv
<1>10. \A o \in Orders : ~track[o].terminal => track[o].cum < Qty BY DEF CompleteInv
<1> QED BY <1>1, <1>8, <1>9, <1>10 DEF CompleteInv, FillPut, FillWaits
(* Handlers that report no execution: none of them completes an order.     *)
LEMMA QuietCounts ==
  ASSUME TypeOK, NEW w \in PlacedWires,
         OnAccepted(w) \/ OnCancelled(w) \/ OnInactive(w),
         ~UNCHANGED <<track, tasks, stash>>
  PROVE  /\ \A o \in Orders : track'[o].cum = track[o].cum /\ track'[o].seen = track[o].seen
         /\ \A i \in DOMAIN tasks' \ DOMAIN tasks : tasks'[i].ev.kind # "FILLED"
<1> DEFINE o == placed[w]
<1>1. /\ track \in [Orders -> Tracking] /\ tasks \in Seq(Tasks) /\ o \in Orders
      /\ track[o] \in Tracking
  BY PlacedOrder DEF TypeOK
<1>2. Accepts(w) \/ Cancels(w) \/ Defers(w)
  BY AcceptCase, CancelCase, InactiveCase
<1>3. \E t \in Tasks : tasks' = Append(tasks, t) /\ t.ev.kind # "FILLED"
  <2>1. CASE Accepts(w) BY <2>1, KnownTasks DEF Accepts, TaskOK
  <2>2. CASE Cancels(w) BY <2>2, KnownTasks DEF Cancels, TaskOK
  <2>3. CASE Defers(w) BY <2>3, KnownTasks DEF Defers, TaskOK
  <2> QED BY <1>2, <2>1, <2>2, <2>3
<1>4. \/ track' = [track EXCEPT ![o].accepted = TRUE]
      \/ track' = [track EXCEPT ![o].terminal = TRUE]
  BY <1>2 DEF Accepts, Cancels, Defers
<1>5. \A p \in Orders : track'[p].cum = track[p].cum /\ track'[p].seen = track[p].seen
  <2>1. \A p \in Orders : p # o => track'[p] = track[p] BY <1>1, <1>4
  <2>2. track'[o].cum = track[o].cum /\ track'[o].seen = track[o].seen
    BY <1>1, <1>4 DEF Tracking
  <2> QED BY <2>1, <2>2
<1> QED BY <1>1, <1>3, <1>5, BackOfQueue

(* Nothing terminal of an order that is open waits in the queue.           *)
LEMMA OpenWaits ==
  ASSUME QueueInv, NEW o \in Orders, ~track[o].terminal, NEW i \in DOMAIN tasks,
         tasks[i].order = o
  PROVE  tasks[i].ev.kind \notin TerminalKinds
BY DEF QueueInv

LEMMA WholeQuiet ==
  ASSUME IInv, CompleteInv, UNCHANGED emitted, NEW w \in PlacedWires,
         OnAccepted(w) \/ OnCancelled(w) \/ OnInactive(w),
         ~UNCHANGED <<track, tasks, stash>>
  PROVE  CompleteInv'
<1>1. /\ \A o \in Orders : track'[o].cum = track[o].cum
      /\ \A o \in Orders : track[o].terminal => track'[o].terminal
      /\ \A i \in DOMAIN tasks' \ DOMAIN tasks :
           tasks'[i].ev.kind # "FILLED" /\ tasks'[i].order = placed[w]
      /\ DOMAIN tasks \subseteq DOMAIN tasks' /\ \A i \in DOMAIN tasks : tasks'[i] = tasks[i]
      /\ ~track[placed[w]].terminal
  BY QuietCounts, QuietHandler, HandlerQueue DEF IInv
<1>2. placed[w] \in Orders /\ \A i \in DOMAIN tasks : tasks[i].order \in Orders
  BY PlacedOrder, ExecTypes DEF IInv
<1>3. track[placed[w]].cum < Qty BY <1>1, <1>2 DEF CompleteInv
<1>4. \A o \in Orders : ~track'[o].terminal => track'[o].cum < Qty BY <1>1 DEF CompleteInv
<1>5. \A o \in Orders : FillWaits(o) => FillWaits(o)' BY <1>1 DEF FillWaits
<1>6. \A o \in Orders : track'[o].cum >= Qty => FillWaits(o)' \/ FillPut(o)'
  BY <1>1, <1>5 DEF CompleteInv, FillPut
<1>7. ASSUME NEW i \in DOMAIN tasks'
      PROVE  /\ tasks'[i].ev.kind = "FILLED" =>
                  tasks'[i].ev.exec # NoExec /\ track'[tasks'[i].order].cum = Qty
             /\ tasks'[i].ev.kind = "CANCELED" => track'[tasks'[i].order].cum < Qty
  <2>1. CASE i \in DOMAIN tasks BY <1>1, <1>2, <2>1 DEF CompleteInv
  <2>2. CASE i \notin DOMAIN tasks BY <1>1, <1>2, <1>3, <2>2
  <2> QED BY <2>1, <2>2
<1> QED BY <1>4, <1>6, <1>7 DEF CompleteInv, FillWaits, FillPut

(* A fill: the record counts one execution more, and the FILLED it creates *)
(* is the only closing task of the order.                                  *)
LEMMA WholeFill ==
  ASSUME IInv, LedgerInv, WholeInv, NEW w \in PlacedWires, NEW e \in Execs,
         e \in executed[w], Fills(w, e), ~track[placed[w]].terminal,
         UNCHANGED <<executed, emitted>>
  PROVE  CumInv' /\ CompleteInv'
<1> USE DEF IInv, LedgerInv, WholeInv
<1> DEFINE o == placed[w]
<1>1. /\ w \in Wires /\ o \in Orders /\ track \in [Orders -> Tracking] /\ track[o] \in Tracking
      /\ tasks \in Seq(Tasks)
  BY PlacedOrder DEF TypeOK
<1>2. /\ e \notin track[o].seen /\ track'[o].seen = track[o].seen \cup {e}
      /\ \A p \in Orders : p # o => track'[p] = track[p]
  BY FillHandler
<1>3. /\ track'[o].cum = track[o].cum + ExecQty[e]
      /\ track'[o].terminal = (track[o].cum + ExecQty[e] >= Qty)
  BY <1>1 DEF Fills, CumAfter, Whole
<1>4. /\ track[o].seen \in SUBSET Execs /\ track[o].cum = Sum(track[o].seen)
      /\ IsFiniteSet(track[o].seen) /\ track[o].cum \in Nat
  BY <1>1, CumFacts
<1>5. /\ IsFiniteSet(track'[o].seen) /\ track'[o].cum = Sum(track'[o].seen)
  BY <1>2, <1>3, <1>4, SumQty
<1>6. track'[o].cum <= Qty /\ track'[o].cum \in Nat
  <2>1. track'[o].seen \in SUBSET executed[w] BY <1>2, SeenExecuted
  <2>2. executed[w] \in SUBSET Execs /\ IsFiniteSet(executed[w]) /\ Sum(executed[w]) <= Qty
    BY <1>1 DEF TypeOK, CumInv
  <2>3. PICK s : s = track'[o].seen OBVIOUS
  <2>4. Sum(s) <= Sum(executed[w]) /\ Sum(s) \in Nat /\ Sum(executed[w]) \in Nat
    BY <2>1, <2>2, <2>3, SumQty
  <2>5. track'[o].cum = Sum(s) BY <1>5, <2>3 DEF Sum
  <2> QED BY <2>2, <2>4, <2>5, QtyAssumption
<1>7. PICK q \in Seq(Tasks) : \E t \in Tasks :
        /\ tasks' = Append(q, t) /\ t.order = o /\ t.ev.exec = e /\ t.ev.kind = FillKind(w, e)
        /\ DOMAIN tasks \subseteq DOMAIN q
        /\ \A i \in DOMAIN tasks : q[i] = tasks[i]
        /\ \A i \in DOMAIN q \ DOMAIN tasks : q[i].ev.kind = "ACCEPTED"
  <2> DEFINE a == NewTask(w, "ACCEPTED", NoExec, "none", 0)
             t == NewTask(w, FillKind(w, e), e, "none", 0)
             q == AcceptedQueue(w)
  <2>1. a \in Tasks /\ a.ev.kind = "ACCEPTED" BY KnownTasks DEF TaskOK
  <2>2. t \in Tasks /\ t.order = o /\ t.ev.exec = e /\ t.ev.kind = FillKind(w, e)
    BY KnownTasks DEF TaskOK
  <2>3. tasks' = Append(q, t) BY DEF Fills
  <2> HIDE DEF a, t
  <2>4. /\ q \in Seq(Tasks) /\ DOMAIN tasks \subseteq DOMAIN q
        /\ \A i \in DOMAIN tasks : q[i] = tasks[i]
        /\ \A i \in DOMAIN q \ DOMAIN tasks : q[i].ev.kind = "ACCEPTED"
    BY <1>1, <2>1, BackOfQueue DEF AcceptedQueue, a
  <2> QED BY <2>2, <2>3, <2>4
<1>8. PICK t \in Tasks :
        /\ tasks' = Append(q, t) /\ t.order = o /\ t.ev.exec = e /\ t.ev.kind = FillKind(w, e)
        /\ DOMAIN tasks \subseteq DOMAIN q
        /\ \A i \in DOMAIN tasks : q[i] = tasks[i]
        /\ \A i \in DOMAIN q \ DOMAIN tasks : q[i].ev.kind = "ACCEPTED"
  BY <1>7
<1>9. PICK n : /\ DOMAIN tasks' = DOMAIN q \cup {n} /\ tasks'[n] = t
               /\ \A i \in DOMAIN q : tasks'[i] = q[i] /\ i # n
  <2>1. /\ DOMAIN tasks' = DOMAIN q \cup {Len(q) + 1} /\ tasks'[Len(q) + 1] = t
        /\ \A i \in DOMAIN q : tasks'[i] = q[i] /\ i # Len(q) + 1
    BY <1>8, BackOfQueue
  <2> QED BY <2>1
<1>10. FillKind(w, e) = IF track'[o].cum >= Qty THEN "FILLED" ELSE "PARTIAL_FILL"
  BY <1>3 DEF FillKind, Whole, CumAfter
<1>11. \A i \in DOMAIN tasks : tasks[i].order = o => tasks[i].ev.kind \notin {"FILLED", "CANCELED"}
  BY <1>1, OpenWaits DEF TerminalKinds
<1> HIDE DEF o
<1>12. \A i \in DOMAIN tasks : tasks[i].order \in Orders BY ExecTypes
<1>13. ASSUME NEW i \in DOMAIN tasks'
       PROVE  /\ tasks'[i].ev.kind = "FILLED" =>
                   tasks'[i].ev.exec # NoExec /\ track'[tasks'[i].order].cum = Qty
              /\ tasks'[i].ev.kind = "CANCELED" => track'[tasks'[i].order].cum < Qty
  <2>1. CASE i = n
    BY <1>6, <1>8, <1>9, <1>10, <2>1, NoneAssumption, QtyAssumption
  <2>2. CASE i \in DOMAIN tasks
    BY <1>2, <1>8, <1>9, <1>11, <1>12, <2>2 DEF CompleteInv
  <2>3. CASE i \in DOMAIN q \ DOMAIN tasks BY <1>8, <1>9, <2>3
  <2> QED BY <1>9, <2>1, <2>2, <2>3
<1>14. \A p \in Orders : FillWaits(p) => FillWaits(p)' BY <1>8, <1>9 DEF FillWaits
<1>15. ASSUME NEW p \in Orders, track'[p].cum >= Qty PROVE FillWaits(p)' \/ FillPut(p)'
  <2>1. CASE p = o BY <1>8, <1>9, <1>10, <1>15, <2>1 DEF FillWaits
  <2>2. CASE p # o BY <1>2, <1>14, <1>15, <2>2 DEF CompleteInv, FillPut
  <2> QED BY <2>1, <2>2
<1>16. ASSUME NEW p \in Orders, ~track'[p].terminal PROVE track'[p].cum < Qty
  <2>1. CASE p = o
    <3>1. ~(track'[p].cum >= Qty) BY <1>3, <1>16, <2>1
    <3> QED BY <1>6, <2>1, <3>1, QtyAssumption
  <2>2. CASE p # o BY <1>2, <1>16, <2>2 DEF CompleteInv
  <2> QED BY <2>1, <2>2
<1>17. CompleteInv' BY <1>13, <1>15, <1>16 DEF CompleteInv, FillWaits, FillPut
<1>18. \A p \in Orders : IsFiniteSet(track'[p].seen) /\ track'[p].cum = Sum(track'[p].seen)
  BY <1>2, <1>5 DEF CumInv
<1>19. CumInv' BY <1>18 DEF CumInv, Sum
<1> QED BY <1>17, <1>19
(* Place forgets a record only of an id that nothing was executed for.     *)
LEMMA WholePlace ==
  ASSUME IInv, LedgerInv, LedgerInv', WholeInv, NEW c \in Callers, Place(c)
  PROVE  CumInv' /\ CompleteInv' /\ FilledMeansWhole'
<1> USE DEF IInv, LedgerInv, WholeInv
<1> DEFINE o == call[c].order
           ev == Event("SUBMITTED", Len(placed) + 1, NoExec, "none")
<1>1. /\ track' = [track EXCEPT ![o] = FreshTracking] /\ Emit(o, ev)
      /\ UNCHANGED <<tasks, executed, delivered>> /\ track \in [Orders -> Tracking]
  BY DEF Place, TypeOK
<1>2. /\ o \in Orders /\ \A v \in PlacedWires : placed[v] # o
  BY PlaceFacts
<1>3. ev.exec = NoExec /\ ev.kind = "SUBMITTED" BY DEF Event
<1>4. PICK m : m = o OBVIOUS
<1> HIDE DEF o, ev
<1>5. /\ track'[m].seen = {} /\ track'[m].cum = 0 /\ m \in Orders
      /\ \A p \in Orders : p # m => track'[p] = track[p]
  BY <1>1, <1>2, <1>4 DEF FreshTracking
<1>6. Sum({}) = 0 /\ IsFiniteSet({}) BY SumEmpty, FS_EmptySet DEF Sum
<1>7. \A p \in Orders : IsFiniteSet(track'[p].seen) /\ track'[p].cum = Sum(track'[p].seen)
  BY <1>5, <1>6 DEF CumInv
<1>8. CumInv' BY <1>1, <1>7 DEF CumInv, Sum
<1>9. \A i \in DOMAIN tasks : tasks[i].order # m BY <1>2, <1>4 DEF QueueInv
<1>10. FilledMeansWhole'
  <2>1. PICK told : told = {e \in Execs : Streamed(m, e)'} OBVIOUS
  <2>2. Emit(m, ev) BY <1>1, <1>4
  <2> QED BY <1>3, <1>5, <2>1, <2>2, PutWhole
<1>11. \A p \in Orders : FillPut(p) => FillPut(p)'
  <2>1. \A p \in Orders : \A i \in DOMAIN emitted[p] :
           i \in DOMAIN emitted'[p] /\ emitted'[p][i] = emitted[p][i]
    BY <1>1, <1>2, EmitFacts
  <2> QED BY <2>1 DEF FillPut
<1>12. \A p \in Orders : track'[p].cum >= Qty => FillWaits(p)' \/ FillPut(p)'
  BY <1>1, <1>5, <1>11, QtyAssumption DEF CompleteInv, FillWaits
<1>13. \A p \in Orders : ~track'[p].terminal => track'[p].cum < Qty
  BY <1>5, QtyAssumption DEF CompleteInv
<1>14. ASSUME NEW i \in DOMAIN tasks
       PROVE  /\ tasks[i].ev.kind = "FILLED" =>
                   tasks[i].ev.exec # NoExec /\ track'[tasks[i].order].cum = Qty
              /\ tasks[i].ev.kind = "CANCELED" => track'[tasks[i].order].cum < Qty
  <2>1. tasks[i].order \in Orders /\ tasks[i].order # m BY <1>9, ExecTypes
  <2>2. track'[tasks[i].order] = track[tasks[i].order] BY <1>5, <2>1
  <2> QED BY <2>2 DEF CompleteInv
<1>15. CompleteInv' BY <1>1, <1>12, <1>13, <1>14 DEF CompleteInv, FillWaits, FillPut
<1> QED BY <1>8, <1>10, <1>15

(* FilledMeansWhole is about the streams and nothing else.                 *)
FilledIn(streams) ==
  \A o \in Orders : \A i \in DOMAIN streams[o] :
    LET qty == SumFunctionOnSet(ExecQty, {streams[o][k].exec : k \in 1..i} \ {NoExec}) IN
    /\ streams[o][i].kind = "FILLED" => qty = Qty
    /\ streams[o][i].kind \in {"PARTIAL_FILL", "CANCELED"} => qty < Qty

LEMMA WholeStreams ==
  ASSUME FilledMeansWhole, UNCHANGED emitted
  PROVE  FilledMeansWhole'
<1>1. FilledMeansWhole <=> FilledIn(emitted)
  BY DEF FilledMeansWhole, FilledIn, Reported, Sum
<1>2. FilledMeansWhole' <=> FilledIn(emitted')
  BY DEF FilledMeansWhole, FilledIn, Reported, Sum
<1> QED BY <1>1, <1>2

LEMMA WholeStep ==
  ASSUME IInv, LedgerInv, LedgerInv', WholeInv, [Next]_vars
  PROVE  WholeInv'
<1>1. ASSUME UNCHANGED <<track, tasks, emitted>> PROVE CompleteInv' /\ FilledMeansWhole'
  <2>1. FilledMeansWhole'
    BY <1>1, WholeStreams DEF WholeInv
  <2>2. \A o \in Orders : ~track'[o].terminal => track'[o].cum < Qty
    BY <1>1 DEF WholeInv, CompleteInv
  <2>3. \A o \in Orders : track'[o].cum >= Qty => FillWaits(o)' \/ FillPut(o)'
    <3> TAKE o \in Orders
    <3>1. track[o].cum >= Qty => FillWaits(o) \/ FillPut(o)
      BY DEF WholeInv, CompleteInv
    <3> QED BY <1>1, <3>1 DEF FillWaits, FillPut
  <2>4. \A i \in DOMAIN tasks' :
          /\ tasks'[i].ev.kind = "FILLED" =>
               tasks'[i].ev.exec # NoExec /\ track'[tasks'[i].order].cum = Qty
          /\ tasks'[i].ev.kind = "CANCELED" => track'[tasks'[i].order].cum < Qty
    BY <1>1 DEF WholeInv, CompleteInv
  <2>5. CompleteInv'
    BY <2>2, <2>3, <2>4 DEF CompleteInv, FillWaits, FillPut
  <2> QED BY <2>1, <2>5
<1>2. ASSUME UNCHANGED <<track, executed>> PROVE CumInv'
  BY <1>2 DEF WholeInv, CumInv, Sum
<1>3. CASE UNCHANGED <<track, tasks, emitted, executed>>
  BY <1>1, <1>2, <1>3 DEF WholeInv
<1>4. CASE Connect \/ Disconnect \/ UNCHANGED vars
  BY <1>3, <1>4 DEF Connect, Disconnect, vars, broker, venue
<1>5. ASSUME UNCHANGED emitted PROVE FilledMeansWhole'
  BY <1>5, WholeStreams DEF WholeInv
<1>6. CASE YieldTask
  BY <1>2, <1>5, <1>6, WholeYield DEF YieldTask, venue, IInv, WholeInv
<1>7. CASE PutTask
  BY <1>2, <1>7, WholePut DEF PutTask, venue, WholeInv
<1>8. ASSUME NEW c \in Callers,
             \/ SnapDone(c) \/ CallRaises(c) \/ CancelSend(c)
             \/ \E o \in Orders : SubmitCall(c, o) \/ CancelCall(c, o)
      PROVE  WholeInv'
  BY <1>3, <1>8 DEF SnapDone, CallRaises, CancelSend, SubmitCall, CancelCall, venue
<1>9. ASSUME NEW c \in Callers, SnapUnavailable(c)
      PROVE  WholeInv'
  <2> DEFINE ev == Event("REJECTED", NoWire, NoExec, "price_rule")
  <2>1. PICK o \in Orders : Emit(o, ev)
    BY <1>9, NoneAssumption DEF IInv, TypeOK, SnapUnavailable, Calls, Idle
  <2>2. ev.exec = NoExec /\ ev.kind = "REJECTED" BY DEF Event
  <2>3. UNCHANGED <<track, tasks, executed>> BY <1>9 DEF SnapUnavailable, venue
  <2> HIDE DEF ev
  <2>4. FilledMeansWhole'
    <3>1. PICK told : told = {e \in Execs : Streamed(o, e)'} OBVIOUS
    <3> QED BY <2>1, <2>2, <3>1, PutWhole DEF IInv, WholeInv
  <2>5. \A p \in Orders : FillPut(p) => FillPut(p)'
    <3>1. \A p \in Orders : \A i \in DOMAIN emitted[p] :
             i \in DOMAIN emitted'[p] /\ emitted'[p][i] = emitted[p][i]
      BY <2>1, EmitFacts DEF IInv
    <3> QED BY <3>1 DEF FillPut
  <2>6. CompleteInv' BY <2>3, <2>5 DEF WholeInv, CompleteInv, FillWaits, FillPut
  <2> QED BY <1>2, <2>3, <2>4, <2>6 DEF WholeInv
<1>10. ASSUME NEW c \in Callers, Place(c)
       PROVE  WholeInv'
  BY <1>10, WholePlace DEF WholeInv
<1>11. ASSUME NEW w \in Wires,
              \/ VenueAccept(w) \/ VenueCancel(w)
              \/ \E b \in BOOLEAN : VenueInactive(w, b) \/ VenueError(w, b)
       PROVE  WholeInv'
  <2>1. UNCHANGED <<emitted, executed>>
    BY <1>11 DEF VenueAccept, VenueCancel, VenueInactive, VenueError, AtVenue
  <2>2. CASE UNCHANGED <<track, tasks>>
    BY <1>3, <2>1, <2>2
  <2>3. CASE ~UNCHANGED <<track, tasks>>
    <3>1. w \in PlacedWires /\ (OnAccepted(w) \/ OnCancelled(w) \/ OnInactive(w))
      BY <1>11, <2>3 DEF VenueAccept, VenueCancel, VenueInactive, VenueError, Live
    <3>2. CompleteInv' BY <2>1, <2>3, <3>1, WholeQuiet DEF WholeInv
    <3>3. \A o \in Orders : track'[o].cum = track[o].cum /\ track'[o].seen = track[o].seen
      BY <2>3, <3>1, QuietCounts DEF IInv
    <3>4. CumInv' BY <2>1, <3>3 DEF WholeInv, CumInv, Sum
    <3> QED BY <1>5, <2>1, <3>2, <3>4 DEF WholeInv
  <2> QED BY <2>2, <2>3
<1>12. ASSUME NEW w \in Wires, NEW e \in Execs, VenueExecute(w, e)
       PROVE  WholeInv'
  <2>1. /\ e \notin executed[w] /\ Sum(executed[w]) + ExecQty[e] <= Qty
        /\ executed' = [executed EXCEPT ![w] = @ \cup {e}]
        /\ UNCHANGED <<track, tasks, emitted>>
    BY <1>12 DEF VenueExecute, broker
  <2>2. executed \in [Wires -> SUBSET Execs] BY DEF IInv, TypeOK
  <2>3. \A v \in Wires : executed'[v] = IF v = w THEN executed[v] \cup {e} ELSE executed[v]
    BY <2>1, <2>2
  <2>4. executed[w] \in SUBSET Execs /\ IsFiniteSet(executed[w])
    BY <2>2 DEF WholeInv, CumInv
  <2>5. IsFiniteSet(executed[w] \cup {e}) /\ Sum(executed[w] \cup {e}) <= Qty
    BY <2>1, <2>4, SumQty
  <2>6. \A v \in Wires : IsFiniteSet(executed'[v]) /\ Sum(executed'[v]) <= Qty
    BY <2>3, <2>5 DEF WholeInv, CumInv
  <2>7. CumInv' BY <2>1, <2>6 DEF WholeInv, CumInv, Sum
  <2> QED BY <1>1, <2>1, <2>7 DEF WholeInv
<1>13. ASSUME NEW w \in Wires, NEW e \in Execs, DeliverFill(w, e)
       PROVE  WholeInv'
  <2>1. /\ w \in PlacedWires /\ e \in executed[w] /\ OnFill(w, e)
        /\ UNCHANGED <<emitted, executed>>
    BY <1>13 DEF DeliverFill, AtVenue
  <2>2. CASE UNCHANGED <<track, tasks, stash>> BY <1>3, <2>1, <2>2
  <2>3. CASE ~track[placed[w]].terminal /\ Fills(w, e)
    <3>1. CumInv' /\ CompleteInv' BY <2>1, <2>3, WholeFill
    <3> QED BY <1>5, <2>1, <3>1 DEF WholeInv
  <2> QED BY <2>1, <2>2, <2>3, FillCases
<1>14. QED
  BY <1>4, <1>6, <1>7, <1>8, <1>9, <1>10, <1>11, <1>12, <1>13 DEF Next

(* Every execution the venue pushed before the order was closed is told by *)
(* its stream, or on its way there, exactly once; the record counts the    *)
(* shares of what it has seen; FILLED is put with the execution that       *)
(* completes the quantity and with no other (broker.py _on_order_fill).    *)
THEOREM ExecutionsToldOnce ==
  ASSUME ConcurrentReuse = FALSE
  PROVE  Spec => []ExecutionsInv
<1>1. Init => IInv /\ LedgerInv /\ WholeInv
  <2>1. Init => IInv
    BY IInvInductive
  <2>2. ASSUME Init PROVE LedgerInv /\ WholeInv
    <3>1. /\ DOMAIN tasks = {} /\ PlacedWires = {} /\ delivered = {}
          /\ \A o \in Orders : /\ DOMAIN emitted[o] = {} /\ track[o].seen = {}
                               /\ track[o].cum = 0 /\ trade[o] = NoWire
          /\ \A w \in Wires : executed[w] = {}
      BY <2>2 DEF Init, PlacedWires, FreshTracking
    <3>2. LedgerInv
      BY <3>1 DEF LedgerInv, VenueInv, TradeInv, SeenInv, ToldInv, NoExecTwice,
                  Streamed, Waiting
    <3>3. Sum({}) = 0 /\ IsFiniteSet({}) BY SumEmpty, FS_EmptySet DEF Sum
    <3>4. CumInv
      <4>1. \A o \in Orders : IsFiniteSet(track[o].seen) /\ track[o].cum = Sum(track[o].seen)
        BY <3>1, <3>3
      <4>2. 0 <= Qty BY QtyAssumption
      <4>3. \A w \in Wires : IsFiniteSet(executed[w]) /\ Sum(executed[w]) <= Qty
        BY <3>1, <3>3, <4>2
      <4> QED BY <4>1, <4>3 DEF CumInv
    <3>5. CompleteInv BY <3>1, QtyAssumption DEF CompleteInv
    <3>6. FilledMeansWhole BY <3>1 DEF FilledMeansWhole
    <3> QED BY <3>2, <3>4, <3>5, <3>6 DEF WholeInv
  <2> QED BY <2>1, <2>2
<1>2. IInv /\ LedgerInv /\ WholeInv /\ [Next]_vars => (IInv /\ LedgerInv /\ WholeInv)'
  <2> SUFFICES ASSUME IInv, LedgerInv, WholeInv, [Next]_vars
               PROVE  IInv' /\ LedgerInv' /\ WholeInv'
    OBVIOUS
  <2>1. IInv'
    BY IInvInductive
  <2>2. LedgerInv'
    <3>1. VenueInv' /\ TradeInv'
      BY VenueInvStep, TradeInvStep DEF IInv, LedgerInv
    <3> QED BY <3>1, LedgerStep DEF LedgerInv
  <2>3. WholeInv' BY <2>2, WholeStep
  <2> QED BY <2>1, <2>2, <2>3
<1>3. IInv /\ LedgerInv /\ WholeInv => ExecutionsInv
  BY LedgerTells DEF LedgerInv, WholeInv, CumInv, ExecutionsInv, FillLedger
<1> QED BY <1>1, <1>2, <1>3, PTL DEF Spec
-----------------------------------------------------------------------------
(* The refinement of the order FSM.  States is what the events put so far  *)
(* have made of each order; a task is a step still to come.                *)
States == [o \in Orders |-> StateOf(o)]

Reporting == {"SUBMITTED", "ACCEPTED", "PARTIALLY_FILLED"}
Accepted == {"ACCEPTED", "PARTIALLY_FILLED"}

None(q, o) == \A i \in DOMAIN q : q[i].order # o
Acknowledges(q, o, i) == q[i].order = o /\ q[i].ev.kind = "ACCEPTED"

(* Task i of the queue q, put when its turn comes, is a row of the table.  *)
LegalIn(q, st, i) ==
  LET o == q[i].order
      kind == q[i].ev.kind
  IN /\ kind # "SUBMITTED" /\ st[o] \in Reporting
     /\ kind = "ACCEPTED" =>
          st[o] = "SUBMITTED" /\ \A j \in DOMAIN q : j < i => q[j].order # o
     /\ kind \in {"PARTIAL_FILL", "FILLED"} =>
          st[o] \in Accepted \/ \E j \in DOMAIN q : j < i /\ Acknowledges(q, o, j)
     /\ kind = "REJECTED" =>
          st[o] = "SUBMITTED" /\ \A j \in DOMAIN q : j # i => q[j].order # o

Legal(q, st) == \A i \in DOMAIN q : LegalIn(q, st, i)

(* An order not marked terminal is where its record says, or a task is     *)
(* about to put it there.                                                  *)
OpenIn(q, st, o, record) ==
  ~record.terminal =>
    IF record.accepted
    THEN st[o] \in Accepted \/ (st[o] = "SUBMITTED" /\ \E i \in DOMAIN q : Acknowledges(q, o, i))
    ELSE st[o] = "SUBMITTED" /\ None(q, o)

OpenInv ==
  \A w \in PlacedWires :
    /\ OpenIn(tasks, States, placed[w], track[placed[w]])
    /\ track[placed[w]].accepted => vstate[w] # "sent" \/ executed[w] # {}

PendingInv ==
  /\ \A o \in Orders : tries[o] = 0 => emitted[o] = <<>>
  /\ \A c \in Callers : Submitting(c) =>
       tries[call[c].order] # 0 /\ emitted[call[c].order] = <<>>

WalkInv == Legal(tasks, States) /\ OpenInv /\ PendingInv

(* One task more.                                                          *)
LEMMA AppendLegal ==
  ASSUME NEW q \in Seq(Tasks), NEW t \in Tasks, NEW st, Legal(q, st),
         \A i \in DOMAIN q : q[i].ev.kind = "REJECTED" => q[i].order # t.order,
         t.ev.kind # "SUBMITTED", st[t.order] \in Reporting,
         t.ev.kind \in {"ACCEPTED", "REJECTED"} =>
           st[t.order] = "SUBMITTED" /\ None(q, t.order),
         t.ev.kind \in {"PARTIAL_FILL", "FILLED"} =>
           st[t.order] \in Accepted \/ \E j \in DOMAIN q : Acknowledges(q, t.order, j)
  PROVE  Legal(Append(q, t), st)
<1> DEFINE r == Append(q, t)
           n == Len(q) + 1
<1>1. /\ DOMAIN r = DOMAIN q \cup {n} /\ r[n] = t /\ n \in Nat
      /\ \A i \in DOMAIN q : r[i] = q[i] /\ i \in Nat /\ i < n
  BY BackOfQueue
<1> HIDE DEF r, n
<1>2. \A i \in DOMAIN q : ~(n < i) /\ i # n
  BY <1>1
<1>3. ASSUME NEW i \in DOMAIN q PROVE LegalIn(r, st, i)
  <2>1. LegalIn(q, st, i) /\ r[i] = q[i]
    BY <1>1 DEF Legal
  <2>2. q[i].ev.kind = "ACCEPTED" =>
          st[q[i].order] = "SUBMITTED" /\ \A j \in DOMAIN r : j < i => r[j].order # q[i].order
    BY <1>1, <1>2, <2>1 DEF LegalIn
  <2>3. q[i].ev.kind \in {"PARTIAL_FILL", "FILLED"} =>
          \/ st[q[i].order] \in Accepted
          \/ \E j \in DOMAIN r : j < i /\ Acknowledges(r, q[i].order, j)
    BY <1>1, <2>1 DEF LegalIn, Acknowledges
  <2>4. q[i].ev.kind = "REJECTED" =>
          st[q[i].order] = "SUBMITTED" /\ \A j \in DOMAIN r : j # i => r[j].order # q[i].order
    BY <1>1, <2>1 DEF LegalIn
  <2>5. QED
    BY <2>1, <2>2, <2>3, <2>4 DEF LegalIn
<1>4. LegalIn(r, st, n)
  BY <1>1, <1>2 DEF LegalIn, None, Acknowledges
<1>5. QED
  BY <1>1, <1>3, <1>4 DEF Legal, r

(* The other orders do not notice it.                                      *)
LEMMA AppendOpen ==
  ASSUME NEW q \in Seq(Tasks), NEW t \in Tasks, NEW st, NEW o, o # t.order, NEW record,
         OpenIn(q, st, o, record)
  PROVE  OpenIn(Append(q, t), st, o, record)
<1>1. /\ DOMAIN Append(q, t) = DOMAIN q \cup {Len(q) + 1}
      /\ Append(q, t)[Len(q) + 1] = t
      /\ \A i \in DOMAIN q : Append(q, t)[i] = q[i]
  BY BackOfQueue
<1>2. QED
  BY <1>1 DEF OpenIn, None, Acknowledges

(* Nothing rejected waits for an order that is still open.                 *)
LEMMA NothingRejected ==
  ASSUME QueueInv, NEW o, ~track[o].terminal
  PROVE  \A i \in DOMAIN tasks : tasks[i].ev.kind \in TerminalKinds => tasks[i].order # o
BY DEF QueueInv

(* What is open has a state to report from.                                *)
LEMMA OpenReports ==
  ASSUME NEW q, NEW st, NEW o, NEW record, OpenIn(q, st, o, record), ~record.terminal
  PROVE  /\ st[o] \in Reporting
         /\ ~record.accepted => st[o] = "SUBMITTED" /\ None(q, o)
         /\ record.accepted =>
              st[o] \in Accepted \/ \E i \in DOMAIN q : Acknowledges(q, o, i)
BY DEF OpenIn, Reporting, Accepted

(* A handler's task is legal: Inactive counts only before the ack.         *)
LEMMA LegalHandler ==
  ASSUME TypeOK, QueueInv, Legal(tasks, States), OpenInv, NEW w \in PlacedWires,
         ~track[placed[w]].terminal,
         \/ Accepts(w) \/ Cancels(w)
         \/ Defers(w) /\ ~track[placed[w]].accepted
         \/ \E e \in Execs : Fills(w, e)
  PROVE  Legal(tasks', States)
<1> DEFINE o == placed[w]
<1>1. /\ tasks \in Seq(Tasks) /\ OpenIn(tasks, States, o, track[o])
  BY DEF TypeOK, OpenInv
<1>2. /\ States[o] \in Reporting
      /\ ~track[o].accepted => States[o] = "SUBMITTED" /\ None(tasks, o)
      /\ track[o].accepted =>
           States[o] \in Accepted \/ \E i \in DOMAIN tasks : Acknowledges(tasks, o, i)
  BY <1>1, OpenReports
<1>3. \A i \in DOMAIN tasks : tasks[i].ev.kind = "REJECTED" => tasks[i].order # o
  BY NothingRejected DEF TerminalKinds
<1> HIDE DEF o
<1>4. ASSUME ~track[o].accepted, NEW t \in Tasks, t.order = o,
             t.ev.kind \in {"ACCEPTED", "REJECTED"}
      PROVE  Legal(Append(tasks, t), States)
  BY <1>1, <1>2, <1>3, <1>4, AppendLegal
<1>5. ASSUME NEW t \in Tasks, t.order = o, t.ev.kind = "CANCELED"
      PROVE  Legal(Append(tasks, t), States)
  BY <1>1, <1>2, <1>3, <1>5, AppendLegal
<1>6. CASE Accepts(w)
  BY <1>4, <1>6, KnownTasks DEF Accepts, TaskOK, o
<1>7. CASE Cancels(w)
  <2>1. CASE /\ ~track[o].accepted
             /\ tasks' = Append(tasks, NewTask(w, "REJECTED", NoExec, "log", 0))
    BY <1>4, <2>1, KnownTasks DEF TaskOK, o
  <2>2. CASE tasks' = Append(tasks, NewTask(w, "CANCELED", NoExec, "engine", 0))
    BY <1>5, <2>2, KnownTasks DEF TaskOK, o
  <2>3. QED
    BY <1>7, <2>1, <2>2 DEF Cancels, o
<1>8. CASE Defers(w) /\ ~track[o].accepted
  BY <1>4, <1>8, KnownTasks DEF Defers, TaskOK, o
<1>9. ASSUME NEW e \in Execs, Fills(w, e) PROVE Legal(tasks', States)
  <2> DEFINE q == AcceptedQueue(w)
             t == NewTask(w, FillKind(w, e), e, "none", 0)
             ack == NewTask(w, "ACCEPTED", NoExec, "none", 0)
  <2>1. /\ t \in Tasks /\ t.order = o /\ t.ev.kind \in {"PARTIAL_FILL", "FILLED"}
        /\ ack \in Tasks /\ ack.order = o /\ ack.ev.kind = "ACCEPTED"
    BY KnownTasks DEF TaskOK, FillKind, o
  <2>2. tasks' = Append(q, t)
    BY <1>9 DEF Fills
  <2>3. CASE track[o].accepted
    <3>1. q = tasks
      BY <2>3 DEF AcceptedQueue, o
    <3>2. QED
      BY <1>1, <1>2, <1>3, <2>1, <2>2, <2>3, <3>1, AppendLegal
  <2>4. CASE ~track[o].accepted
    <3>1. q = Append(tasks, ack)
      BY <2>4 DEF AcceptedQueue, o
    <3> HIDE DEF q, t, ack
    <3>2. q \in Seq(Tasks) /\ Legal(q, States)
      BY <1>1, <1>4, <2>1, <2>4, <3>1, BackOfQueue
    <3>3. /\ \A i \in DOMAIN q : q[i].ev.kind = "REJECTED" => q[i].order # o
          /\ \E j \in DOMAIN q : Acknowledges(q, o, j)
      BY <1>1, <1>3, <2>1, <3>1, BackOfQueue DEF Acknowledges
    <3>4. QED
      BY <1>2, <2>1, <2>2, <3>2, <3>3, AppendLegal
  <2>5. QED
    BY <2>3, <2>4
<1>10. QED
  BY <1>6, <1>7, <1>8, <1>9 DEF o

(* After a handler the record of every order and its tasks still agree.    *)
LEMMA OpenHandler ==
  ASSUME TypeOK, OpenInv, NEW w \in PlacedWires, ~track[placed[w]].terminal,
         \/ Accepts(w) \/ Cancels(w) \/ Defers(w)
         \/ \E e \in Execs : Fills(w, e)
  PROVE  \A v \in PlacedWires : OpenIn(tasks', States, placed[v], track'[placed[v]])
<1> DEFINE o == placed[w]
<1>1. /\ tasks \in Seq(Tasks) /\ o \in Orders
      /\ track \in [Orders -> Tracking] /\ track[o] \in Tracking
      /\ OpenIn(tasks, States, o, track[o])
      /\ \A v \in PlacedWires : OpenIn(tasks, States, placed[v], track[placed[v]])
      /\ \A v \in PlacedWires : placed[v] \in Orders
  BY PlacedOrder DEF TypeOK, OpenInv
<1>2. /\ ~track[o].accepted => States[o] = "SUBMITTED" /\ None(tasks, o)
      /\ track[o].accepted =>
           States[o] \in Accepted \/ \E i \in DOMAIN tasks : Acknowledges(tasks, o, i)
  BY <1>1, OpenReports
<1> HIDE DEF o
<1>3. ASSUME NEW t \in Tasks, t.order = o, tasks' = Append(tasks, t),
             track'[o].terminal, \A p \in Orders : p # o => track'[p] = track[p]
      PROVE  \A v \in PlacedWires : OpenIn(tasks', States, placed[v], track'[placed[v]])
  <2> SUFFICES ASSUME NEW v \in PlacedWires
               PROVE  OpenIn(tasks', States, placed[v], track'[placed[v]])
    OBVIOUS
  <2>1. CASE placed[v] = o
    BY <1>3, <2>1 DEF OpenIn
  <2>2. CASE placed[v] # o
    BY <1>1, <1>3, <2>2, AppendOpen
  <2>3. QED
    BY <2>1, <2>2
<1>4. ASSUME track' = [track EXCEPT ![o].terminal = TRUE]
      PROVE  track'[o].terminal /\ \A p \in Orders : p # o => track'[p] = track[p]
  BY <1>1, <1>4 DEF Tracking
<1>5. CASE Cancels(w)
  <2>1. \E t \in Tasks : t.order = o /\ tasks' = Append(tasks, t)
    BY <1>5, KnownTasks DEF Cancels, TaskOK, o
  <2>2. QED
    BY <1>3, <1>4, <1>5, <2>1 DEF Cancels, o
<1>6. CASE Defers(w)
  <2>1. \E t \in Tasks : t.order = o /\ tasks' = Append(tasks, t)
    BY <1>6, KnownTasks DEF Defers, TaskOK, o
  <2>2. QED
    BY <1>3, <1>4, <1>6, <2>1 DEF Defers, o
<1>7. CASE Accepts(w)
  <2> DEFINE t == NewTask(w, "ACCEPTED", NoExec, "none", 0)
  <2>1. /\ t \in Tasks /\ t.order = o /\ t.ev.kind = "ACCEPTED"
    BY KnownTasks DEF TaskOK, o
  <2>2. /\ tasks' = Append(tasks, t) /\ ~track[o].accepted
        /\ track'[o].accepted /\ \A p \in Orders : p # o => track'[p] = track[p]
    BY <1>1, <1>7 DEF Accepts, o, Tracking
  <2> HIDE DEF t
  <2>3. /\ Len(tasks) + 1 \in DOMAIN tasks' /\ tasks'[Len(tasks) + 1] = t
    BY <1>1, <2>1, <2>2, BackOfQueue
  <2>4. OpenIn(tasks', States, o, track'[o])
    BY <1>2, <2>1, <2>2, <2>3 DEF OpenIn, Acknowledges
  <2>5. \A v \in PlacedWires : placed[v] # o => OpenIn(tasks', States, placed[v], track'[placed[v]])
    BY <1>1, <2>1, <2>2, AppendOpen
  <2>6. QED
    BY <2>4, <2>5
<1>8. ASSUME NEW e \in Execs, Fills(w, e)
      PROVE  \A v \in PlacedWires : OpenIn(tasks', States, placed[v], track'[placed[v]])
  <2> DEFINE q == AcceptedQueue(w)
             t == NewTask(w, FillKind(w, e), e, "none", 0)
             ack == NewTask(w, "ACCEPTED", NoExec, "none", 0)
  <2>1. /\ t \in Tasks /\ t.order = o
        /\ ack \in Tasks /\ ack.order = o /\ ack.ev.kind = "ACCEPTED"
    BY KnownTasks DEF TaskOK, o
  <2>2. /\ tasks' = Append(q, t) /\ \A p \in Orders : p # o => track'[p] = track[p]
    BY <1>1, <1>8 DEF Fills, o
  <2>3. track'[o].accepted
    BY <1>1, <1>8 DEF Fills, o
  <2>4. q = IF track[o].accepted THEN tasks ELSE Append(tasks, ack)
    BY DEF AcceptedQueue, o
  <2> HIDE DEF q, t, ack
  <2>5. q \in Seq(Tasks)
    BY <1>1, <2>1, <2>4, BackOfQueue
  <2>6. \A i \in DOMAIN q : i \in DOMAIN tasks' /\ tasks'[i] = q[i]
    BY <2>1, <2>2, <2>5, BackOfQueue
  <2>7. CASE track[o].accepted
    <3>1. States[o] \in Accepted \/ \E i \in DOMAIN tasks' : Acknowledges(tasks', o, i)
      BY <1>2, <2>4, <2>6, <2>7 DEF Acknowledges
    <3>2. OpenIn(tasks', States, o, track'[o])
      <4>1. CASE track[o].terminal
        BY <4>1 DEF o
      <4>2. CASE States[o] \in Accepted
        BY <2>3, <4>2 DEF OpenIn
      <4>3. CASE States[o] \notin Accepted
        BY <1>1, <2>3, <2>7, <3>1, <4>3 DEF OpenIn, o
      <4>4. QED
        BY <4>1, <4>2, <4>3
    <3>3. QED
      BY <1>1, <2>1, <2>2, <2>4, <2>7, <3>2, AppendOpen
  <2>8. CASE ~track[o].accepted
    <3>1. \E i \in DOMAIN q : Acknowledges(q, o, i)
      BY <1>1, <2>1, <2>4, <2>8, BackOfQueue DEF Acknowledges
    <3>2. OpenIn(tasks', States, o, track'[o])
      BY <1>2, <2>3, <2>6, <2>8, <3>1 DEF OpenIn, Acknowledges
    <3>3. ASSUME NEW v \in PlacedWires, placed[v] # o
          PROVE  OpenIn(tasks', States, placed[v], track'[placed[v]])
      <4>1. OpenIn(q, States, placed[v], track[placed[v]])
        BY <1>1, <2>1, <2>4, <2>8, <3>3, AppendOpen
      <4>2. QED
        BY <1>1, <2>1, <2>2, <2>5, <3>3, <4>1, AppendOpen
    <3>4. QED
      BY <3>2, <3>3
  <2>9. QED
    BY <2>7, <2>8
<1>9. QED
  BY <1>5, <1>6, <1>7, <1>8

(* The oldest task leaves the queue: it was the ack the others waited for, *)
(* a fill, or the last task of its order.                                  *)
LEMMA TailLegal ==
  ASSUME NEW q \in Seq(Tasks), q # <<>>, NEW st, NEW st2, Legal(q, st),
         \A p \in Orders : p # q[1].order => st2[p] = st[p],
         \/ None(Tail(q), q[1].order)
         \/ st2[q[1].order] \in Accepted
  PROVE  Legal(Tail(q), st2)
<1> DEFINE r == Tail(q)
           o == q[1].order
<1>1. /\ DOMAIN q = 1..Len(q) /\ DOMAIN r = 1..(Len(q) - 1) /\ Len(q) \in Nat \ {0}
      /\ \A i \in DOMAIN r : r[i] = q[i + 1]
  OBVIOUS
<1> HIDE DEF r
<1>2. \A i \in DOMAIN r : i + 1 \in DOMAIN q /\ 1 < i + 1 /\ 1 \in DOMAIN q /\ 1 # i + 1
  BY <1>1
<1>3. SUFFICES ASSUME NEW i \in DOMAIN r PROVE LegalIn(r, st2, i)
  BY DEF Legal, r
<1>4. LegalIn(q, st, i + 1) /\ r[i] = q[i + 1]
  BY <1>1, <1>2 DEF Legal
<1>5. \A j \in DOMAIN r : /\ r[j] = q[j + 1] /\ j + 1 \in DOMAIN q
                          /\ (j < i => j + 1 < i + 1) /\ (j # i => j + 1 # i + 1)
  BY <1>1, <1>2
<1>6. CASE r[i].order = o
  <2>1. st2[o] \in Accepted
    BY <1>6 DEF None, r
  <2>2. r[i].ev.kind # "ACCEPTED" /\ r[i].ev.kind # "REJECTED" /\ r[i].ev.kind # "SUBMITTED"
    BY <1>2, <1>4, <1>6 DEF LegalIn
  <2>3. QED
    BY <1>6, <2>1, <2>2 DEF LegalIn, Accepted, Reporting
<1>7. CASE r[i].order # o
  <2>1. st2[r[i].order] = st[r[i].order]
    <3>1. q[i + 1] \in Tasks
      BY <1>2
    <3>2. r[i].order \in Orders
      BY <1>4, <3>1 DEF Tasks
    <3>3. QED
      BY <1>7, <3>2
  <2> DEFINE p == r[i].order
  <2>2. \A j \in DOMAIN q : j < i + 1 /\ Acknowledges(q, p, j) =>
          \E k \in DOMAIN r : k < i /\ Acknowledges(r, p, k)
    <3> SUFFICES ASSUME NEW j \in DOMAIN q, j < i + 1, Acknowledges(q, p, j)
                 PROVE  \E k \in DOMAIN r : k < i /\ Acknowledges(r, p, k)
      OBVIOUS
    <3>1. j # 1
      BY <1>7 DEF Acknowledges
    <3>2. j - 1 \in DOMAIN r /\ (j - 1) + 1 = j /\ j - 1 < i
      BY <1>1, <3>1
    <3>3. r[j - 1] = q[j]
      BY <1>1, <3>2
    <3>4. QED
      BY <3>2, <3>3 DEF Acknowledges
  <2>3. QED
    BY <1>4, <1>5, <2>1, <2>2 DEF LegalIn
<1>8. QED
  BY <1>6, <1>7

LEMMA TailOpen ==
  ASSUME NEW q \in Seq(Tasks), q # <<>>, NEW st, NEW st2, NEW o, NEW record,
         OpenIn(q, st, o, record), o # q[1].order, st2[o] = st[o]
  PROVE  OpenIn(Tail(q), st2, o, record)
<1>1. \A i \in DOMAIN Tail(q) : i + 1 \in DOMAIN q /\ Tail(q)[i] = q[i + 1]
  OBVIOUS
<1>2. \A i \in DOMAIN q : i # 1 => i - 1 \in DOMAIN Tail(q) /\ Tail(q)[i - 1] = q[i]
  OBVIOUS
<1>3. None(q, o) => None(Tail(q), o)
  BY <1>1 DEF None
<1>4. (\E i \in DOMAIN q : Acknowledges(q, o, i)) =>
        \E i \in DOMAIN Tail(q) : Acknowledges(Tail(q), o, i)
  BY <1>2 DEF Acknowledges
<1>5. QED
  BY <1>3, <1>4 DEF OpenIn

(* What StateOf makes of a put.                                            *)
KindState(kind) == IF kind = "PARTIAL_FILL" THEN "PARTIALLY_FILLED" ELSE kind

LEMMA StateOfPut ==
  ASSUME TypeOK, NEW o \in Orders, NEW ev, Emit(o, ev), UNCHANGED tries
  PROVE  States' = [States EXCEPT ![o] = KindState(ev.kind)]
<1>1. emitted \in [Orders -> Seq(Events)] /\ emitted' = [emitted EXCEPT ![o] = Append(@, ev)]
  BY DEF TypeOK, Emit
<1>2. /\ \A p \in Orders : p # o => emitted'[p] = emitted[p]
      /\ emitted'[o] = Append(emitted[o], ev) /\ emitted[o] \in Seq(Events)
  BY <1>1
<1>3. /\ emitted'[o] # <<>> /\ emitted'[o][Len(emitted'[o])] = ev
  BY <1>2
<1>4. StateOf(o)' = KindState(ev.kind)
  BY <1>3 DEF StateOf, KindState
<1>5. ASSUME NEW p \in Orders, p # o PROVE StateOf(p)' = StateOf(p)
  BY <1>2, <1>5 DEF StateOf
<1>6. QED
  BY <1>4, <1>5 DEF States

LEMMA StatesStand ==
  ASSUME UNCHANGED <<emitted, tries>>
  PROVE  States' = States
BY DEF States, StateOf

(* A put or a turn of the oldest task.                                     *)
LEMMA HeadOfQueue ==
  ASSUME TypeOK, WireInv, QueueInv, StreamInv, tasks # <<>>
  PROVE  /\ tasks \in Seq(Tasks) /\ Head(tasks) = tasks[1] /\ tasks[1] \in Tasks
         /\ 1 \in DOMAIN tasks /\ tasks[1].order \in Orders
         /\ \E w \in PlacedWires : w = tasks[1].ev.wire /\ placed[w] = tasks[1].order
         /\ tasks[1].ev.kind \in TerminalKinds =>
              track[tasks[1].order].terminal /\ None(Tail(tasks), tasks[1].order)
<1>1. /\ tasks \in Seq(Tasks) /\ Head(tasks) = tasks[1] /\ tasks[1] \in Tasks
      /\ 1 \in DOMAIN tasks
  BY HeadFacts DEF TypeOK
<1>2. /\ tasks[1].order \in Orders /\ tasks[1].ev.wire \in PlacedWires
      /\ placed[tasks[1].ev.wire] = tasks[1].order
      /\ tasks[1].ev.kind \in TerminalKinds => track[tasks[1].order].terminal
  BY <1>1 DEF QueueInv, Tasks
<1>3. ASSUME tasks[1].ev.kind \in TerminalKinds
      PROVE  None(Tail(tasks), tasks[1].order)
  <2>1. \A i \in DOMAIN Tail(tasks) : Tail(tasks)[i].ev.wire # tasks[1].ev.wire
    BY <1>1, <1>3, TailOK
  <2>2. \A i \in DOMAIN Tail(tasks) :
          \E j \in DOMAIN tasks : Tail(tasks)[i] = tasks[j]
    BY HeadFacts
  <2>3. \A j \in DOMAIN tasks : trade[tasks[j].order] = tasks[j].ev.wire
    BY DEF QueueInv, WireInv
  <2>4. QED
    BY <1>1, <2>1, <2>2, <2>3 DEF None
<1>4. QED
  BY <1>1, <1>2, <1>3

LEMMA WalkPut ==
  ASSUME IInv, Legal(tasks, States), OpenInv, PutTask
  PROVE  /\ Legal(tasks', States')
         /\ \A w \in PlacedWires : OpenIn(tasks', States', placed[w], track[placed[w]])
<1> USE DEF IInv
<1> DEFINE t == tasks[1]
           o == t.order
<1>1. /\ tasks # <<>> /\ tasks' = Tail(tasks) /\ Emit(o, PutEvent(t)) /\ UNCHANGED tries
      /\ tasks \in Seq(Tasks)
  BY HeadOfQueue DEF PutTask
<1>2. /\ t \in Tasks /\ o \in Orders /\ PutEvent(t).kind = t.ev.kind /\ 1 \in DOMAIN tasks
  <2>1. t \in Tasks /\ o \in Orders /\ 1 \in DOMAIN tasks
    BY <1>1, HeadOfQueue
  <2>2. QED
    BY <2>1 DEF PutEvent, Tasks, EventsFor
<1>3. States' = [States EXCEPT ![o] = KindState(t.ev.kind)]
  BY <1>1, <1>2, StateOfPut
<1>4. States'[o] = KindState(t.ev.kind) /\ \A p \in Orders : p # o => States'[p] = States[p]
  BY <1>2, <1>3 DEF States
<1>5. /\ t.ev.kind \in Kinds /\ LegalIn(tasks, States, 1)
      /\ t.ev.kind # "SUBMITTED"
  BY <1>2 DEF Tasks, EventsFor, Legal, LegalIn
<1>6. t.ev.kind \in TerminalKinds => track[o].terminal /\ None(Tail(tasks), o)
  BY <1>1, HeadOfQueue
<1>7. t.ev.kind \notin TerminalKinds => States'[o] \in Accepted
  BY <1>4, <1>5 DEF Kinds, TerminalKinds, KindState, Accepted
<1> HIDE DEF t, o
<1>8. Legal(tasks', States')
  <2>1. None(Tail(tasks), o) \/ States'[o] \in Accepted
    BY <1>6, <1>7
  <2>2. Legal(Tail(tasks), States')
    BY <1>1, <1>4, <2>1, TailLegal DEF t, o
  <2>3. QED
    BY <1>1, <2>2
<1>9. ASSUME NEW w \in PlacedWires
      PROVE  OpenIn(tasks', States', placed[w], track[placed[w]])
  <2>1. OpenIn(tasks, States, placed[w], track[placed[w]])
    BY DEF OpenInv
  <2>2. CASE placed[w] # o
    BY <1>1, <1>4, <2>1, <2>2, TailOpen, PlacedOrder DEF t, o
  <2>3. CASE placed[w] = o
    <3>1. CASE track[o].terminal
      BY <2>3, <3>1 DEF OpenIn
    <3>2. CASE ~track[o].terminal
      <4>1. States'[o] \in Accepted
        BY <1>6, <1>7, <3>2
      <4>2. track[o].accepted
        BY <1>2, <2>1, <2>3, <3>2 DEF OpenIn, None, t, o
      <4>3. QED
        BY <2>3, <4>1, <4>2 DEF OpenIn
    <3>3. QED
      BY <3>1, <3>2
  <2>4. QED
    BY <2>2, <2>3
<1>10. QED
  BY <1>8, <1>9

LEMMA WalkYield ==
  ASSUME IInv, Legal(tasks, States), OpenInv, YieldTask
  PROVE  /\ Legal(tasks', States)
         /\ \A w \in PlacedWires : OpenIn(tasks', States, placed[w], track[placed[w]])
<1> USE DEF IInv
<1> DEFINE t == [Head(tasks) EXCEPT !.left = @ - 1]
           q == Tail(tasks)
           o == tasks[1].order
<1>1. /\ tasks # <<>> /\ tasks' = Append(q, t) /\ Head(tasks).left > 0
  BY DEF YieldTask, Yielding
<1>2. /\ tasks \in Seq(Tasks) /\ q \in Seq(Tasks) /\ 1 \in DOMAIN tasks /\ o \in Orders
      /\ Head(tasks) = tasks[1] /\ tasks[1] \in Tasks
  BY <1>1, HeadOfQueue, HeadFacts
<1>3. /\ t \in Tasks /\ t.order = o /\ t.ev = tasks[1].ev
  <2>1. Head(tasks).left - 1 \in 0..InactiveYields
    BY <1>1, <1>2 DEF Tasks, InactiveYields
  <2>2. QED
    BY <1>2, <2>1 DEF Tasks
<1>4. t.ev.kind \in TerminalKinds /\ track[o].terminal /\ None(q, o)
  <2>1. tasks[1].ev.kind \in TerminalKinds
    BY <1>1, <1>2 DEF QueueInv
  <2>2. QED
    BY <1>1, <1>3, <2>1, HeadOfQueue
<1>5. LegalIn(tasks, States, 1) /\ Legal(q, States)
  <2>1. Legal(q, States)
    BY <1>1, <1>2, <1>4, TailLegal
  <2>2. QED
    BY <1>2, <2>1 DEF Legal
<1> HIDE DEF t, q
<1>6. /\ t.ev.kind # "SUBMITTED" /\ States[o] \in Reporting
      /\ t.ev.kind # "ACCEPTED" /\ t.ev.kind # "PARTIAL_FILL"
      /\ t.ev.kind = "REJECTED" => States[o] = "SUBMITTED"
  BY <1>3, <1>4, <1>5 DEF LegalIn, TerminalKinds
<1>7. t.ev.kind = "FILLED" => States[o] \in Accepted
  <2>1. \A j \in DOMAIN tasks : ~(j < 1)
    BY <1>2
  <2>2. QED
    BY <1>3, <1>5, <2>1 DEF LegalIn
<1>8. Legal(Append(q, t), States)
  <2>1. q \in Seq(Tasks) /\ t \in Tasks /\ t.order = o
    BY <1>2, <1>3 DEF q
  <2>2. \A i \in DOMAIN q : q[i].ev.kind = "REJECTED" => q[i].order # t.order
    BY <1>4, <2>1 DEF None
  <2>3. QED
    BY <1>4, <1>5, <1>6, <1>7, <2>1, <2>2, AppendLegal
<1>9. ASSUME NEW w \in PlacedWires
      PROVE  OpenIn(Append(q, t), States, placed[w], track[placed[w]])
  <2>1. CASE placed[w] = o
    BY <1>4, <2>1 DEF OpenIn
  <2>2. CASE placed[w] # o
    <3>1. OpenIn(q, States, placed[w], track[placed[w]])
      BY <1>1, <1>2, <2>2, TailOpen DEF OpenInv, q
    <3>2. q \in Seq(Tasks) /\ t \in Tasks /\ t.order = o
      BY <1>2, <1>3 DEF q
    <3>3. QED
      BY <2>2, <3>1, <3>2, AppendOpen
  <2>3. QED
    BY <2>1, <2>2
<1>10. QED
  BY <1>1, <1>8, <1>9 DEF q, t

(* The conditions of the refinement: an id is submitted once, and Inactive *)
(* comes before the acknowledgement or not at all.                         *)
OneSubmit == MaxSubmits = 1 /\ ConcurrentReuse = FALSE /\ LateInactive = FALSE

(* A step of an order about which nothing is queued or tracked as open.    *)
LEMMA QuietOrder ==
  ASSUME NEW q \in Seq(Tasks), NEW st, NEW st2, Legal(q, st), NEW o,
         st[o] \notin Reporting, \A p \in Orders : p # o => st2[p] = st[p]
  PROVE  /\ Legal(q, st2) /\ None(q, o)
         /\ \A p \in Orders : \A record :
              OpenIn(q, st, p, record) => OpenIn(q, st2, p, record)
<1>1. None(q, o)
  BY DEF None, Legal, LegalIn
<1>2. \A i \in DOMAIN q : q[i].order \in Orders
  <2>1. \A i \in DOMAIN q : q[i] \in Tasks
    OBVIOUS
  <2>2. QED
    BY <2>1 DEF Tasks
<1>3. \A i \in DOMAIN q : st2[q[i].order] = st[q[i].order]
  BY <1>1, <1>2 DEF None
<1>4. Legal(q, st2)
  BY <1>3 DEF Legal, LegalIn
<1>5. ASSUME NEW p \in Orders, NEW record, OpenIn(q, st, p, record)
      PROVE  OpenIn(q, st2, p, record)
  <2>1. CASE p # o
    BY <1>5, <2>1 DEF OpenIn
  <2>2. CASE p = o
    BY <1>5, <2>2, OpenReports DEF OpenIn
  <2>3. QED
    BY <2>1, <2>2
<1>6. QED
  BY <1>1, <1>4, <1>5

(* A coroutine inside submit: its order has put nothing yet.               *)
LEMMA PendingState ==
  ASSUME TypeOK, PendingInv, NEW c \in Callers, Submitting(c)
  PROVE  call[c].order \in Orders /\ States[call[c].order] = "SUBMIT_PENDING"
<1>1. call[c].order \in Orders
  BY NoneAssumption DEF TypeOK, Submitting, Calls, Idle
<1>2. QED
  BY <1>1 DEF PendingInv, States, StateOf

LEMMA UnsentState ==
  ASSUME OneSubmit, TypeOK, PendingInv, NEW c \in Callers, NEW o \in Orders, SubmitCall(c, o)
  PROVE  /\ tries[o] = 0 /\ emitted[o] = <<>> /\ States[o] = "INITIALIZED"
         /\ States' = [States EXCEPT ![o] = "SUBMIT_PENDING"]
<1>1. /\ tries \in [Orders -> 0..MaxSubmits] /\ tries[o] < 1
      /\ tries' = [tries EXCEPT ![o] = @ + 1] /\ UNCHANGED emitted
  BY DEF SubmitCall, TypeOK, OneSubmit
<1>2. tries[o] = 0 /\ emitted[o] = <<>>
  <2>1. tries[o] \in 0..MaxSubmits
    BY <1>1
  <2>2. QED
    BY <1>1, <2>1, BoundsAssumption DEF PendingInv
<1>3. /\ tries'[o] = 1 /\ \A p \in Orders : p # o => tries'[p] = tries[p]
  BY <1>1, <1>2
<1>4. /\ StateOf(o)' = "SUBMIT_PENDING"
      /\ \A p \in Orders : p # o => StateOf(p)' = StateOf(p)
  BY <1>1, <1>2, <1>3 DEF StateOf
<1>5. QED
  BY <1>2, <1>4 DEF States, StateOf

(* Placing and the price lookup's refusal put the first event of an order. *)
LEMMA FirstPut ==
  ASSUME IInv, PendingInv, NEW c \in Callers, SnapUnavailable(c) \/ Place(c)
  PROVE  /\ Submitting(c) /\ call[c].order \in Orders
         /\ States' = [States EXCEPT ![call[c].order] =
                         IF SnapUnavailable(c) THEN "REJECTED" ELSE "SUBMITTED"]
         /\ \A p \in Orders : p # call[c].order => emitted'[p] = emitted[p]
         /\ UNCHANGED <<tries, tasks>>
         /\ call' = [call EXCEPT ![c] = Idle]
<1> USE DEF IInv
<1>1. Submitting(c) /\ call[c].order \in Orders
  <2>1. Submitting(c)
    BY DEF SnapUnavailable, Place, Submitting
  <2>2. QED
    BY <2>1, PendingState
<1>2. CASE SnapUnavailable(c)
  <2>1. /\ Emit(call[c].order, Event("REJECTED", NoWire, NoExec, "price_rule"))
        /\ UNCHANGED <<tries, tasks>> /\ call' = [call EXCEPT ![c] = Idle]
    BY <1>2 DEF SnapUnavailable
  <2>2. /\ States' = [States EXCEPT ![call[c].order] =
                        KindState(Event("REJECTED", NoWire, NoExec, "price_rule").kind)]
    BY <1>1, <2>1, StateOfPut
  <2>3. KindState(Event("REJECTED", NoWire, NoExec, "price_rule").kind) = "REJECTED"
    BY DEF Event, KindState
  <2>4. \A p \in Orders : p # call[c].order => emitted'[p] = emitted[p]
    BY <1>1, <2>1, EmitFacts
  <2>5. QED
    BY <1>1, <1>2, <2>1, <2>2, <2>3, <2>4
<1>3. CASE Place(c)
  <2>1. /\ Emit(call[c].order, Event("SUBMITTED", Len(placed) + 1, NoExec, "none"))
        /\ UNCHANGED <<tries, tasks>> /\ call' = [call EXCEPT ![c] = Idle]
        /\ call[c].pc # "snap"
    BY <1>3 DEF Place
  <2>2. /\ States' = [States EXCEPT ![call[c].order] =
                   KindState(Event("SUBMITTED", Len(placed) + 1, NoExec, "none").kind)]
    BY <1>1, <2>1, StateOfPut
  <2>3. KindState(Event("SUBMITTED", Len(placed) + 1, NoExec, "none").kind) = "SUBMITTED"
    BY DEF Event, KindState
  <2>4. \A p \in Orders : p # call[c].order => emitted'[p] = emitted[p]
    BY <1>1, <2>1, EmitFacts
  <2>5. ~SnapUnavailable(c)
    BY <2>1 DEF SnapUnavailable
  <2>6. QED
    BY <1>1, <2>1, <2>2, <2>3, <2>4, <2>5
<1>4. QED
  BY <1>2, <1>3

(* PendingInv, step by step.                                               *)
LEMMA PendingStep ==
  ASSUME OneSubmit, IInv, PendingInv, Legal(tasks, States), [Next]_vars
  PROVE  PendingInv'
<1> USE DEF IInv
<1>1. CASE UNCHANGED <<tries, emitted, call>>
  BY <1>1 DEF PendingInv, Submitting
<1>2. ASSUME UNCHANGED <<tries, emitted>>, NEW c \in Callers, NEW x,
             ~(x.pc \in {"snap", "token"}) \/ (Submitting(c) /\ x.order = call[c].order),
             call' = [call EXCEPT ![c] = x]
      PROVE  PendingInv'
  <2>1. call \in [Callers -> Calls]
    BY DEF TypeOK
  <2>2. \A d \in Callers : Submitting(d)' => Submitting(d) /\ call'[d].order = call[d].order
    BY <1>2, <2>1 DEF Submitting
  <2>3. QED
    BY <1>2, <2>2 DEF PendingInv
<1>3. CASE Connect \/ Disconnect \/ YieldTask \/ UNCHANGED vars
  BY <1>1, <1>3 DEF Connect, Disconnect, YieldTask, vars, broker
<1>4. CASE PutTask
  <2>1. tasks # <<>> /\ Emit(Head(tasks).order, PutEvent(Head(tasks))) /\ UNCHANGED <<tries, call>>
    BY <1>4 DEF PutTask
  <2>2. PICK w \in PlacedWires : placed[w] = tasks[1].order
    BY <2>1, HeadOfQueue
  <2>3. /\ Head(tasks) = tasks[1] /\ tasks[1].order \in Orders /\ 1 \in DOMAIN tasks
    BY <2>1, HeadOfQueue
  <2>4. \A p \in Orders : p # tasks[1].order => emitted'[p] = emitted[p]
    BY <2>1, <2>3, EmitFacts
  <2>5. States[tasks[1].order] \in Reporting
    BY <2>3 DEF Legal, LegalIn
  <2>6. tries[tasks[1].order] # 0
    BY <2>3, <2>5 DEF PendingInv, States, StateOf, Reporting
  <2>7. \A d \in Callers : Submitting(d) => call[d].order # tasks[1].order
    BY <2>3, <2>5, PendingState DEF Reporting
  <2>8. \A d \in Callers : Submitting(d) => call[d].order \in Orders
    BY PendingState
  <2>9. QED
    BY <2>1, <2>4, <2>6, <2>7, <2>8 DEF PendingInv, Submitting
<1>5. ASSUME NEW c \in Callers, SnapDone(c) PROVE PendingInv'
  <2>1. call[c] \in [pc : {"snap", "token"}, order : Orders, wire : {NoWire}]
    BY <1>5 DEF SnapDone, TypeOK, Calls, Idle
  <2> DEFINE x == [call[c] EXCEPT !.pc = "token"]
  <2>2. /\ UNCHANGED <<tries, emitted>> /\ call' = [call EXCEPT ![c] = x]
    BY <1>5, <2>1 DEF SnapDone, TypeOK
  <2>3. Submitting(c) /\ x.order = call[c].order
    BY <2>1 DEF Submitting
  <2> HIDE DEF x
  <2>4. QED
    BY <1>2, <2>2, <2>3
<1>6. ASSUME NEW c \in Callers, CallRaises(c) \/ CancelSend(c) PROVE PendingInv'
  <2>1. /\ UNCHANGED <<tries, emitted>> /\ call' = [call EXCEPT ![c] = Idle]
    BY <1>6 DEF CallRaises, CancelSend
  <2>2. ~(Idle.pc \in {"snap", "token"})
    BY DEF Idle
  <2>3. QED
    BY <1>2, <2>1, <2>2
<1>7. ASSUME NEW c \in Callers, NEW o \in Orders, CancelCall(c, o) PROVE PendingInv'
  <2> DEFINE x == [pc |-> "cancel", order |-> o, wire |-> trade[o]]
  <2>1. UNCHANGED <<tries, emitted>> /\ call' = [call EXCEPT ![c] = x]
    BY <1>7 DEF CancelCall
  <2>2. ~(x.pc \in {"snap", "token"})
    OBVIOUS
  <2> HIDE DEF x
  <2>3. QED
    BY <1>2, <2>1, <2>2
<1>8. ASSUME NEW c \in Callers, NEW o \in Orders, SubmitCall(c, o) PROVE PendingInv'
  <2>1. /\ tries[o] = 0 /\ emitted[o] = <<>> /\ UNCHANGED emitted
        /\ tries' = [tries EXCEPT ![o] = @ + 1] /\ tries \in [Orders -> 0..MaxSubmits]
    BY <1>8, UnsentState DEF SubmitCall, TypeOK
  <2>2. PICK pc \in {"snap", "token"} :
          call' = [call EXCEPT ![c] = [pc |-> pc, order |-> o, wire |-> NoWire]]
    BY <1>8 DEF SubmitCall
  <2>3. tries'[o] # 0 /\ \A p \in Orders : p # o => tries'[p] = tries[p]
    BY <2>1
  <2>4. \A d \in Callers : \/ d = c /\ call'[d].order = o
                           \/ d # c /\ call'[d] = call[d]
    BY <2>2 DEF TypeOK
  <2>5. \A d \in Callers : Submitting(d) => call[d].order \in Orders
    BY PendingState
  <2>6. \A d \in Callers : Submitting(d)' =>
          tries'[call'[d].order] # 0 /\ emitted[call'[d].order] = <<>>
    BY <2>1, <2>3, <2>4, <2>5 DEF PendingInv, Submitting
  <2>7. QED
    BY <2>1, <2>3, <2>6 DEF PendingInv
<1>9. ASSUME NEW c \in Callers, SnapUnavailable(c) \/ Place(c) PROVE PendingInv'
  <2>1. /\ Submitting(c) /\ call[c].order \in Orders /\ UNCHANGED tries
        /\ \A p \in Orders : p # call[c].order => emitted'[p] = emitted[p]
        /\ call' = [call EXCEPT ![c] = Idle]
    BY <1>9, FirstPut
  <2>2. \A d \in Callers : Submitting(d)' => d # c /\ call'[d] = call[d] /\ Submitting(d)
    BY <2>1 DEF Submitting, TypeOK, Idle
  <2>3. \A d \in Callers : Submitting(d)' => call[d].order \in Orders /\ call[d].order # call[c].order
    BY <2>1, <2>2, PendingState DEF CallInv
  <2>4. tries[call[c].order] # 0
    BY <2>1 DEF PendingInv
  <2>5. QED
    BY <2>1, <2>2, <2>3, <2>4 DEF PendingInv
<1>10. ASSUME NEW w \in Wires,
              \/ VenueAccept(w) \/ VenueCancel(w)
              \/ \E e \in Execs : VenueExecute(w, e) \/ DeliverFill(w, e)
              \/ \E b \in BOOLEAN : VenueInactive(w, b) \/ VenueError(w, b)
       PROVE  PendingInv'
  BY <1>1, <1>10 DEF VenueAccept, VenueCancel, VenueExecute, DeliverFill, VenueInactive,
                     VenueError, AtVenue, broker
<1>11. QED
  BY <1>3, <1>4, <1>5, <1>6, <1>7, <1>8, <1>9, <1>10 DEF Next

(* The handlers' steps: the venue's actions that call one.                 *)
LEMMA WalkVenue ==
  ASSUME IInv, Legal(tasks, States), OpenInv, NEW w \in PlacedWires,
         \/ OnAccepted(w) \/ OnCancelled(w)
         \/ OnInactive(w) /\ vstate[w] = "sent" /\ executed[w] = {}
         \/ \E e \in Execs : OnFill(w, e),
         UNCHANGED <<placed, emitted, tries>>,
         \A v \in PlacedWires : vstate[v] # "sent" => vstate'[v] # "sent",
         \A v \in PlacedWires : executed[v] # {} => executed'[v] # {},
         track'[placed[w]].accepted /\ ~track[placed[w]].accepted =>
           vstate'[w] # "sent" \/ executed'[w] # {}
  PROVE  Legal(tasks', States') /\ OpenInv'
<1> USE DEF IInv
<1>1. States' = States /\ PlacedWires' = PlacedWires
  BY StatesStand DEF PlacedWires
<1>2. CASE UNCHANGED <<track, tasks, stash>>
  <2>1. UNCHANGED <<track, tasks>>
    BY <1>2
  <2>2. Legal(tasks', States')
    BY <1>1, <2>1
  <2>3. \A v \in PlacedWires :
          /\ OpenIn(tasks', States', placed'[v], track'[placed'[v]])
          /\ track'[placed'[v]].accepted => vstate'[v] # "sent" \/ executed'[v] # {}
    BY <1>1, <2>1 DEF OpenInv
  <2>4. QED
    BY <1>1, <2>2, <2>3 DEF OpenInv
<1>3. CASE ~UNCHANGED <<track, tasks, stash>>
  <2>1. ~track[placed[w]].terminal
    BY <1>3, HandlerCases
  <2>2. \/ Accepts(w) \/ Cancels(w)
        \/ Defers(w) /\ ~track[placed[w]].accepted
        \/ \E e \in Execs : Fills(w, e)
    <3>1. vstate[w] = "sent" /\ executed[w] = {} => ~track[placed[w]].accepted
      BY DEF OpenInv
    <3>2. CASE OnAccepted(w)
      BY <1>3, <3>2, AcceptCase
    <3>3. CASE OnCancelled(w)
      BY <1>3, <3>3, CancelCase
    <3>4. CASE OnInactive(w) /\ vstate[w] = "sent" /\ executed[w] = {}
      BY <1>3, <3>1, <3>4, InactiveCase
    <3>5. CASE \E e \in Execs : OnFill(w, e)
      BY <1>3, <3>5, FillCases
    <3>6. QED
      BY <3>2, <3>3, <3>4, <3>5
  <2>3. Legal(tasks', States)
    BY <2>1, <2>2, LegalHandler
  <2>4. \A v \in PlacedWires : OpenIn(tasks', States, placed[v], track'[placed[v]])
    BY <2>1, <2>2, OpenHandler
  <2>5. ASSUME NEW v \in PlacedWires, track'[placed[v]].accepted
        PROVE  vstate'[v] # "sent" \/ executed'[v] # {}
    <3>1. CASE v = w
      BY <2>5, <3>1 DEF OpenInv
    <3>2. CASE v # w
      <4>1. placed[v] # placed[w] /\ placed[v] \in Orders
        BY <3>2, PlacedOrder DEF WireInv
      <4>2. track'[placed[v]] = track[placed[v]]
        BY <1>3, <4>1, HandlerQueue
      <4>3. QED
        BY <2>5, <4>2 DEF OpenInv
    <3>3. QED
      BY <3>1, <3>2
  <2>6. \A v \in PlacedWires :
          /\ OpenIn(tasks', States', placed'[v], track'[placed'[v]])
          /\ track'[placed'[v]].accepted => vstate'[v] # "sent" \/ executed'[v] # {}
    BY <1>1, <2>4, <2>5
  <2>7. QED
    BY <1>1, <2>3, <2>6 DEF OpenInv
<1>4. QED
  BY <1>2, <1>3

(* Steps that leave streams, tasks and records alone.                      *)
LEMMA WalkStands ==
  ASSUME Legal(tasks, States), OpenInv,
         UNCHANGED <<placed, emitted, tries, track, tasks, vstate>>,
         \A v \in PlacedWires : executed[v] # {} => executed'[v] # {}
  PROVE  Legal(tasks', States') /\ OpenInv'
<1>1. States' = States /\ PlacedWires' = PlacedWires
  BY StatesStand DEF PlacedWires
<1>2. \A v \in PlacedWires :
        /\ OpenIn(tasks', States', placed'[v], track'[placed'[v]])
        /\ track'[placed'[v]].accepted => vstate'[v] # "sent" \/ executed'[v] # {}
  BY <1>1 DEF OpenInv
<1>3. QED
  BY <1>1, <1>2 DEF OpenInv

LEMMA WalkQueue ==
  ASSUME IInv, Legal(tasks, States), OpenInv, YieldTask \/ PutTask
  PROVE  Legal(tasks', States') /\ OpenInv'
<1>1. UNCHANGED <<placed, track, vstate, executed>>
  BY DEF YieldTask, PutTask, venue
<1>2. /\ Legal(tasks', States')
      /\ \A w \in PlacedWires : OpenIn(tasks', States', placed[w], track[placed[w]])
  <2>1. CASE PutTask
    BY <2>1, WalkPut
  <2>2. CASE YieldTask
    <3>1. States' = States
      BY <2>2, StatesStand DEF YieldTask
    <3>2. QED
      BY <2>2, <3>1, WalkYield
  <2>3. QED
    BY <2>1, <2>2
<1>3. \A v \in PlacedWires :
        /\ OpenIn(tasks', States', placed'[v], track'[placed'[v]])
        /\ track'[placed'[v]].accepted => vstate'[v] # "sent" \/ executed'[v] # {}
  BY <1>1, <1>2 DEF OpenInv
<1>4. PlacedWires' = PlacedWires
  BY <1>1 DEF PlacedWires
<1>5. QED
  BY <1>2, <1>3, <1>4 DEF OpenInv

(* The first steps of an order.                                            *)
LEMMA WalkFirst ==
  ASSUME IInv, Legal(tasks, States), OpenInv, NEW o \in Orders,
         States[o] \notin Reporting, UNCHANGED tasks,
         \E s : States' = [States EXCEPT ![o] = s]
  PROVE  /\ Legal(tasks', States') /\ None(tasks, o)
         /\ \A p \in Orders : p # o => States'[p] = States[p]
         /\ \A w \in PlacedWires : OpenIn(tasks', States', placed[w], track[placed[w]])
<1>1. \A p \in Orders : p # o => States'[p] = States[p]
  BY DEF States
<1>2. tasks \in Seq(Tasks) /\ \A w \in PlacedWires : placed[w] \in Orders
  BY PlacedOrder DEF IInv, TypeOK
<1>3. /\ Legal(tasks, States') /\ None(tasks, o)
      /\ \A p \in Orders : \A record :
           OpenIn(tasks, States, p, record) => OpenIn(tasks, States', p, record)
  BY <1>1, <1>2, QuietOrder
<1>4. QED
  BY <1>1, <1>2, <1>3 DEF OpenInv

LEMMA WalkCall ==
  ASSUME OneSubmit, IInv, WalkInv, NEW c \in Callers,
         SnapUnavailable(c) \/ \E o \in Orders : SubmitCall(c, o)
  PROVE  Legal(tasks', States') /\ OpenInv'
<1>1. UNCHANGED <<placed, track, vstate, executed, tasks>>
  BY DEF SnapUnavailable, SubmitCall, venue
<1>2. PICK o \in Orders :
        States[o] \notin Reporting /\ \E s : States' = [States EXCEPT ![o] = s]
  <2>1. ASSUME SnapUnavailable(c)
        PROVE  /\ call[c].order \in Orders /\ States[call[c].order] \notin Reporting
               /\ \E s : States' = [States EXCEPT ![call[c].order] = s]
    BY <2>1, FirstPut, PendingState DEF IInv, WalkInv, Reporting
  <2>2. ASSUME NEW o \in Orders, SubmitCall(c, o)
        PROVE  /\ States[o] \notin Reporting
               /\ \E s : States' = [States EXCEPT ![o] = s]
    BY <2>2, UnsentState DEF IInv, WalkInv, Reporting
  <2>3. QED
    BY <2>1, <2>2
<1>3. /\ Legal(tasks', States')
      /\ \A w \in PlacedWires : OpenIn(tasks', States', placed[w], track[placed[w]])
  BY <1>1, <1>2, WalkFirst DEF WalkInv
<1>4. PlacedWires' = PlacedWires
  BY <1>1 DEF PlacedWires
<1>5. \A v \in PlacedWires :
        /\ OpenIn(tasks', States', placed'[v], track'[placed'[v]])
        /\ track'[placed'[v]].accepted => vstate'[v] # "sent" \/ executed'[v] # {}
  BY <1>1, <1>3 DEF OpenInv, WalkInv
<1>6. QED
  BY <1>3, <1>4, <1>5 DEF OpenInv

LEMMA WalkPlace ==
  ASSUME IInv, WalkInv, NEW c \in Callers, Place(c)
  PROVE  Legal(tasks', States') /\ OpenInv'
<1> USE DEF IInv, WalkInv
<1> DEFINE o == call[c].order
           w == Len(placed) + 1
<1>1. /\ Submitting(c) /\ o \in Orders /\ States' = [States EXCEPT ![o] = "SUBMITTED"]
      /\ UNCHANGED tasks
  <2>1. ~SnapUnavailable(c)
    BY DEF Place, SnapUnavailable
  <2>2. QED
    BY <2>1, FirstPut
<1>2. /\ track' = [track EXCEPT ![o] = FreshTracking] /\ UNCHANGED <<vstate, executed>>
      /\ track \in [Orders -> Tracking]
  BY DEF Place, TypeOK
<1>3. /\ PlacedWires' = PlacedWires \cup {w} /\ placed'[w] = o
      /\ \A v \in PlacedWires : placed'[v] = placed[v] /\ placed[v] # o /\ placed[v] \in Orders
  BY PlaceFacts, PlacedOrder
<1>4. States[o] \notin Reporting
  BY <1>1, PendingState DEF Reporting
<1> HIDE DEF o, w
<1>5. /\ Legal(tasks', States') /\ None(tasks, o)
      /\ \A v \in PlacedWires : OpenIn(tasks', States', placed[v], track[placed[v]])
  BY <1>1, <1>4, WalkFirst
<1>6. \A v \in PlacedWires : track'[placed'[v]] = track[placed[v]] /\ placed'[v] = placed[v]
  BY <1>2, <1>3
<1>7. States'[o] = "SUBMITTED" /\ track'[o] = FreshTracking
  BY <1>1, <1>2 DEF States
<1>8. OpenIn(tasks', States', placed'[w], track'[placed'[w]]) /\ ~track'[placed'[w]].accepted
  BY <1>1, <1>3, <1>5, <1>7 DEF OpenIn, FreshTracking, None
<1>9. \A v \in PlacedWires' :
        /\ OpenIn(tasks', States', placed'[v], track'[placed'[v]])
        /\ track'[placed'[v]].accepted => vstate'[v] # "sent" \/ executed'[v] # {}
  BY <1>2, <1>3, <1>5, <1>6, <1>8 DEF OpenInv
<1>10. QED
  BY <1>5, <1>9 DEF OpenInv

LEMMA WalkStep ==
  ASSUME OneSubmit, IInv, WalkInv, [Next]_vars
  PROVE  WalkInv'
<1>1. PendingInv'
  BY PendingStep DEF WalkInv
<1>2. SUFFICES Legal(tasks', States') /\ OpenInv'
  BY <1>1 DEF WalkInv
<1>3. CASE Connect \/ Disconnect \/ UNCHANGED vars
  BY <1>3, WalkStands DEF WalkInv, Connect, Disconnect, vars, broker, venue
<1>4. CASE YieldTask \/ PutTask
  BY <1>4, WalkQueue DEF WalkInv
<1>5. ASSUME NEW c \in Callers,
             \/ SnapDone(c) \/ CallRaises(c) \/ CancelSend(c)
             \/ \E o \in Orders : CancelCall(c, o)
      PROVE  Legal(tasks', States') /\ OpenInv'
  BY <1>5, WalkStands DEF WalkInv, SnapDone, CallRaises, CancelSend, CancelCall, venue
<1>6. ASSUME NEW c \in Callers,
             \/ SnapUnavailable(c) \/ Place(c) \/ \E o \in Orders : SubmitCall(c, o)
      PROVE  Legal(tasks', States') /\ OpenInv'
  BY <1>6, WalkCall, WalkPlace
<1>7. ASSUME NEW w \in Wires, VenueAccept(w) PROVE Legal(tasks', States') /\ OpenInv'
  <2>1. /\ w \in PlacedWires /\ OnAccepted(w) /\ UNCHANGED <<placed, emitted, tries, executed>>
        /\ vstate' = [vstate EXCEPT ![w] = "working"]
    BY <1>7 DEF VenueAccept, Live, AtVenue
  <2>2. /\ vstate'[w] # "sent"
        /\ \A v \in PlacedWires : vstate[v] # "sent" => vstate'[v] # "sent"
    BY <2>1, PlacedOrder DEF IInv, TypeOK
  <2>3. QED
    BY <2>1, <2>2, WalkVenue DEF WalkInv
<1>8. ASSUME NEW w \in Wires, VenueCancel(w) PROVE Legal(tasks', States') /\ OpenInv'
  <2>1. /\ w \in PlacedWires /\ UNCHANGED <<placed, emitted, tries, executed>>
        /\ vstate' = [vstate EXCEPT ![w] = "cancelled"]
        /\ OnCancelled(w) \/ UNCHANGED <<track, tasks>>
    BY <1>8 DEF VenueCancel, Live, AtVenue
  <2>2. /\ vstate'[w] # "sent"
        /\ \A v \in PlacedWires : vstate[v] # "sent" => vstate'[v] # "sent"
    BY <2>1, PlacedOrder DEF IInv, TypeOK
  <2>3. CASE OnCancelled(w)
    BY <2>1, <2>2, <2>3, WalkVenue DEF WalkInv
  <2>4. CASE UNCHANGED <<track, tasks>>
    <3>1. States' = States /\ PlacedWires' = PlacedWires
      BY <2>1, StatesStand DEF PlacedWires
    <3>2. \A v \in PlacedWires :
            /\ OpenIn(tasks', States', placed'[v], track'[placed'[v]])
            /\ track'[placed'[v]].accepted => vstate'[v] # "sent" \/ executed'[v] # {}
      BY <2>1, <2>2, <2>4, <3>1 DEF OpenInv, WalkInv
    <3>3. QED
      BY <2>4, <3>1, <3>2 DEF OpenInv, WalkInv
  <2>5. QED
    BY <2>1, <2>3, <2>4
<1>9. ASSUME NEW w \in Wires, NEW b \in BOOLEAN, VenueInactive(w, b)
      PROVE  Legal(tasks', States') /\ OpenInv'
  <2>1. /\ w \in PlacedWires /\ OnInactive(w) /\ UNCHANGED <<placed, emitted, tries, executed, vstate>>
        /\ vstate[w] = "sent" /\ executed[w] = {}
    BY <1>9 DEF VenueInactive, Live, AtVenue, OneSubmit
  <2>2. track'[placed[w]].accepted => track[placed[w]].accepted
    <3>1. \/ track' = track
          \/ track' = [track EXCEPT ![placed[w]].terminal = TRUE]
      BY <2>1 DEF OnInactive, Inactivate
    <3>2. track \in [Orders -> Tracking] /\ placed[w] \in Orders
      BY <2>1, PlacedOrder DEF IInv, TypeOK
    <3>3. track[placed[w]] \in Tracking
      BY <3>2
    <3>4. CASE track' = [track EXCEPT ![placed[w]].terminal = TRUE]
      <4>1. track'[placed[w]].accepted = track[placed[w]].accepted
        BY <3>2, <3>3, <3>4 DEF Tracking
      <4>2. QED
        BY <4>1
    <3>5. QED
      BY <3>1, <3>4
  <2>3. QED
    BY <2>1, <2>2, WalkVenue DEF WalkInv
<1>10. ASSUME NEW w \in Wires, NEW b \in BOOLEAN, VenueError(w, b)
       PROVE  Legal(tasks', States') /\ OpenInv'
  BY <1>10, WalkStands DEF WalkInv, VenueError, AtVenue
<1>11. ASSUME NEW w \in Wires, NEW e \in Execs, VenueExecute(w, e)
       PROVE  Legal(tasks', States') /\ OpenInv'
  <2>1. \A v \in PlacedWires : executed[v] # {} => executed'[v] # {}
    BY <1>11, PlacedOrder DEF VenueExecute, IInv, TypeOK
  <2>2. QED
    BY <1>11, <2>1, WalkStands DEF VenueExecute, WalkInv, broker
<1>12. ASSUME NEW w \in Wires, NEW e \in Execs, DeliverFill(w, e)
       PROVE  Legal(tasks', States') /\ OpenInv'
  <2>1. /\ w \in PlacedWires /\ OnFill(w, e) /\ executed'[w] # {}
        /\ UNCHANGED <<placed, emitted, tries, executed, vstate>>
    BY <1>12 DEF DeliverFill, AtVenue
  <2>2. QED
    BY <2>1, WalkVenue DEF WalkInv
<1>13. QED
  BY <1>3, <1>4, <1>5, <1>6, <1>7, <1>8, <1>9, <1>10, <1>11, <1>12 DEF Next

(* A row of the table taken is a step of the FSM.                          *)
LEMMA RowTaken ==
  ASSUME NEW o \in Orders, NEW from, NEW to, NEW event, NEW trigger \in FSM!Trigger,
         FSM!T(from, trigger, to, event) \in FSM!Transitions,
         States[o] = from, States' = [States EXCEPT ![o] = to]
  PROVE  FSM!Next
<1> DEFINE row == FSM!T(from, trigger, to, event)
<1>1. row.from = from /\ row.trigger = trigger /\ row.to = to
  BY DEF FSM!T
<1>2. row \in FSM!Transitions
  OBVIOUS
<1> HIDE DEF row
<1>3. FSM!Transition(o, trigger)
  BY <1>1, <1>2 DEF FSM!Transition, States
<1>4. QED
  BY <1>3 DEF FSM!Next

(* A put of the oldest task takes the row its kind stands for.             *)
LEMMA PutRefines ==
  ASSUME IInv, WalkInv, PutTask
  PROVE  FSM!Next
<1> USE DEF IInv, WalkInv
<1> DEFINE t == tasks[1]
           o == t.order
<1>1. /\ tasks # <<>> /\ Emit(o, PutEvent(t)) /\ UNCHANGED tries /\ 1 \in DOMAIN tasks
      /\ t \in Tasks /\ o \in Orders /\ tasks \in Seq(Tasks)
  BY HeadOfQueue DEF PutTask
<1>2. PutEvent(t).kind = t.ev.kind /\ t.ev.kind \in Kinds
  BY <1>1 DEF PutEvent, Tasks, EventsFor
<1>3. States' = [States EXCEPT ![o] = KindState(t.ev.kind)]
  BY <1>1, <1>2, StateOfPut
<1>4. LegalIn(tasks, States, 1) /\ \A j \in DOMAIN tasks : ~(j < 1)
  BY <1>1 DEF Legal
<1> HIDE DEF t
<1>5. /\ t.ev.kind # "SUBMITTED" /\ States[o] \in Reporting
      /\ t.ev.kind = "ACCEPTED" => States[o] = "SUBMITTED"
      /\ t.ev.kind \in {"PARTIAL_FILL", "FILLED"} => States[o] \in Accepted
      /\ t.ev.kind = "REJECTED" => States[o] = "SUBMITTED"
  BY <1>4 DEF LegalIn, t
<1> HIDE DEF o
<1> DEFINE step(from, trigger, to, event) ==
             trigger \in FSM!Trigger /\ FSM!T(from, trigger, to, event) \in FSM!Transitions
<1>6. CASE t.ev.kind = "ACCEPTED"
  <2>1. step("SUBMITTED", "accept", "ACCEPTED", "ACCEPTED")
    BY DEF FSM!Transitions, FSM!Trigger
  <2>2. KindState(t.ev.kind) = "ACCEPTED"
    BY <1>6 DEF KindState
  <2>3. QED
    BY <1>1, <1>3, <1>5, <1>6, <2>1, <2>2, RowTaken
<1>7. CASE t.ev.kind = "PARTIAL_FILL"
  <2>1. /\ step("ACCEPTED", "partial_fill", "PARTIALLY_FILLED", "PARTIAL_FILL")
        /\ step("PARTIALLY_FILLED", "partial_fill", "PARTIALLY_FILLED", "PARTIAL_FILL")
    BY DEF FSM!Transitions, FSM!Trigger
  <2>2. KindState(t.ev.kind) = "PARTIALLY_FILLED" /\ States[o] \in {"ACCEPTED", "PARTIALLY_FILLED"}
    BY <1>5, <1>7 DEF KindState, Accepted
  <2>3. QED
    BY <1>1, <1>3, <2>1, <2>2, RowTaken
<1>8. CASE t.ev.kind = "FILLED"
  <2>1. /\ step("ACCEPTED", "fill", "FILLED", "FILLED")
        /\ step("PARTIALLY_FILLED", "fill", "FILLED", "FILLED")
    BY DEF FSM!Transitions, FSM!Trigger
  <2>2. KindState(t.ev.kind) = "FILLED" /\ States[o] \in {"ACCEPTED", "PARTIALLY_FILLED"}
    BY <1>5, <1>8 DEF KindState, Accepted
  <2>3. QED
    BY <1>1, <1>3, <2>1, <2>2, RowTaken
<1>9. CASE t.ev.kind = "CANCELED"
  <2>1. /\ step("SUBMITTED", "cancel", "CANCELED", "CANCELED")
        /\ step("ACCEPTED", "cancel", "CANCELED", "CANCELED")
        /\ step("PARTIALLY_FILLED", "cancel", "CANCELED", "CANCELED")
    BY DEF FSM!Transitions, FSM!Trigger
  <2>2. /\ KindState(t.ev.kind) = "CANCELED"
        /\ States[o] \in {"SUBMITTED", "ACCEPTED", "PARTIALLY_FILLED"}
    BY <1>5, <1>9 DEF KindState, Reporting
  <2>3. QED
    BY <1>1, <1>3, <2>1, <2>2, RowTaken
<1>10. CASE t.ev.kind = "REJECTED"
  <2>1. step("SUBMITTED", "reject", "REJECTED", "REJECTED")
    BY DEF FSM!Transitions, FSM!Trigger
  <2>2. KindState(t.ev.kind) = "REJECTED"
    BY <1>10 DEF KindState
  <2>3. QED
    BY <1>1, <1>3, <1>5, <1>10, <2>1, <2>2, RowTaken
<1>11. QED
  BY <1>2, <1>5, <1>6, <1>7, <1>8, <1>9, <1>10 DEF Kinds

(* Every step of the broker is a step of the FSM or changes no state.      *)
LEMMA StepRefines ==
  ASSUME OneSubmit, IInv, WalkInv, [Next]_vars
  PROVE  FSM!Next \/ States' = States
<1>1. CASE UNCHANGED <<emitted, tries>>
  BY <1>1, StatesStand
<1>2. CASE PutTask
  BY <1>2, PutRefines
<1>3. ASSUME NEW c \in Callers, NEW o \in Orders, SubmitCall(c, o) PROVE FSM!Next
  <2>1. States[o] = "INITIALIZED" /\ States' = [States EXCEPT ![o] = "SUBMIT_PENDING"]
    BY <1>3, UnsentState DEF IInv, WalkInv
  <2>2. /\ "submit_call" \in FSM!Trigger
        /\ FSM!T("INITIALIZED", "submit_call", "SUBMIT_PENDING", "none") \in FSM!Transitions
    BY DEF FSM!Transitions, FSM!Trigger
  <2>3. QED
    BY <2>1, <2>2, RowTaken
<1>4. ASSUME NEW c \in Callers, SnapUnavailable(c) PROVE FSM!Next
  <2>1. /\ call[c].order \in Orders /\ States[call[c].order] = "SUBMIT_PENDING"
        /\ States' = [States EXCEPT ![call[c].order] = "REJECTED"]
    BY <1>4, FirstPut, PendingState DEF IInv, WalkInv
  <2>2. /\ "wire_reject" \in FSM!Trigger
        /\ FSM!T("SUBMIT_PENDING", "wire_reject", "REJECTED", "REJECTED") \in FSM!Transitions
    BY DEF FSM!Transitions, FSM!Trigger
  <2>3. QED
    BY <2>1, <2>2, RowTaken
<1>5. ASSUME NEW c \in Callers, Place(c) PROVE FSM!Next
  <2>1. ~SnapUnavailable(c)
    BY <1>5 DEF Place, SnapUnavailable
  <2>2. /\ call[c].order \in Orders /\ States[call[c].order] = "SUBMIT_PENDING"
        /\ States' = [States EXCEPT ![call[c].order] = "SUBMITTED"]
    BY <1>5, <2>1, FirstPut, PendingState DEF IInv, WalkInv
  <2>3. /\ "wire_ack" \in FSM!Trigger
        /\ FSM!T("SUBMIT_PENDING", "wire_ack", "SUBMITTED", "SUBMITTED") \in FSM!Transitions
    BY DEF FSM!Transitions, FSM!Trigger
  <2>4. QED
    BY <2>2, <2>3, RowTaken
<1>6. CASE Connect \/ Disconnect \/ YieldTask \/ UNCHANGED vars
  BY <1>1, <1>6 DEF Connect, Disconnect, YieldTask, vars, broker
<1>7. ASSUME NEW c \in Callers,
             \/ SnapDone(c) \/ CallRaises(c) \/ CancelSend(c)
             \/ \E o \in Orders : CancelCall(c, o)
      PROVE  FSM!Next \/ States' = States
  BY <1>1, <1>7 DEF SnapDone, CallRaises, CancelSend, CancelCall
<1>8. ASSUME NEW w \in Wires,
             \/ VenueAccept(w) \/ VenueCancel(w)
             \/ \E e \in Execs : VenueExecute(w, e) \/ DeliverFill(w, e)
             \/ \E b \in BOOLEAN : VenueInactive(w, b) \/ VenueError(w, b)
      PROVE  FSM!Next \/ States' = States
  BY <1>1, <1>8 DEF VenueAccept, VenueCancel, VenueExecute, DeliverFill, VenueInactive,
                    VenueError, AtVenue, broker
<1>9. QED
  BY <1>2, <1>3, <1>4, <1>5, <1>6, <1>7, <1>8 DEF Next

(* INV-13: IBOrders implements OrderFSM.  Whatever the venue pushes and    *)
(* however the handlers' tasks interleave, the stream of each order is a   *)
(* walk of the table of order_fsm.py, if its id is submitted once and      *)
(* Inactive comes before the acknowledgement or not at all.                *)
THEOREM StreamsRefineTheFSM ==
  ASSUME OneSubmit
  PROVE  Spec => RefinesFSM
<1>1. Init => FSM!Init
  BY DEF Init, FSM!Init, StateOf
<1>2. Init => IInv
  BY IInvInductive DEF OneSubmit
<1>3. Init => WalkInv
  <2> SUFFICES ASSUME Init PROVE WalkInv
    OBVIOUS
  <2>1. /\ DOMAIN tasks = {} /\ PlacedWires = {}
        /\ \A o \in Orders : emitted[o] = <<>>
        /\ \A c \in Callers : ~Submitting(c)
    BY DEF Init, PlacedWires, Submitting, Idle
  <2>2. QED
    BY <2>1 DEF WalkInv, Legal, OpenInv, PendingInv
<1>4. IInv /\ WalkInv /\ [Next]_vars => IInv' /\ WalkInv'
  BY IInvInductive, WalkStep DEF OneSubmit
<1>5. IInv /\ WalkInv /\ [Next]_vars => [FSM!Next]_([o \in Orders |-> StateOf(o)])
  BY StepRefines DEF States
<1>6. QED
  BY <1>1, <1>2, <1>3, <1>4, <1>5, PTL DEF Spec, RefinesFSM, FSM!Spec
==============================================================================
