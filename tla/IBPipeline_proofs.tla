-------------------------- MODULE IBPipeline_proofs --------------------------
(***************************************************************************)
(* Proofs about the rebalance driver, for any instruments, targets and     *)
(* number of bars: how many orders it has at work, what an armed kill      *)
(* switch still lets through, how its outcomes add up, and what its local  *)
(* view of the positions is short of the venue's.                          *)
(***************************************************************************)
EXTENDS IBPipeline, SumLemmas, TLAPS

(* A sequence, of whatever: the orders and the queue are only walked here. *)
IsSequence(s) == \E S : s \in Seq(S)

(* Nothing of the order is left to the driver: the venue is through with   *)
(* it, or it was asked to cancel it.                                       *)
Done(o) == (o \in OrderIds /\ state[o] \in TerminalStates) \/ o \in asked

(* An event on the queue that ends an order tells the state it is in.      *)
QueueTells ==
  /\ IsSequence(orders) /\ IsSequence(queue)
  /\ state \in [OrderIds -> FSM!OrderState]
  /\ \A i \in 1..Len(queue) : queue[i].kind \in TerminalStates =>
       queue[i].order \in OrderIds /\ state[queue[i].order] = queue[i].kind

(* Where the driver is tells whether its last order may still be at work.  *)
LastOnly ==
  \A o \in 1..Len(orders) :
    Done(o) \/ (o = Len(orders) /\ pc \in {"place", "drain", "cancel", "raised"})

(* And an order it has approved is the only one an armed switch lets by.   *)
Armed == armed => whileArmed \in {0, 1} /\ (pc = "place" => whileArmed = 0)

DriverWorks == QueueTells /\ LastOnly

(* What Append does, whatever is appended.                                 *)
LEMMA AppendFacts ==
  ASSUME NEW s, NEW e, IsSequence(s)
  PROVE  /\ IsSequence(Append(s, e)) /\ Len(s) \in Nat /\ Len(Append(s, e)) = Len(s) + 1
         /\ \A i \in 1..Len(s) : Append(s, e)[i] = s[i]
         /\ Append(s, e)[Len(s) + 1] = e
<1>1. PICK S : s \in Seq(S)
  BY DEF IsSequence
<1>2. s \in Seq(S \cup {e}) /\ e \in S \cup {e}
  BY <1>1
<1>3. QED
  BY <1>2 DEF IsSequence

(* What Head and Tail do.                                                  *)
LEMMA TailFacts ==
  ASSUME NEW s, IsSequence(s), s # <<>>
  PROVE  /\ IsSequence(Tail(s)) /\ Len(s) \in Nat /\ Len(s) >= 1
         /\ Head(s) = s[1] /\ Len(Tail(s)) = Len(s) - 1
         /\ \A i \in 1..Len(Tail(s)) : i + 1 \in 1..Len(s) /\ Tail(s)[i] = s[i + 1]
<1>1. PICK S : s \in Seq(S)
  BY DEF IsSequence
<1>2. QED
  BY <1>1 DEF IsSequence

(* The table moves one order, and none that is through; where the triggers *)
(* of the driver and the venue take it.                                    *)
LEMMA TransitionFacts ==
  ASSUME QueueTells, NEW o, NEW trigger, FSM!Transition(o, trigger)
  PROVE  /\ o \in OrderIds /\ state[o] \notin TerminalStates
         /\ state' \in [OrderIds -> FSM!OrderState]
         /\ \A p \in OrderIds : p # o => state'[p] = state[p]
         /\ trigger \in {"wire_reject", "reject"} => state'[o] = "REJECTED"
         /\ trigger = "cancel" => state'[o] = "CANCELED"
         /\ trigger = "fill" => state'[o] = "FILLED"
<1>1. PICK t \in FSM!Transitions :
        t.from = state[o] /\ t.trigger = trigger /\ state' = [state EXCEPT ![o] = t.to]
  BY DEF FSM!Transition
<1>2. o \in OrderIds
  BY DEF FSM!Transition
<1>3. /\ t.to \in FSM!OrderState /\ t.from \notin TerminalStates
      /\ t.trigger \in {"wire_reject", "reject"} => t.to = "REJECTED"
      /\ t.trigger = "cancel" => t.to = "CANCELED"
      /\ t.trigger = "fill" => t.to = "FILLED"
  BY <1>1 DEF FSM!Transitions, FSM!T, FSM!OrderState, TerminalStates
<1>4. QED
  BY <1>1, <1>2, <1>3 DEF QueueTells

(* An order that is done stays so.                                         *)
LEMMA StaysDone ==
  ASSUME QueueTells, NEW o, NEW trigger, FSM!Transition(o, trigger), asked' = asked,
         NEW p, Done(p)
  PROVE  Done(p)'
  BY TransitionFacts DEF Done, TerminalStates

(* A step puts an event about the order it moves.                          *)
LEMMA PutKeeps ==
  ASSUME QueueTells, NEW o, NEW trigger, FSM!Transition(o, trigger),
         NEW kind, NEW qty, queue' = Append(queue, Event(o, kind, qty)), orders' = orders,
         kind \in TerminalStates => state'[o] = kind
  PROVE  QueueTells'
<1>1. /\ IsSequence(queue) /\ Len(queue) \in Nat /\ IsSequence(queue')
      /\ Len(queue') = Len(queue) + 1
      /\ \A i \in 1..Len(queue) : queue'[i] = queue[i]
      /\ queue'[Len(queue) + 1] = Event(o, kind, qty)
  BY AppendFacts DEF QueueTells
<1>2. /\ o \in OrderIds /\ state[o] \notin TerminalStates
      /\ state' \in [OrderIds -> FSM!OrderState]
      /\ \A p \in OrderIds : p # o => state'[p] = state[p]
  BY TransitionFacts
<1>3. ASSUME NEW i \in 1..Len(queue'), queue'[i].kind \in TerminalStates
      PROVE  queue'[i].order \in OrderIds /\ state'[queue'[i].order] = queue'[i].kind
  <2>1. CASE i \in 1..Len(queue)
    <3>1. queue'[i] = queue[i]
      BY <1>1, <2>1
    <3>2. queue[i].order \in OrderIds /\ state[queue[i].order] = queue[i].kind
      BY <1>3, <2>1, <3>1 DEF QueueTells
    <3>3. QED
      BY <1>2, <1>3, <3>1, <3>2
  <2>2. CASE i = Len(queue) + 1
    BY <1>1, <1>2, <1>3, <2>2 DEF Event
  <2>3. QED
    BY <1>1, <2>1, <2>2
<1>4. QED
  BY <1>1, <1>2, <1>3 DEF QueueTells, TerminalStates

(* The driver takes an event off the queue.                                *)
LEMMA TakeKeeps ==
  ASSUME QueueTells, queue # <<>>, queue' = Tail(queue), orders' = orders, state' = state
  PROVE  /\ QueueTells'
         /\ Head(queue).kind \in TerminalStates =>
              /\ Head(queue).order \in OrderIds
              /\ state[Head(queue).order] \in TerminalStates
<1>1. /\ IsSequence(Tail(queue)) /\ Len(queue) \in Nat /\ Len(queue) >= 1
      /\ Head(queue) = queue[1]
      /\ \A i \in 1..Len(Tail(queue)) :
           i + 1 \in 1..Len(queue) /\ Tail(queue)[i] = queue[i + 1]
  BY TailFacts DEF QueueTells
<1>2. ASSUME NEW i \in 1..Len(queue'), queue'[i].kind \in TerminalStates
      PROVE  queue'[i].order \in OrderIds /\ state'[queue'[i].order] = queue'[i].kind
  <2>1. i + 1 \in 1..Len(queue) /\ queue'[i] = queue[i + 1]
    BY <1>1
  <2>2. QED
    BY <1>2, <2>1 DEF QueueTells
<1>3. 1 \in 1..Len(queue)
  BY <1>1
<1>4. QED
  BY <1>1, <1>2, <1>3 DEF QueueTells, TerminalStates

(* Nothing is appended to the orders, taken from them or put to sleep.     *)
LEMMA SameOrders ==
  ASSUME LastOnly, orders' = orders, \A o : Done(o) => Done(o)',
         \/ pc' = pc
         \/ pc' \in {"place", "drain", "cancel", "raised"}
         \/ pc \notin {"place", "drain", "cancel", "raised"}
         \/ Done(Len(orders))
  PROVE  LastOnly'
  BY DEF LastOnly

(* The steps in which an order changes its state.                          *)
LEMMA ReportKeeps ==
  ASSUME DriverWorks, NEW o, NEW trigger, NEW kind, NEW qty,
         kind \in TerminalStates =>
           \/ trigger \in {"wire_reject", "reject"} /\ kind = "REJECTED"
           \/ trigger = "cancel" /\ kind = "CANCELED"
           \/ trigger = "fill" /\ kind = "FILLED",
         Report(o, trigger, kind, qty)
         \/ (Submit(trigger, kind) /\ o = Current /\ qty = 0)
  PROVE  DriverWorks'
<1>1. /\ FSM!Transition(o, trigger) /\ queue' = Append(queue, Event(o, kind, qty))
      /\ orders' = orders /\ asked' = asked
      /\ pc' = pc \/ pc' = "drain"
  BY DEF Report, Submit, driver
<1>2. kind \in TerminalStates => state'[o] = kind
  BY <1>1, TransitionFacts DEF DriverWorks
<1>3. QueueTells'
  BY <1>1, <1>2, PutKeeps DEF DriverWorks
<1>4. \A p : Done(p) => Done(p)'
  BY <1>1, StaysDone DEF DriverWorks
<1>5. LastOnly'
  BY <1>1, <1>4, SameOrders DEF DriverWorks
<1>6. QED
  BY <1>3, <1>5 DEF DriverWorks

(* An order is approved: what came before it is done.                      *)
LEMMA ApproveKeeps ==
  ASSUME DriverWorks, Approve
  PROVE  DriverWorks'
<1>1. /\ pc = "approve" /\ pc' = "place" /\ asked' = asked /\ queue' = queue
      /\ orders' = Append(orders, Head(todo)) /\ FSM!Transition(Len(orders'), "submit_call")
  BY DEF Approve
<1>2. /\ IsSequence(orders') /\ Len(orders) \in Nat /\ Len(orders') = Len(orders) + 1
  BY <1>1, AppendFacts DEF DriverWorks, QueueTells
<1>3. /\ state' \in [OrderIds -> FSM!OrderState] /\ state[Len(orders')] \notin TerminalStates
      /\ \A p \in OrderIds : p # Len(orders') => state'[p] = state[p]
  BY <1>1, TransitionFacts DEF DriverWorks
<1>4. QueueTells'
  BY <1>1, <1>2, <1>3 DEF DriverWorks, QueueTells, TerminalStates
<1>5. \A p : Done(p) => Done(p)'
  BY <1>1, StaysDone DEF DriverWorks
<1>6. LastOnly'
  BY <1>1, <1>2, <1>5 DEF DriverWorks, LastOnly
<1>7. QED
  BY <1>4, <1>6 DEF DriverWorks

(* Every step of the driver and of its environment keeps the invariant.    *)
LEMMA StepWorks ==
  ASSUME DriverWorks, [Next]_vars
  PROVE  DriverWorks'
<1>1. ASSUME queue' = queue, orders' = orders, state' = state,
             asked \subseteq asked',
             \/ pc' = pc
             \/ pc' \in {"place", "drain", "cancel", "raised"}
             \/ pc \notin {"place", "drain", "cancel", "raised"}
             \/ Len(orders) \in asked'
      PROVE  DriverWorks'
  <2>1. QueueTells'
    BY <1>1 DEF DriverWorks, QueueTells, TerminalStates
  <2>2. \A o : Done(o) => Done(o)'
    BY <1>1 DEF Done, TerminalStates
  <2>3. LastOnly'
    BY <1>1, <2>2 DEF DriverWorks, LastOnly, Done
  <2>4. QED
    BY <2>1, <2>3 DEF DriverWorks
<1>2. CASE UNCHANGED vars \/ Arm \/ Clear \/ ConnectionLost
  BY <1>1, <1>2 DEF vars, driver, broker, Arm, Clear, ConnectionLost
<1>3. CASE StartBar \/ EndBar \/ Finish \/ Refuse \/ Raise \/ TimeOut
  BY <1>1, <1>3 DEF StartBar, EndBar, Finish, Refuse, Raise, TimeOut, AfterDeadline, broker
<1>4. CASE Cancel
  BY <1>1, <1>4 DEF Cancel, Current
<1>5. CASE Approve
  BY <1>5, ApproveKeeps
<1>6. CASE Submit("wire_ack", "SUBMITTED") \/ Submit("wire_reject", "REJECTED")
  BY <1>6, ReportKeeps DEF TerminalStates
<1>7. ASSUME NEW o,
             \/ VenueAccepts(o) \/ VenueRejects(o) \/ VenueCancels(o)
             \/ VenueFills(o) \/ VenueFillsPart(o)
      PROVE  DriverWorks'
  BY <1>7, ReportKeeps
     DEF VenueAccepts, VenueRejects, VenueCancels, VenueFills, VenueFillsPart, TerminalStates
<1>8. ASSUME queue # <<>>, queue' = Tail(queue), orders' = orders, state' = state,
             asked' = asked,
             \/ pc' = pc \/ pc \notin {"place", "drain", "cancel", "raised"}
             \/ Head(queue).kind \in TerminalStates /\ Head(queue).order = Current
      PROVE  DriverWorks'
  <2>1. /\ QueueTells'
        /\ Head(queue).kind \in TerminalStates =>
              /\ Head(queue).order \in OrderIds
              /\ state[Head(queue).order] \in TerminalStates
    BY <1>8, TakeKeeps DEF DriverWorks
  <2>2. \A o : Done(o) => Done(o)'
    BY <1>8 DEF Done, TerminalStates
  <2>3. LastOnly'
    BY <1>8, <2>1, <2>2, SameOrders DEF DriverWorks, Current, Done
  <2>4. QED
    BY <2>1, <2>3 DEF DriverWorks
<1>9. CASE Skip \/ Progress
  BY <1>8, <1>9 DEF Skip, Progress, driver
<1>10. CASE Settle("FILLED", "fills") \/ Settle("CANCELED", "canceled")
            \/ Settle("REJECTED", "rejected")
  BY <1>8, <1>10 DEF Settle, ForTarget, TerminalStates
<1>11. CASE Abandon
  <2>1. CASE UNCHANGED queue
    BY <1>1, <1>11, <2>1 DEF Abandon
  <2>2. CASE queue # <<>> /\ queue' = Tail(queue)
    BY <1>8, <1>11, <2>2 DEF Abandon
  <2>3. QED
    BY <1>11, <2>1, <2>2 DEF Abandon
<1>12. QED
  BY <1>2, <1>3, <1>4, <1>5, <1>6, <1>7, <1>9, <1>10, <1>11 DEF Next, Driver, Environment

(* However drains, deadlines, cancels and venue events interleave, no      *)
(* second order reaches the broker while an earlier one works uncancelled  *)
(* (ib_pipeline.py run_ib_multi_pipeline, _drain_order_lifecycle).         *)
THEOREM NoTwoOrders == Spec => []OneWorkingOrder
<1>1. Init => DriverWorks
  <2>1. IsSequence(<<>>)
    <3>1. <<>> \in Seq({})
      OBVIOUS
    <3>2. QED
      BY <3>1 DEF IsSequence
  <2>2. Len(<<>>) = 0
    OBVIOUS
  <2>3. QED
    BY <2>1, <2>2 DEF Init, FSM!Init, FSM!OrderState, DriverWorks, QueueTells, LastOnly
<1>2. DriverWorks /\ [Next]_vars => DriverWorks'
  BY StepWorks
<1>3. ASSUME DriverWorks PROVE OneWorkingOrder
  <2>1. Len(orders) \in Nat
    <3>1. PICK S : orders \in Seq(S)
      BY <1>3 DEF DriverWorks, QueueTells, IsSequence
    <3>2. QED
      BY <3>1
  <2>2. QED
    BY <1>3, <2>1 DEF DriverWorks, LastOnly, Done, OneWorkingOrder
<1>4. QED
  BY <1>1, <1>2, <1>3, PTL DEF Spec

(* Once the kill switch is armed, at most the one order that RC-13 had     *)
(* already let pass still reaches the venue, however the switch is armed   *)
(* and cleared (checks.py RiskEngine.approve, ib_pipeline.py).             *)
THEOREM ArmedStopsTheNext == Spec => []AtMostOneWhileArmed
<1>1. Init => Armed
  BY DEF Init, Armed
<1>2. ASSUME Armed, [Next]_vars PROVE Armed'
  <2>1. CASE Approve
    BY <2>1 DEF Approve, MayApprove, Armed, history
  <2>2. CASE Submit("wire_ack", "SUBMITTED") \/ Submit("wire_reject", "REJECTED")
    <3>1. /\ pc = "place" /\ pc' = "drain" /\ armed' = armed
          /\ whileArmed' = whileArmed \/ whileArmed' = whileArmed + 1
      BY <2>2 DEF Submit
    <3>2. armed => whileArmed' \in {0, 1}
      BY <1>2, <3>1 DEF Armed
    <3>3. QED
      BY <3>1, <3>2 DEF Armed
  <2>3. CASE Arm \/ Clear
    BY <2>3 DEF Arm, Clear, Armed
  <2>4. CASE UNCHANGED <<armed, whileArmed>> /\ (pc' = pc \/ pc' # "place")
    BY <1>2, <2>4 DEF Armed
  <2>5. CASE UNCHANGED vars \/ ConnectionLost
    BY <2>4, <2>5 DEF vars, driver, history, ConnectionLost
  <2>6. CASE StartBar \/ EndBar \/ Finish \/ Refuse \/ Raise \/ TimeOut \/ Cancel \/ Abandon
    BY <2>4, <2>6
       DEF StartBar, EndBar, Finish, Refuse, Raise, TimeOut, AfterDeadline, Cancel, Abandon,
           history
  <2>7. CASE Skip \/ Progress \/ Settle("FILLED", "fills") \/ Settle("CANCELED", "canceled")
             \/ Settle("REJECTED", "rejected")
    BY <2>4, <2>7 DEF Skip, Progress, Settle, driver, history
  <2>8. ASSUME NEW o,
               \/ VenueAccepts(o) \/ VenueRejects(o) \/ VenueCancels(o)
               \/ VenueFills(o) \/ VenueFillsPart(o)
        PROVE  Armed'
    BY <2>4, <2>8
       DEF VenueAccepts, VenueRejects, VenueCancels, VenueFills, VenueFillsPart, Report, driver
  <2>9. QED
    BY <1>2, <2>1, <2>2, <2>3, <2>5, <2>6, <2>7, <2>8 DEF Next, Driver, Environment
<1>3. Armed => AtMostOneWhileArmed
  BY DEF Armed, AtMostOneWhileArmed
<1>4. QED
  BY <1>1, <1>2, <1>3, PTL DEF Spec
-----------------------------------------------------------------------------
(* The counters and the types.                                             *)
AtWork == {"place", "drain", "cancel", "redrain"}

(* Beyond the types: nothing is left to approve between two bars, the      *)
(* driver at work has an order, and nothing happens to an order that is    *)
(* yet to come.                                                            *)
QueueEvent == [order : OrderIds, kind : FSM!OrderState \cup {"PARTIAL_FILL"}, qty : Nat]
Counters == [{"submitted", "accepted", "fills", "canceled", "rejected"} -> Nat]

DriverTypes ==
  /\ pc \in {"bar", "approve", "place", "drain", "cancel", "redrain", "done", "raised"}
  /\ bar \in 0..MaxBars /\ todo \in Seq(Order)
  /\ reached \in BOOLEAN /\ armed \in BOOLEAN /\ connected \in BOOLEAN
  /\ positions \in [Symbols -> Int] /\ whileArmed \in Nat
  /\ result \in Counters
  /\ Len(orders) + Len(todo) + (MaxBars - bar) * Len(Instruments) <= MaxOrders
  /\ pc = "bar" => todo = <<>>
  /\ pc \in AtWork => Len(orders) >= 1

BrokerTypes ==
  /\ orders \in Seq(Order) /\ FSM!TypeOK
  /\ executed \in [OrderIds -> Nat] /\ parts \in [OrderIds -> Nat]
  /\ \A o \in 1..Len(orders) : Rest(o) >= 0
  /\ \A o \in OrderIds : o > Len(orders) => executed[o] = 0
  /\ asked \subseteq OrderIds /\ timedOut \subseteq 1..Len(orders)
  /\ queue \in Seq(QueueEvent)

RunInv == DriverTypes /\ BrokerTypes

(* The order in the first drain is not counted as accepted yet.            *)
CountInv == Accounted /\ (pc = "drain" => result.accepted < result.submitted)

(* What was executed for an order came in partial fills until its last     *)
(* fill, and the last fill tells the rest.  An order that is neither given *)
(* up nor in its first drain is through.                                   *)
FillInv ==
  /\ pc \in {"place", "drain"} => Current \notin timedOut
  /\ \A o \in OrderIds : state[o] # "FILLED" => parts[o] = executed[o]
  /\ \A i \in 1..Len(queue) : queue[i].kind = "FILLED" =>
       queue[i].qty = executed[queue[i].order] - parts[queue[i].order]
  /\ \A o \in 1..Len(orders) :
       \/ state[o] \in TerminalStates \/ o \in timedOut
       \/ o = Len(orders) /\ pc \in {"place", "drain", "raised"}

(* What the driver has booked of order o, at any time.                     *)
Share(o) ==
  IF o \in timedOut \/ (o = Len(orders) /\ pc \in {"place", "drain"}) THEN 0
  ELSE executed[o] - parts[o]

Signed(o) == IF orders[o].delta > 0 THEN Share(o) ELSE -Share(o)

View(sym) == SumFunctionOnSet([o \in 1..Len(orders) |-> Signed(o)], OrdersOf(sym))

ViewInv == pc # "raised" => \A sym \in Symbols : positions[sym] = View(sym)
-----------------------------------------------------------------------------
(* The loop of size_orders: the lists of candidates after i symbols.       *)
ListStep(c, g, i) ==
  IF i = 0 THEN <<>> ELSE IF c[i].delta # 0 THEN Append(g[i - 1], c[i]) ELSE g[i - 1]

Lists(c, g, n) == g = [i \in 0..n |-> ListStep(c, g, i)]

LEMMA ListsExist == ASSUME NEW c, NEW n \in Nat PROVE \E g : Lists(c, g, n)
<1> DEFINE T == {k \in Nat : \E g : Lists(c, g, k)}
<1>1. 0 \in T
  <2>1. Lists(c, [i \in 0..0 |-> <<>>], 0) BY DEF Lists, ListStep
  <2> QED BY <2>1
<1>2. ASSUME NEW k \in Nat, k \in T PROVE k + 1 \in T
  <2>1. PICK g : Lists(c, g, k) BY <1>2
  <2> DEFINE h == [i \in 0..(k + 1) |-> IF i <= k THEN g[i] ELSE ListStep(c, g, i)]
  <2>2. \A i \in 0..k : g[i] = ListStep(c, g, i) BY <2>1 DEF Lists
  <2>3. \A i \in 0..(k + 1) : h[i] = ListStep(c, g, i) BY <2>2
  <2>4. \A i \in 0..k : h[i] = g[i] OBVIOUS
  <2> HIDE DEF h
  <2>5. \A i \in 0..(k + 1) : ListStep(c, h, i) = ListStep(c, g, i)
    <3> TAKE i \in 0..(k + 1)
    <3>1. CASE i = 0 BY <3>1 DEF ListStep
    <3>2. CASE i # 0
      <4>1. i - 1 \in 0..k BY <3>2
      <4> QED BY <2>4, <4>1 DEF ListStep
    <3> QED BY <3>1, <3>2
  <2>6. h = [i \in 0..(k + 1) |-> ListStep(c, h, i)] BY <2>3, <2>5 DEF h
  <2> QED BY <2>6 DEF Lists
<1> HIDE DEF T
<1>3. Nat \subseteq T BY <1>1, <1>2, SetInduction
<1> QED BY <1>3 DEF T

LEMMA ListsType ==
  ASSUME NEW n \in Nat, NEW c, \A i \in 1..n : c[i] \in [sym : Symbols, delta : Int],
         NEW g, Lists(c, g, n)
  PROVE  g[n] \in Seq(Order) /\ Len(g[n]) <= n
<1> DEFINE T == {k \in Nat : k <= n => g[k] \in Seq(Order) /\ Len(g[k]) <= k}
<1>1. \A i \in 0..n : g[i] = ListStep(c, g, i) BY DEF Lists
<1>2. 0 \in T
  <2>1. <<>> \in Seq(Order) /\ Len(<<>>) = 0 OBVIOUS
  <2>2. g[0] = <<>> BY <1>1 DEF ListStep
  <2>3. g[0] \in Seq(Order) /\ Len(g[0]) <= 0 BY <2>1, <2>2
  <2> QED BY <2>3
<1>3. ASSUME NEW k \in Nat, k \in T PROVE k + 1 \in T
  <2> SUFFICES ASSUME k + 1 <= n PROVE g[k + 1] \in Seq(Order) /\ Len(g[k + 1]) <= k + 1
    OBVIOUS
  <2>1. g[k] \in Seq(Order) /\ Len(g[k]) <= k /\ Len(g[k]) \in Nat BY <1>3
  <2>2. k + 1 \in 1..n /\ c[k + 1] \in [sym : Symbols, delta : Int] OBVIOUS
  <2>3. c[k + 1].delta # 0 => c[k + 1] \in Order BY <2>2 DEF Order
  <2>4. g[k + 1] = IF c[k + 1].delta # 0 THEN Append(g[k], c[k + 1]) ELSE g[k]
    BY <1>1, <2>2 DEF ListStep
  <2> QED BY <2>1, <2>3, <2>4
<1> HIDE DEF T
<1>4. Nat \subseteq T BY <1>2, <1>3, SetInduction
<1> QED BY <1>4 DEF T

(* A bar has candidate orders for some of the symbols.                     *)
LEMMA CandidatesFacts ==
  ASSUME positions \in [Symbols -> Int], NEW target \in [Symbols -> Targets]
  PROVE  Candidates(target) \in Seq(Order) /\ Len(Candidates(target)) <= Len(Instruments)
<1> DEFINE n == Len(Instruments)
           c == [i \in 1..n |-> Candidate(Instruments[i], target)]
           Loop(g) == g = [i \in 0..n |->
                        IF i = 0 THEN <<>>
                        ELSE IF Candidate(Instruments[i], target).delta # 0
                             THEN Append(g[i - 1], Candidate(Instruments[i], target))
                             ELSE g[i - 1]]
           of == CHOOSE g : Loop(g)
<1>1. n \in Nat BY DriverAssumption
<1>2. \A i \in 1..n : c[i] \in [sym : Symbols, delta : Int]
  <2> TAKE i \in 1..n
  <2>1. Instruments[i] \in Symbols BY DriverAssumption
  <2>2. target[Instruments[i]] \in Int /\ positions[Instruments[i]] \in Int
    BY <2>1, DriverAssumption
  <2> QED BY <2>1, <2>2 DEF Candidate
<1>3. Candidates(target) = of[n] BY DEF Candidates
<1>4. \A g : Loop(g) <=> Lists(c, g, n)
  <2> TAKE g
  <2>1. [i \in 0..n |-> ListStep(c, g, i)] =
        [i \in 0..n |->
                        IF i = 0 THEN <<>>
                        ELSE IF Candidate(Instruments[i], target).delta # 0
                             THEN Append(g[i - 1], Candidate(Instruments[i], target))
                             ELSE g[i - 1]]
    BY <1>1 DEF ListStep
  <2> QED BY <2>1 DEF Lists
<1> HIDE DEF Loop, n, c
<1>5. \E g : Loop(g) BY <1>1, <1>4, ListsExist
<1>6. Lists(c, of, n) BY <1>4, <1>5
<1> HIDE DEF of
<1>7. of[n] \in Seq(Order) /\ Len(of[n]) <= n BY <1>1, <1>2, <1>6, ListsType
<1> QED BY <1>3, <1>7 DEF n
(* Sizes: as many orders fit as there are bars and symbols.                *)
LEMMA RunFacts ==
  ASSUME RunInv
  PROVE  /\ Len(Instruments) \in Nat /\ MaxOrders \in Nat
         /\ Len(orders) \in Nat /\ Len(todo) \in Nat /\ Len(orders) + Len(todo) <= MaxOrders
         /\ \A o \in 1..Len(orders) : o \in OrderIds /\ orders[o] \in Order
         /\ pc \in AtWork => Current \in OrderIds /\ Current \in 1..Len(orders)
<1>1. Len(Instruments) \in Nat /\ MaxBars \in Nat BY DriverAssumption
<1>2. Len(orders) \in Nat /\ Len(todo) \in Nat BY DEF RunInv, DriverTypes, BrokerTypes
<1>3. \A m, n \in Nat : m * n \in Nat OBVIOUS
<1>4. MaxOrders \in Nat BY <1>1, <1>3 DEF MaxOrders
<1>5. MaxBars - bar \in Nat BY <1>1 DEF RunInv, DriverTypes
<1>6. (MaxBars - bar) * Len(Instruments) \in Nat BY <1>1, <1>3, <1>5
<1>7. Len(orders) + Len(todo) + (MaxBars - bar) * Len(Instruments) <= MaxOrders
  BY DEF RunInv, DriverTypes
<1>8. Len(orders) + Len(todo) <= MaxOrders BY <1>2, <1>4, <1>6, <1>7
<1>9. \A o \in 1..Len(orders) : o \in OrderIds /\ orders[o] \in Order
  BY <1>2, <1>4, <1>8 DEF OrderIds, RunInv, BrokerTypes
<1>10. pc \in AtWork => Current \in OrderIds /\ Current \in 1..Len(orders)
  BY <1>2, <1>4, <1>8 DEF OrderIds, Current, RunInv, DriverTypes
<1> QED BY <1>1, <1>2, <1>4, <1>8, <1>9, <1>10

(* What the driver keeps, step by step; nothing else touches it.           *)
LEMMA SameDriver ==
  ASSUME RunInv, UNCHANGED <<pc, bar, todo, reached, positions, result, orders>>,
         armed' \in BOOLEAN, connected' \in BOOLEAN, whileArmed' \in Nat
  PROVE  DriverTypes'
BY DEF RunInv, DriverTypes

LEMMA DriverStep ==
  ASSUME RunInv, [Next]_vars
  PROVE  DriverTypes'
<1> USE DEF RunInv, DriverTypes
<1>1. CASE UNCHANGED vars \/ Environment
  <2>1. UNCHANGED <<pc, bar, todo, reached, positions, result, orders>>
    BY <1>1 DEF vars, driver, broker, Environment, Arm, Clear, ConnectionLost, VenueAccepts,
       VenueRejects, VenueCancels, VenueFills, VenueFillsPart, Report
  <2>2. /\ armed' = armed \/ armed' = TRUE \/ armed' = FALSE
        /\ connected' = connected \/ connected' = FALSE
        /\ whileArmed' = whileArmed \/ whileArmed' = 0
    BY <1>1 DEF vars, broker, history, Environment, Arm, Clear, ConnectionLost, VenueAccepts,
       VenueRejects, VenueCancels, VenueFills, VenueFillsPart, Report
  <2>3. armed' \in BOOLEAN /\ connected' \in BOOLEAN BY <2>2
  <2>4. whileArmed' \in Nat BY <2>2
  <2> QED BY <2>1, <2>3, <2>4, SameDriver
<1>2. CASE StartBar
  <2>1. PICK target \in [Symbols -> Targets] : todo' = Candidates(target)
    BY <1>2 DEF StartBar
  <2>2. todo' \in Seq(Order) /\ Len(todo') <= Len(Instruments) /\ Len(todo') \in Nat
    BY <2>1, CandidatesFacts
  <2>3. /\ pc = "bar" /\ bar < MaxBars /\ bar' = bar + 1 /\ pc' = "approve" /\ todo = <<>>
        /\ UNCHANGED <<reached, positions, result, armed, connected, orders, whileArmed>>
    BY <1>2 DEF StartBar, broker, history
  <2>4. MaxBars \in Nat /\ Len(Instruments) \in Nat /\ MaxOrders \in Nat /\ Len(orders) \in Nat
    BY RunFacts, DriverAssumption
  <2>5. \A M, L, n, c : \A b \in 0..M :
          /\ M \in Nat /\ L \in Nat /\ n \in Nat /\ c \in Nat /\ c <= L
          /\ b < M /\ n + (M - b) * L <= M * L
          => b + 1 \in 0..M /\ n + c + (M - (b + 1)) * L <= M * L
    OBVIOUS
  <2>6. Len(orders) + (MaxBars - bar) * Len(Instruments) <= MaxBars * Len(Instruments)
    <3>1. Len(todo) = 0 BY <2>3
    <3>2. Len(orders) + 0 = Len(orders) BY <2>4
    <3> QED BY <3>1, <3>2 DEF MaxOrders
  <2>7. /\ bar' \in 0..MaxBars
        /\ Len(orders') + Len(todo') + (MaxBars - bar') * Len(Instruments) <= MaxOrders
    BY <2>2, <2>3, <2>4, <2>5, <2>6 DEF MaxOrders
  <2> QED BY <2>2, <2>3, <2>7 DEF AtWork
<1>3. CASE EndBar \/ Finish \/ Raise
  BY <1>3 DEF EndBar, Finish, Raise, broker, history, AtWork
<1>4. ASSUME todo # <<>>, todo' = Tail(todo),
             UNCHANGED <<bar, reached, positions, result, armed, connected, whileArmed>>,
             \/ pc = "approve" /\ pc' = "approve" /\ orders' = orders
             \/ pc = "approve" /\ pc' = "place" /\ orders' = Append(orders, Head(todo))
      PROVE  DriverTypes'
  <2>1. /\ Tail(todo) \in Seq(Order) /\ Len(Tail(todo)) = Len(todo) - 1 /\ Len(todo) \in Nat
        /\ Head(todo) \in Order
    BY <1>4
  <2>2. Len(orders) \in Nat /\ Len(orders') \in Nat /\ Len(orders') <= Len(orders) + 1
        /\ pc' = "place" => Len(orders') >= 1
    BY <1>4, <2>1 DEF BrokerTypes
  <2>3. MaxBars \in Nat /\ Len(Instruments) \in Nat /\ MaxOrders \in Nat
    BY RunFacts, DriverAssumption
  <2>4. (MaxBars - bar) * Len(Instruments) \in Int BY <2>3
  <2>5. Len(orders') + Len(todo') + (MaxBars - bar') * Len(Instruments) <= MaxOrders
    BY <1>4, <2>1, <2>2, <2>3, <2>4
  <2> QED BY <1>4, <2>1, <2>2, <2>5 DEF AtWork
<1>5. CASE Refuse \/ Approve
  BY <1>4, <1>5 DEF Refuse, Approve, broker, history
<1>6. ASSUME pc \in AtWork, UNCHANGED <<bar, todo, orders, armed, connected>>,
             pc' \in AtWork \cup {"approve"}, reached' \in BOOLEAN,
             positions' \in [Symbols -> Int], whileArmed' \in Nat,
             result' \in Counters
      PROVE  DriverTypes'
  BY <1>6 DEF AtWork
<1>7. ASSUME NEW r, r \in Counters,
             NEW yes \in BOOLEAN
      PROVE  AcceptedIf(yes, r) \in Counters
  <2>1. CASE yes
    <3>1. AcceptedIf(yes, r) = [r EXCEPT !["accepted"] = r["accepted"] + 1] BY <2>1 DEF AcceptedIf
    <3>2. r["accepted"] + 1 \in Nat BY <1>7 DEF Counters
    <3> QED BY <1>7, <3>1, <3>2 DEF Counters
  <2>2. CASE ~yes BY <1>7, <2>2 DEF AcceptedIf
  <2> QED BY <2>1, <2>2
<1>8. \A field \in {"submitted", "fills", "canceled", "rejected"} :
        Count(field) \in Counters
  BY DEF Count, Counters
<1>9. CASE Submit("wire_ack", "SUBMITTED") \/ Submit("wire_reject", "REJECTED")
  <2>1. result' = [result EXCEPT !.submitted = @ + 1] BY <1>9 DEF Submit
  <2>2. result' \in Counters BY <2>1 DEF Counters
  <2>3. /\ pc = "place" /\ pc' = "drain" /\ reached' = FALSE
        /\ UNCHANGED <<bar, todo, orders, armed, connected, positions>>
        /\ whileArmed' = whileArmed \/ whileArmed' = whileArmed + 1
    BY <1>9 DEF Submit
  <2>4. whileArmed' \in Nat BY <2>3
  <2>5. reached' \in BOOLEAN BY <2>3
  <2> QED BY <1>6, <2>2, <2>3, <2>4, <2>5 DEF AtWork
<1>10. CASE Skip \/ Progress
  BY <1>6, <1>10 DEF Skip, Progress, driver, history, AtWork
<1>11. CASE TimeOut
  BY <1>6, <1>7, <1>11 DEF TimeOut, AfterDeadline, broker, AtWork
<1>12. CASE Cancel
  BY <1>6, <1>12 DEF Cancel, history, AtWork
<1>13. CASE Abandon
  BY <1>6, <1>8, <1>13 DEF Abandon, Abandoned, history, AtWork
<1>14. ASSUME NEW kind, NEW counter \in {"fills", "canceled", "rejected"}, Settle(kind, counter)
       PROVE  DriverTypes'
  <2>1. /\ pc = "drain" /\ pc' = "approve" /\ queue # <<>>
        /\ result' = AcceptedIf(reached \/ kind = "FILLED", Count(counter))
        /\ UNCHANGED <<bar, todo, orders, armed, connected, reached, whileArmed>>
    BY <1>14 DEF Settle, history
  <2>2. result' \in Counters
    BY <1>7, <1>8, <2>1
  <2>3. Current \in 1..Len(orders) /\ orders[Current] \in Order
    BY <2>1, RunFacts DEF AtWork
  <2>4. Head(queue) \in QueueEvent
    BY <2>1 DEF BrokerTypes
  <2>5. Booked(Current, Head(queue)) \in Int BY <2>4 DEF Booked, QueueEvent
  <2>6. positions' \in [Symbols -> Int]
    BY <1>14, <2>3, <2>5 DEF Settle, Order
  <2> QED BY <1>6, <2>1, <2>2, <2>6 DEF AtWork
<1> QED
  BY <1>1, <1>2, <1>3, <1>5, <1>9, <1>10, <1>11, <1>12, <1>13, <1>14 DEF Next, Driver
(* The broker's orders and its queue.                                      *)
LEMMA MovesOn ==
  ASSUME QueueTells, NEW o, NEW trigger, FSM!Transition(o, trigger)
  PROVE  /\ FSM!TypeOK'
         /\ trigger \in {"submit_call", "wire_ack", "accept", "partial_fill"} =>
              state'[o] \notin TerminalStates
<1>1. PICK t \in FSM!Transitions :
        t.from = state[o] /\ t.trigger = trigger /\ state' = [state EXCEPT ![o] = t.to]
  BY DEF FSM!Transition
<1>2. t.trigger \in {"submit_call", "wire_ack", "accept", "partial_fill"} =>
        t.to \notin TerminalStates
  BY DEF FSM!Transitions, FSM!T, TerminalStates
<1>3. FSM!TypeOK' BY TransitionFacts DEF FSM!TypeOK
<1>4. o \in OrderIds /\ state \in [OrderIds -> FSM!OrderState]
  BY DEF FSM!Transition, QueueTells
<1> QED BY <1>1, <1>2, <1>3, <1>4

(* A submit or a report moves one order and puts one event; no order is    *)
(* executed beyond its quantity.                                           *)
LEMMA PutTypes ==
  ASSUME DriverWorks, RunInv, NEW o, NEW trigger, NEW kind, NEW qty \in Nat,
         FSM!Transition(o, trigger), kind \in FSM!OrderState \cup {"PARTIAL_FILL"},
         queue' = Append(queue, Event(o, kind, qty)), UNCHANGED <<orders, asked, timedOut>>,
         \/ UNCHANGED <<executed, parts>>
         \/ /\ o <= Len(orders) /\ qty <= Rest(o)
            /\ executed' = [executed EXCEPT ![o] = @ + qty]
            /\ parts' \in {parts, [parts EXCEPT ![o] = @ + qty]}
  PROVE  BrokerTypes'
<1> USE DEF RunInv, BrokerTypes
<1>1. o \in OrderIds BY TransitionFacts DEF DriverWorks
<1>2. FSM!TypeOK' BY MovesOn DEF DriverWorks
<1>3. queue' \in Seq(QueueEvent)
  <2>1. Event(o, kind, qty) \in QueueEvent BY <1>1 DEF Event, QueueEvent
  <2> QED BY <2>1
<1>4. executed' \in [OrderIds -> Nat] /\ parts' \in [OrderIds -> Nat]
  <2>1. executed[o] + qty \in Nat /\ parts[o] + qty \in Nat BY <1>1
  <2> QED BY <1>1, <2>1
<1>5. \A p \in 1..Len(orders) : Rest(p)' >= 0
  <2> TAKE p \in 1..Len(orders)
  <2>1. p \in OrderIds /\ orders[p] \in Order /\ Rest(p) >= 0 BY RunFacts
  <2>2. Shares(orders[p].delta) \in Int BY <2>1 DEF Shares, Order
  <2>3. executed[p] \in Nat BY <2>1
  <2>4. executed'[p] = executed[p] \/ (p = o /\ qty <= Rest(p) /\ executed'[p] = executed[p] + qty)
    BY <2>1
  <2> QED BY <2>1, <2>2, <2>3, <2>4 DEF Rest
<1>6. \A p \in OrderIds : p > Len(orders) => executed'[p] = 0
  <2> SUFFICES ASSUME NEW p \in OrderIds, p > Len(orders) PROVE executed'[p] = 0 OBVIOUS
  <2>1. executed[p] = 0 OBVIOUS
  <2>2. Len(orders) \in Nat /\ p \in Nat BY RunFacts DEF OrderIds
  <2>3. p = o => UNCHANGED executed BY <2>2
  <2> QED BY <2>1, <2>3
<1> QED BY <1>2, <1>3, <1>4, <1>5, <1>6

LEMMA BrokerStep ==
  ASSUME DriverWorks, RunInv, [Next]_vars
  PROVE  BrokerTypes'
<1> USE DEF RunInv, BrokerTypes
<1>1. ASSUME UNCHANGED <<orders, state, executed, parts>>,
             queue' = queue \/ (queue # <<>> /\ queue' = Tail(queue)),
             asked' = asked \/ (asked' = asked \cup {Current} /\ Current \in OrderIds),
             \/ timedOut' = timedOut
             \/ timedOut' = timedOut \cup {Current} /\ Current \in 1..Len(orders)
      PROVE  BrokerTypes'
  <2>1. queue' \in Seq(QueueEvent)
    <3>1. queue # <<>> => Tail(queue) \in Seq(QueueEvent) OBVIOUS
    <3> QED BY <1>1, <3>1
  <2>2. asked' \subseteq OrderIds /\ timedOut' \subseteq 1..Len(orders') BY <1>1
  <2> QED BY <1>1, <2>1, <2>2 DEF FSM!TypeOK, Rest
<1>2. CASE \/ UNCHANGED vars \/ Arm \/ Clear \/ ConnectionLost \/ StartBar \/ EndBar \/ Finish
           \/ Refuse \/ Raise
  BY <1>1, <1>2 DEF vars, broker, history, Arm, Clear, ConnectionLost, StartBar, EndBar, Finish,
     Refuse, Raise
<1>3. CASE Skip \/ Progress \/ Abandon
  BY <1>1, <1>3 DEF Skip, Progress, Abandon, history
<1>4. CASE TimeOut
  BY <1>1, <1>4, RunFacts DEF TimeOut, broker, AtWork
<1>5. CASE Cancel
  BY <1>1, <1>5, RunFacts DEF Cancel, history, AtWork
<1>6. CASE Settle("FILLED", "fills") \/ Settle("CANCELED", "canceled")
           \/ Settle("REJECTED", "rejected")
  BY <1>1, <1>6 DEF Settle, history
<1>7. CASE Approve
  <2>1. /\ todo # <<>> /\ orders' = Append(orders, Head(todo))
        /\ FSM!Transition(Len(orders'), "submit_call")
        /\ UNCHANGED <<executed, parts, asked, queue, timedOut>>
    BY <1>7 DEF Approve, history
  <2>2. Head(todo) \in Order /\ Len(orders) \in Nat BY <2>1 DEF DriverTypes
  <2>3. /\ orders' \in Seq(Order) /\ Len(orders') = Len(orders) + 1
        /\ \A p \in 1..Len(orders) : orders'[p] = orders[p]
        /\ orders'[Len(orders) + 1] = Head(todo)
    BY <2>1, <2>2
  <2>4. FSM!TypeOK' /\ Len(orders') \in OrderIds
    BY <2>1, MovesOn, TransitionFacts DEF DriverWorks
  <2>5. \A p \in 1..Len(orders') : Rest(p)' >= 0
    <3> TAKE p \in 1..Len(orders')
    <3>1. CASE p \in 1..Len(orders)
      <4>1. Rest(p) >= 0 /\ orders'[p] = orders[p] BY <2>3, <3>1
      <4> QED BY <2>1, <4>1 DEF Rest
    <3>2. CASE p = Len(orders) + 1
      <4>1. executed[p] = 0 /\ orders'[p] \in Order BY <2>2, <2>3, <2>4, <3>2
      <4> QED BY <2>1, <4>1 DEF Rest, Shares, Order
    <3> QED BY <2>2, <2>3, <3>1, <3>2
  <2>6. \A p \in OrderIds : p > Len(orders') => executed'[p] = 0
    BY <2>1, <2>2, <2>3 DEF OrderIds
  <2>7. timedOut' \subseteq 1..Len(orders') BY <2>1, <2>2, <2>3
  <2> QED BY <2>1, <2>3, <2>4, <2>5, <2>6, <2>7
<1>8. CASE Submit("wire_ack", "SUBMITTED") \/ Submit("wire_reject", "REJECTED")
  <2>1. PICK trigger \in {"wire_ack", "wire_reject"}, kind \in {"SUBMITTED", "REJECTED"} :
          Submit(trigger, kind)
    BY <1>8
  <2>2. /\ FSM!Transition(Current, trigger) /\ queue' = Append(queue, Event(Current, kind, 0))
        /\ UNCHANGED <<orders, asked, timedOut, executed, parts>>
    BY <2>1 DEF Submit
  <2>3. kind \in FSM!OrderState BY DEF FSM!OrderState
  <2>4. 0 \in Nat OBVIOUS
  <2> QED BY <2>2, <2>3, <2>4, PutTypes
<1>9. ASSUME NEW o, NEW trigger, NEW kind, NEW qty, Report(o, trigger, kind, qty), Held(o),
             qty \in Nat, o \in OrderIds => qty <= Rest(o),
             kind \in FSM!OrderState \cup {"PARTIAL_FILL"}
      PROVE  BrokerTypes'
  <2>1. /\ FSM!Transition(o, trigger) /\ queue' = Append(queue, Event(o, kind, qty))
        /\ executed' = [executed EXCEPT ![o] = @ + qty]
        /\ parts' \in {parts, [parts EXCEPT ![o] = @ + qty]}
        /\ UNCHANGED <<orders, asked, timedOut>>
    BY <1>9 DEF Report
  <2>2. o \in OrderIds BY <2>1, TransitionFacts DEF DriverWorks
  <2> QED BY <1>9, <2>1, <2>2, PutTypes DEF Held
<1>10. ASSUME NEW o \in OrderIds,
              \/ VenueAccepts(o) \/ VenueRejects(o) \/ VenueCancels(o)
              \/ VenueFills(o) \/ VenueFillsPart(o)
       PROVE  BrokerTypes'
  <2>1. Held(o) BY <1>10 DEF VenueAccepts, VenueRejects, VenueCancels, VenueFills, VenueFillsPart
  <2>2. Rest(o) \in Nat
    <3>1. o \in 1..Len(orders) BY <2>1, RunFacts DEF Held, OrderIds
    <3>2. orders[o] \in Order /\ Rest(o) >= 0 BY <3>1
    <3> QED BY <3>2 DEF Rest, Shares, Order
  <2>3. {"ACCEPTED", "REJECTED", "CANCELED", "FILLED"} \subseteq FSM!OrderState
    BY DEF FSM!OrderState
  <2>4. 0 \in Nat OBVIOUS
  <2>5. PICK trigger, kind, qty : /\ Report(o, trigger, kind, qty) /\ qty \in Nat /\ qty <= Rest(o)
                                  /\ kind \in FSM!OrderState \cup {"PARTIAL_FILL"}
    <3>1. CASE VenueAccepts(o) \/ VenueRejects(o) \/ VenueCancels(o)
      BY <2>2, <2>3, <2>4, <3>1 DEF VenueAccepts, VenueRejects, VenueCancels
    <3>2. CASE VenueFills(o) BY <2>2, <2>3, <3>2 DEF VenueFills
    <3>3. CASE VenueFillsPart(o) BY <2>2, <2>3, <3>3 DEF VenueFillsPart
    <3> QED BY <1>10, <3>1, <3>2, <3>3
  <2> QED BY <1>9, <2>1, <2>5
<1> QED
  BY <1>2, <1>3, <1>4, <1>5, <1>6, <1>7, <1>8, <1>10 DEF Next, Driver, Environment
-----------------------------------------------------------------------------
(* The counters.                                                           *)
LEMMA CountStep ==
  ASSUME RunInv, CountInv, [Next]_vars
  PROVE  CountInv'
<1> USE DEF CountInv, Accounted, InFlight
<1>0. result \in Counters BY DEF RunInv, DriverTypes
<1>1. ASSUME result' = result,
             pc' = pc \/ (pc \in {"bar", "approve", "place"} /\ pc' \notin {"drain", "cancel", "redrain"})
             \/ (pc = "cancel" /\ pc' \in {"redrain", "raised"})
      PROVE  CountInv'
  BY <1>0, <1>1 DEF Counters
<1>2. CASE UNCHANGED vars \/ Environment
  BY <1>1, <1>2 DEF vars, driver, Environment, Arm, Clear, ConnectionLost, VenueAccepts,
     VenueRejects, VenueCancels, VenueFills, VenueFillsPart, Report
<1>3. CASE \/ StartBar \/ EndBar \/ Finish \/ Refuse \/ Approve \/ Raise \/ Skip \/ Progress
           \/ Cancel
  BY <1>1, <1>3 DEF StartBar, EndBar, Finish, Refuse, Approve, Raise, Skip, Progress, Cancel, driver
<1>4. CASE Submit("wire_ack", "SUBMITTED") \/ Submit("wire_reject", "REJECTED")
  <2>1. result' = [result EXCEPT !.submitted = @ + 1] /\ pc = "place" /\ pc' = "drain"
    BY <1>4 DEF Submit
  <2>2. /\ result'.submitted = result.submitted + 1 /\ result'.accepted = result.accepted
        /\ result'.fills = result.fills /\ result'.canceled = result.canceled
        /\ result'.rejected = result.rejected
    BY <1>0, <2>1 DEF Counters
  <2>3. /\ result.submitted \in Nat /\ result.accepted \in Nat /\ result.fills \in Nat
        /\ result.canceled \in Nat /\ result.rejected \in Nat
    BY <1>0 DEF Counters
  <2> QED BY <2>1, <2>2, <2>3
<1>5. CASE TimeOut
  <2>1. CASE reached BY <1>0, <1>5, <2>1 DEF TimeOut, AfterDeadline, AcceptedIf, Counters
  <2>2. CASE ~reached BY <1>0, <1>5, <2>2 DEF TimeOut, AfterDeadline, AcceptedIf, Counters
  <2> QED BY <2>1, <2>2
<1>6. CASE Abandon
  BY <1>0, <1>6 DEF Abandon, Abandoned, Count, Counters
<1>7. ASSUME NEW counter \in {"fills", "canceled", "rejected"}, NEW yes \in BOOLEAN,
             pc = "drain", pc' = "approve", result' = AcceptedIf(yes, Count(counter)),
             counter = "fills" => yes
      PROVE  CountInv'
  <2>1. PICK r : r = Count(counter) OBVIOUS
  <2>2. /\ r \in Counters /\ r.submitted = result.submitted /\ r.accepted = result.accepted
        /\ r.fills = result.fills + (IF counter = "fills" THEN 1 ELSE 0)
        /\ r.canceled = result.canceled + (IF counter = "canceled" THEN 1 ELSE 0)
        /\ r.rejected = result.rejected + (IF counter = "rejected" THEN 1 ELSE 0)
    BY <1>0, <2>1 DEF Count, Counters
  <2>3. /\ r.submitted \in Nat /\ r.accepted \in Nat /\ r.fills \in Nat
        /\ r.canceled \in Nat /\ r.rejected \in Nat
    BY <2>2 DEF Counters
  <2>4. /\ result'.submitted = r.submitted /\ result'.fills = r.fills
        /\ result'.canceled = r.canceled /\ result'.rejected = r.rejected
        /\ yes => result'.accepted = r.accepted + 1
        /\ ~yes => result'.accepted = r.accepted
    <3>1. CASE yes BY <1>7, <2>1, <2>2, <3>1 DEF AcceptedIf, Counters
    <3>2. CASE ~yes BY <1>7, <2>1, <3>2 DEF AcceptedIf
    <3> QED BY <3>1, <3>2
  <2>5. /\ result.submitted \in Nat /\ result.accepted \in Nat /\ result.fills \in Nat
        /\ result.canceled \in Nat /\ result.rejected \in Nat
    BY <1>0 DEF Counters
  <2>6. /\ result.submitted = result.fills + result.canceled + result.rejected + 1
        /\ result.fills <= result.accepted /\ result.accepted < result.submitted
    BY <1>7
  <2>7. result'.submitted = result'.fills + result'.canceled + result'.rejected + 0
    BY <2>2, <2>4, <2>5, <2>6
  <2>8. result'.fills <= result'.accepted /\ result'.accepted <= result'.submitted
    <3>1. CASE yes BY <2>2, <2>4, <2>5, <2>6, <3>1
    <3>2. CASE ~yes BY <1>7, <2>2, <2>4, <2>5, <2>6, <3>2
    <3> QED BY <3>1, <3>2
  <2> QED BY <1>7, <2>7, <2>8
<1>8. CASE Settle("FILLED", "fills") \/ Settle("CANCELED", "canceled")
           \/ Settle("REJECTED", "rejected")
  <2>1. PICK kind \in TerminalStates, counter \in {"fills", "canceled", "rejected"} :
          Settle(kind, counter) /\ (counter = "fills" => kind = "FILLED")
    BY <1>8 DEF TerminalStates
  <2>2. PICK yes \in BOOLEAN : yes <=> (reached \/ kind = "FILLED") OBVIOUS
  <2>3. AcceptedIf(reached \/ kind = "FILLED", Count(counter)) = AcceptedIf(yes, Count(counter))
    BY <2>2 DEF AcceptedIf
  <2> QED BY <1>7, <2>1, <2>2, <2>3 DEF Settle
<1> QED
  BY <1>2, <1>3, <1>4, <1>5, <1>6, <1>8 DEF Next, Driver
-----------------------------------------------------------------------------
(* Fills.                                                                  *)
LEMMA FillsOnly ==
  ASSUME QueueTells, NEW o, NEW trigger, FSM!Transition(o, trigger)
  PROVE  state'[o] = "FILLED" <=> trigger = "fill"
<1>1. PICK t \in FSM!Transitions :
        t.from = state[o] /\ t.trigger = trigger /\ state' = [state EXCEPT ![o] = t.to]
  BY DEF FSM!Transition
<1>2. t.trigger = "fill" <=> t.to = "FILLED" BY DEF FSM!Transitions, FSM!T
<1>3. o \in OrderIds /\ state \in [OrderIds -> FSM!OrderState]
  BY DEF FSM!Transition, QueueTells
<1> QED BY <1>1, <1>2, <1>3

(* An order moves, and what that says in numbers.                          *)
Moves(o, trigger, kind, qty) ==
  /\ FSM!Transition(o, trigger) /\ queue' = Append(queue, Event(o, kind, qty))
  /\ qty \in Nat /\ UNCHANGED <<orders, timedOut>>
  /\ trigger = "fill" <=> kind = "FILLED"
  /\ \A p \in OrderIds : executed'[p] = executed[p] + (IF p = o THEN qty ELSE 0)
  /\ \A p \in OrderIds :
       parts'[p] = parts[p] + (IF p = o /\ kind # "FILLED" THEN qty ELSE 0)

LEMMA PutFill ==
  ASSUME DriverWorks, RunInv, FillInv, NEW o, NEW trigger, NEW kind, NEW qty,
         Moves(o, trigger, kind, qty), pc' = pc \/ (pc = "place" /\ pc' = "drain")
  PROVE  FillInv'
<1> USE DEF FillInv, Moves
<1>1. /\ o \in OrderIds /\ state[o] \notin TerminalStates
      /\ \A p \in OrderIds : p # o => state'[p] = state[p]
  BY TransitionFacts DEF DriverWorks
<1>2. state'[o] = "FILLED" <=> kind = "FILLED" BY FillsOnly DEF DriverWorks
<1>3. executed \in [OrderIds -> Nat] /\ parts \in [OrderIds -> Nat] /\ parts[o] = executed[o]
  BY <1>1 DEF RunInv, BrokerTypes, TerminalStates
<1>4. \A p \in OrderIds : state'[p] # "FILLED" => parts'[p] = executed'[p]
  BY <1>1, <1>2, <1>3
<1>5. \A i \in 1..Len(queue') : queue'[i].kind = "FILLED" =>
        queue'[i].qty = executed'[queue'[i].order] - parts'[queue'[i].order]
  <2>1. /\ queue \in Seq(QueueEvent) /\ Len(queue) \in Nat /\ Len(queue') = Len(queue) + 1
        /\ \A i \in 1..Len(queue) : queue'[i] = queue[i]
        /\ queue'[Len(queue) + 1] = Event(o, kind, qty)
    BY AppendFacts DEF DriverWorks, QueueTells, RunInv, BrokerTypes
  <2> SUFFICES ASSUME NEW i \in 1..Len(queue'), queue'[i].kind = "FILLED"
               PROVE  queue'[i].qty = executed'[queue'[i].order] - parts'[queue'[i].order]
    OBVIOUS
  <2>2. CASE i \in 1..Len(queue)
    <3>1. queue'[i] = queue[i] BY <2>1, <2>2
    <3>2. queue[i].order \in OrderIds /\ state[queue[i].order] = "FILLED"
      BY <2>2, <3>1 DEF DriverWorks, QueueTells, TerminalStates
    <3>3. queue[i].order # o BY <1>1, <3>2 DEF TerminalStates
    <3>4. queue[i].qty = executed[queue[i].order] - parts[queue[i].order] BY <2>2, <3>1
    <3> QED BY <1>3, <3>1, <3>2, <3>3, <3>4
  <2>3. CASE i = Len(queue) + 1
    <3>1. queue'[i].order = o /\ queue'[i].qty = qty /\ kind = "FILLED" BY <2>1, <2>3 DEF Event
    <3>2. executed'[o] = executed[o] + qty /\ parts'[o] = parts[o] + 0 BY <1>1, <3>1
    <3> QED BY <1>1, <1>3, <3>1, <3>2
  <2> QED BY <2>1, <2>2, <2>3
<1>6. pc' \in {"place", "drain"} => Current' \notin timedOut' BY DEF Current
<1>7. \A p \in 1..Len(orders') :
        \/ state'[p] \in TerminalStates \/ p \in timedOut'
        \/ p = Len(orders') /\ pc' \in {"place", "drain", "raised"}
  <2> TAKE p \in 1..Len(orders')
  <2>1. p \in OrderIds BY RunFacts
  <2> QED BY <1>1, <2>1
<1> QED BY <1>4, <1>5, <1>6, <1>7

(* The venue's reports in numbers.                                         *)
LEMMA ReportNumbers ==
  ASSUME RunInv, NEW o \in OrderIds,
         \/ VenueAccepts(o) \/ VenueRejects(o) \/ VenueCancels(o)
         \/ VenueFills(o) \/ VenueFillsPart(o)
  PROVE  \E trigger, kind, qty : /\ Moves(o, trigger, kind, qty) /\ o \in 1..Len(orders)
                                  /\ UNCHANGED <<pc, positions>>
<1>1. executed \in [OrderIds -> Nat] /\ parts \in [OrderIds -> Nat] /\ 0 \in Nat
  BY DEF RunInv, BrokerTypes
<1>2. ASSUME NEW trigger, NEW kind, NEW qty \in Nat, Report(o, trigger, kind, qty), Held(o),
             trigger = "fill" <=> kind = "FILLED", kind \in {"FILLED", "PARTIAL_FILL"} \/ qty = 0
      PROVE  /\ Moves(o, trigger, kind, qty) /\ o \in 1..Len(orders)
             /\ UNCHANGED <<pc, positions>>
  <2>1. /\ FSM!Transition(o, trigger) /\ queue' = Append(queue, Event(o, kind, qty))
        /\ executed' = [executed EXCEPT ![o] = @ + qty]
        /\ parts' = IF kind = "PARTIAL_FILL" THEN [parts EXCEPT ![o] = @ + qty] ELSE parts
        /\ UNCHANGED <<orders, timedOut, pc, positions>>
    BY <1>2 DEF Report, driver
  <2>2. o \in 1..Len(orders) BY <1>2, RunFacts DEF Held, OrderIds
  <2>3. \A p \in OrderIds : executed'[p] = executed[p] + (IF p = o THEN qty ELSE 0)
    BY <1>1, <2>1
  <2>4. \A p \in OrderIds :
          parts'[p] = parts[p] + (IF p = o /\ kind # "FILLED" THEN qty ELSE 0)
    BY <1>1, <1>2, <2>1
  <2> QED BY <1>2, <2>1, <2>2, <2>3, <2>4 DEF Moves
<1>3. Held(o) => Rest(o) \in Nat
  <2> SUFFICES ASSUME Held(o) PROVE Rest(o) \in Nat OBVIOUS
  <2>1. o \in 1..Len(orders) BY RunFacts DEF Held, OrderIds
  <2>2. orders[o] \in Order /\ Rest(o) >= 0 BY <2>1, RunFacts DEF RunInv, BrokerTypes
  <2> QED BY <1>1, <2>2 DEF Rest, Shares, Order
<1>4. CASE VenueAccepts(o) BY <1>1, <1>2, <1>4 DEF VenueAccepts
<1>5. CASE VenueRejects(o) BY <1>1, <1>2, <1>5 DEF VenueRejects
<1>6. CASE VenueCancels(o) BY <1>1, <1>2, <1>6 DEF VenueCancels
<1>7. CASE VenueFills(o) BY <1>2, <1>3, <1>7 DEF VenueFills
<1>8. CASE VenueFillsPart(o)
  <2>1. PICK n \in 1..(Rest(o) - 1) : Report(o, "partial_fill", "PARTIAL_FILL", n) /\ Held(o)
    BY <1>8 DEF VenueFillsPart
  <2>2. n \in Nat BY <1>3, <2>1
  <2> QED BY <1>2, <2>1, <2>2
<1> QED BY <1>4, <1>5, <1>6, <1>7, <1>8
(* The driver takes an event, or none, and neither moves nor fills an order. *)
LEMMA TakeFill ==
  ASSUME DriverWorks, RunInv, FillInv, UNCHANGED <<orders, state, executed, parts>>,
         queue' = queue \/ (queue # <<>> /\ queue' = Tail(queue)),
         timedOut' = timedOut \/ timedOut' = timedOut \cup {Current},
         pc' \in {"place", "drain"} => pc' = pc /\ timedOut' = timedOut,
         pc \in {"place", "drain", "raised"} /\ pc' # pc =>
           pc' = "raised" \/ state[Current] \in TerminalStates \/ Current \in timedOut'
  PROVE  FillInv'
<1> USE DEF FillInv
<1>1. \A i \in 1..Len(queue') : queue'[i].kind = "FILLED" =>
        queue'[i].qty = executed'[queue'[i].order] - parts'[queue'[i].order]
  <2>1. CASE queue' = queue BY <2>1
  <2>2. CASE queue # <<>> /\ queue' = Tail(queue)
    <3>1. \A i \in 1..Len(Tail(queue)) : i + 1 \in 1..Len(queue) /\ Tail(queue)[i] = queue[i + 1]
      BY <2>2, TailFacts DEF DriverWorks, QueueTells
    <3> SUFFICES ASSUME NEW i \in 1..Len(queue'), queue'[i].kind = "FILLED"
                 PROVE  queue'[i].qty = executed'[queue'[i].order] - parts'[queue'[i].order]
      OBVIOUS
    <3>2. i + 1 \in 1..Len(queue) /\ queue'[i] = queue[i + 1] BY <2>2, <3>1
    <3> QED BY <3>2
  <2> QED BY <2>1, <2>2
<1>2. pc' \in {"place", "drain"} => Current' \notin timedOut' BY DEF Current
<1>3. \A o \in 1..Len(orders') :
        \/ state'[o] \in TerminalStates \/ o \in timedOut'
        \/ o = Len(orders') /\ pc' \in {"place", "drain", "raised"}
  BY DEF Current
<1> QED BY <1>1, <1>2, <1>3

LEMMA FillStep ==
  ASSUME DriverWorks, RunInv, FillInv, [Next]_vars
  PROVE  FillInv'
<1>1. CASE \/ UNCHANGED vars \/ Arm \/ Clear \/ ConnectionLost \/ StartBar \/ EndBar \/ Finish
           \/ Refuse \/ Raise
  BY <1>1, TakeFill DEF vars, driver, broker, history, Arm, Clear, ConnectionLost, StartBar,
     EndBar, Finish, Refuse, Raise
<1>2. CASE Skip \/ Progress \/ TimeOut \/ Cancel
  BY <1>2, TakeFill DEF Skip, Progress, TimeOut, AfterDeadline, Cancel, driver, broker, history
<1>3. CASE Abandon
  BY <1>3, TakeFill DEF Abandon, history
<1>4. CASE Settle("FILLED", "fills") \/ Settle("CANCELED", "canceled")
           \/ Settle("REJECTED", "rejected")
  <2>1. /\ pc = "drain" /\ pc' = "approve" /\ queue # <<>> /\ queue' = Tail(queue)
        /\ Head(queue).order = Current /\ Head(queue).kind \in TerminalStates
        /\ UNCHANGED <<orders, state, executed, parts, timedOut>>
    BY <1>4 DEF Settle, ForTarget, TerminalStates, history
  <2>2. state[Current] \in TerminalStates BY <2>1, TakeKeeps DEF DriverWorks
  <2> QED BY <2>1, <2>2, TakeFill
<1>5. CASE Approve
  <2>1. /\ pc = "approve" /\ pc' = "place" /\ orders' = Append(orders, Head(todo))
        /\ FSM!Transition(Len(orders'), "submit_call")
        /\ UNCHANGED <<queue, executed, parts, timedOut>>
    BY <1>5 DEF Approve, history
  <2>2. Len(orders) \in Nat /\ Len(orders') = Len(orders) + 1
    BY <2>1, AppendFacts DEF DriverWorks, QueueTells
  <2>3. /\ Len(orders') \in OrderIds /\ state[Len(orders')] \notin TerminalStates
        /\ \A p \in OrderIds : p # Len(orders') => state'[p] = state[p]
        /\ state'[Len(orders')] # "FILLED"
    BY <2>1, TransitionFacts, FillsOnly DEF DriverWorks
  <2>4. Current' \notin timedOut' BY <2>1, <2>2 DEF Current, RunInv, BrokerTypes
  <2>5. \A o \in OrderIds : state'[o] # "FILLED" => parts'[o] = executed'[o]
    BY <2>1, <2>3 DEF FillInv, TerminalStates
  <2>6. \A o \in 1..Len(orders') :
          \/ state'[o] \in TerminalStates \/ o \in timedOut'
          \/ o = Len(orders') /\ pc' \in {"place", "drain", "raised"}
    <3> TAKE o \in 1..Len(orders')
    <3>1. CASE o \in 1..Len(orders)
      <4>1. o \in OrderIds /\ o # Len(orders') BY <2>2, <3>1, RunFacts
      <4> QED BY <2>1, <2>3, <3>1, <4>1 DEF FillInv
    <3>2. CASE o = Len(orders') BY <2>1, <3>2
    <3> QED BY <2>2, <3>1, <3>2
  <2> QED BY <2>1, <2>4, <2>5, <2>6 DEF FillInv
<1>6. CASE Submit("wire_ack", "SUBMITTED") \/ Submit("wire_reject", "REJECTED")
  <2>1. PICK trigger, kind : /\ Submit(trigger, kind) /\ trigger # "fill" /\ kind # "FILLED"
    BY <1>6
  <2>2. /\ FSM!Transition(Current, trigger) /\ queue' = Append(queue, Event(Current, kind, 0))
        /\ UNCHANGED <<orders, timedOut, executed, parts>> /\ pc = "place" /\ pc' = "drain"
    BY <2>1 DEF Submit
  <2>3. executed \in [OrderIds -> Nat] /\ parts \in [OrderIds -> Nat] /\ 0 \in Nat
    BY DEF RunInv, BrokerTypes
  <2>4. /\ \A p \in OrderIds : executed'[p] = executed[p] + (IF p = Current THEN 0 ELSE 0)
        /\ \A p \in OrderIds :
             parts'[p] = parts[p] + (IF p = Current /\ kind # "FILLED" THEN 0 ELSE 0)
    BY <2>2, <2>3
  <2>5. Moves(Current, trigger, kind, 0) BY <2>1, <2>2, <2>3, <2>4 DEF Moves
  <2> QED BY <2>2, <2>5, PutFill
<1>7. ASSUME NEW o \in OrderIds,
             \/ VenueAccepts(o) \/ VenueRejects(o) \/ VenueCancels(o)
             \/ VenueFills(o) \/ VenueFillsPart(o)
      PROVE  FillInv'
  <2>1. PICK trigger, kind, qty : Moves(o, trigger, kind, qty) /\ UNCHANGED <<pc, positions>>
    BY <1>7, ReportNumbers
  <2> QED BY <2>1, PutFill
<1> QED BY <1>1, <1>2, <1>3, <1>4, <1>5, <1>6, <1>7 DEF Next, Driver, Environment
-----------------------------------------------------------------------------
(* The local view.                                                         *)
LEMMA ViewFacts ==
  ASSUME RunInv, NEW sym
  PROVE  /\ OrdersOf(sym) \in SUBSET (1..Len(orders)) /\ IsFiniteSet(OrdersOf(sym))
         /\ \A o \in 1..Len(orders) : Share(o) \in Int /\ Signed(o) \in Int
         /\ View(sym) \in Int
<1>1. Len(orders) \in Nat BY RunFacts
<1>2. IsFiniteSet(1..Len(orders)) BY <1>1, FS_Interval
<1>3. OrdersOf(sym) \in SUBSET (1..Len(orders)) BY DEF OrdersOf
<1>4. IsFiniteSet(OrdersOf(sym)) BY <1>2, <1>3, FS_Subset
<1>5. \A o \in 1..Len(orders) : executed[o] \in Nat /\ parts[o] \in Nat
  BY RunFacts DEF RunInv, BrokerTypes
<1>6. \A o \in 1..Len(orders) : Share(o) \in Int BY <1>5 DEF Share
<1>7. \A o \in 1..Len(orders) : Signed(o) \in Int BY <1>6 DEF Signed
<1>8. \A o \in OrdersOf(sym) : [p \in 1..Len(orders) |-> Signed(p)][o] \in Int
  BY <1>3, <1>7
<1> QED BY <1>3, <1>4, <1>6, <1>7, <1>8, SumType DEF View

LEMMA NoShare == ASSUME NEW o, Share(o) = 0 PROVE Signed(o) = 0
<1>1. \A z \in Int : -z = 0 - z OBVIOUS
<1>2. Share(o) \in Int /\ 0 - Share(o) = 0 OBVIOUS
<1>3. -Share(o) = 0 BY <1>1, <1>2
<1> QED BY <1>3 DEF Signed

(* Nothing is booked and no share of an order changes.                     *)
LEMMA SameView ==
  ASSUME RunInv, ViewInv, pc # "raised", UNCHANGED <<orders, positions>>,
         \A o \in 1..Len(orders) : Share(o)' = Share(o)
  PROVE  ViewInv'
<1>1. \A o \in 1..Len(orders) : Signed(o)' = Signed(o) BY DEF Signed
<1>2. ASSUME NEW sym \in Symbols PROVE View(sym)' = View(sym)
  <2>1. OrdersOf(sym)' = OrdersOf(sym) BY DEF OrdersOf
  <2>2. [o \in 1..Len(orders') |-> Signed(o)'] = [o \in 1..Len(orders) |-> Signed(o)]
    BY <1>1
  <2> QED BY <2>1, <2>2 DEF View
<1> QED BY <1>2 DEF ViewInv

(* The order the first drain is for gets its share when it is settled.     *)
LEMMA SettleView ==
  ASSUME DriverWorks, RunInv, FillInv, ViewInv, pc = "drain", pc' # "raised",
         UNCHANGED <<orders, executed, parts, timedOut>>,
         \A o \in 1..Len(orders) : o # Current => Share(o)' = Share(o),
         NEW x \in Int, Share(Current)' = x,
         NEW y, y = IF orders[Current].delta > 0 THEN x ELSE -x,
         positions' = [positions EXCEPT ![orders[Current].sym] = @ + y]
  PROVE  ViewInv'
<1>1. Current \in 1..Len(orders) /\ orders[Current] \in Order BY RunFacts DEF AtWork
<1>2. PICK c : c = Current OBVIOUS
<1>5. y \in Int /\ orders[c].sym \in Symbols /\ Current' = c /\ c \in 1..Len(orders)
  BY <1>1, <1>2 DEF Order, Current
<1>6. Signed(c)' = y /\ Signed(c) = 0
  <2>1. Share(c) = 0 BY <1>2 DEF Share, Current
  <2>2. Share(c)' = x BY <1>2 DEF Share, Current
  <2>3. orders'[c].delta = orders[Current].delta BY <1>2
  <2>4. Signed(c)' = y BY <2>2, <2>3 DEF Signed
  <2>5. Signed(c) = 0 BY <2>1, NoShare
  <2> QED BY <2>4, <2>5
<1>7. \A o \in 1..Len(orders) : o # c => Signed(o)' = Signed(o) BY <1>2 DEF Signed
<1>8. ASSUME NEW sym \in Symbols PROVE positions'[sym] = View(sym)'
  <2> DEFINE f == [o \in 1..Len(orders) |-> Signed(o)]
             d == [o \in 1..Len(orders') |-> Signed(o)']
             S == OrdersOf(sym)
  <2>1. S \in SUBSET (1..Len(orders)) /\ IsFiniteSet(S) /\ \A o \in S : f[o] \in Int
    BY ViewFacts
  <2>2. OrdersOf(sym)' = S BY DEF OrdersOf
  <2>3. View(sym) = SumFunctionOnSet(f, S) /\ View(sym)' = SumFunctionOnSet(d, S)
    BY <2>2 DEF View
  <2>4. \A o \in 1..Len(orders) : o # c => d[o] = f[o] BY <1>7
  <2>5. d[c] = y /\ f[c] = 0 BY <1>5, <1>6
  <2>6. View(sym) \in Int /\ positions[sym] = View(sym) /\ positions \in [Symbols -> Int]
    BY ViewFacts DEF ViewInv, RunInv, DriverTypes
  <2> HIDE DEF f, d
  <2>7. CASE orders[c].sym = sym
    <3>1. c \in S BY <1>5, <2>7 DEF OrdersOf
    <3>2. \A o \in S \ {c} : d[o] = f[o] BY <2>1, <2>4
    <3>3. SumFunctionOnSet(d, S) = SumFunctionOnSet(f, S) - f[c] + d[c]
      BY <1>5, <2>1, <2>5, <3>1, <3>2, SumChange
    <3>4. positions'[sym] = positions[sym] + y BY <1>2, <2>6, <2>7
    <3> QED BY <1>5, <2>3, <2>5, <2>6, <3>3, <3>4
  <2>8. CASE orders[c].sym # sym
    <3>1. c \notin S BY <2>8 DEF OrdersOf
    <3>2. \A o \in S : d[o] = f[o] BY <2>1, <2>4, <3>1
    <3>3. SumFunctionOnSet(d, S) = SumFunctionOnSet(f, S) BY <2>1, <3>2, SumExtensional
    <3>4. positions'[sym] = positions[sym] BY <1>2, <2>6, <2>8
    <3> QED BY <2>3, <2>6, <3>3, <3>4
  <2> QED BY <2>7, <2>8
<1> QED BY <1>8 DEF ViewInv
LEMMA ViewStep ==
  ASSUME DriverWorks, RunInv, FillInv, ViewInv, [Next]_vars
  PROVE  ViewInv'
<1>1. ASSUME UNCHANGED <<orders, positions, executed, parts, timedOut>>,
             pc' \in {"place", "drain"} <=> pc \in {"place", "drain"}, pc # "raised"
      PROVE  ViewInv'
  <2>1. \A o \in 1..Len(orders) : Share(o)' = Share(o) BY <1>1 DEF Share
  <2> QED BY <1>1, <2>1, SameView
<1>2. ASSUME pc' = "raised" PROVE ViewInv' BY <1>2 DEF ViewInv
<1>3. CASE Raise BY <1>2, <1>3 DEF Raise
<1>4. CASE \/ UNCHANGED vars \/ Arm \/ Clear \/ ConnectionLost \/ Skip \/ Progress
  <2>1. UNCHANGED <<pc, orders, positions, executed, parts, timedOut>>
    BY <1>4 DEF vars, driver, broker, history, Arm, Clear, ConnectionLost, Skip, Progress
  <2> QED BY <1>1, <1>2, <2>1
<1>5. CASE StartBar \/ EndBar \/ Finish \/ Refuse \/ Cancel \/ Abandon
  BY <1>1, <1>5 DEF StartBar, EndBar, Finish, Refuse, Cancel, Abandon, broker, history
<1>6. CASE Submit("wire_ack", "SUBMITTED") \/ Submit("wire_reject", "REJECTED")
  BY <1>1, <1>6 DEF Submit
<1>7. CASE TimeOut
  <2>1. /\ pc = "drain" /\ pc' = "cancel" /\ timedOut' = timedOut \cup {Current}
        /\ UNCHANGED <<orders, positions, executed, parts>>
    BY <1>7 DEF TimeOut, AfterDeadline, broker
  <2>2. \A o \in 1..Len(orders) : Share(o)' = Share(o) BY <2>1 DEF Share, Current
  <2> QED BY <2>1, <2>2, SameView
<1>8. CASE Settle("CANCELED", "canceled") \/ Settle("REJECTED", "rejected")
  <2>1. /\ pc = "drain" /\ pc' = "approve" /\ queue # <<>> /\ queue' = Tail(queue)
        /\ Head(queue).order = Current /\ Head(queue).kind \in {"CANCELED", "REJECTED"}
        /\ UNCHANGED <<orders, state, executed, parts, timedOut, positions>>
    BY <1>8 DEF Settle, ForTarget, history
  <2>2. 1 \in 1..Len(queue) /\ Head(queue) = queue[1]
    BY <2>1, TailFacts DEF DriverWorks, QueueTells
  <2>3. Current \in OrderIds /\ state[Current] = Head(queue).kind
    BY <2>1, <2>2 DEF DriverWorks, QueueTells, TerminalStates
  <2>4. parts[Current] = executed[Current] /\ parts[Current] \in Nat
    BY <2>1, <2>3 DEF FillInv, RunInv, BrokerTypes
  <2>5. \A o \in 1..Len(orders) : Share(o)' = Share(o)
    <3> TAKE o \in 1..Len(orders)
    <3>1. CASE o = Current BY <2>1, <2>4, <3>1 DEF Share, Current
    <3>2. CASE o # Current BY <2>1, <3>2 DEF Share, Current
    <3> QED BY <3>1, <3>2
  <2> QED BY <2>1, <2>5, SameView
<1>9. CASE Settle("FILLED", "fills")
  <2>1. /\ pc = "drain" /\ pc' = "approve" /\ queue # <<>>
        /\ Head(queue).order = Current /\ Head(queue).kind = "FILLED"
        /\ UNCHANGED <<orders, executed, parts, timedOut>>
        /\ positions' = [positions EXCEPT ![orders[Current].sym] = @ + Booked(Current, Head(queue))]
    BY <1>9 DEF Settle, ForTarget, history
  <2>2. 1 \in 1..Len(queue) /\ Head(queue) = queue[1]
    BY <2>1, TailFacts DEF DriverWorks, QueueTells
  <2>3. Head(queue).qty = executed[Current] - parts[Current] BY <2>1, <2>2 DEF FillInv
  <2>4. Current \in OrderIds /\ Current \notin timedOut
    BY <2>1, RunFacts DEF FillInv, AtWork
  <2>5. Share(Current)' = executed[Current] - parts[Current] BY <2>1, <2>4 DEF Share, Current
  <2>6. Share(Current)' \in Int BY <2>4, <2>5 DEF RunInv, BrokerTypes
  <2>7. \A o \in 1..Len(orders) : o # Current => Share(o)' = Share(o)
    BY <2>1 DEF Share, Current
  <2>8. PICK x : x = Share(Current)' OBVIOUS
  <2>9. Booked(Current, Head(queue)) = IF orders[Current].delta > 0 THEN x ELSE -x
    BY <2>3, <2>5, <2>8 DEF Booked
  <2> QED BY <2>1, <2>6, <2>7, <2>8, <2>9, SettleView
<1>10. CASE Approve
  <2>1. /\ pc = "approve" /\ pc' = "place" /\ orders' = Append(orders, Head(todo)) /\ todo # <<>>
        /\ UNCHANGED <<executed, parts, timedOut, positions>>
    BY <1>10 DEF Approve, history
  <2>2. PICK n : n = Len(orders) OBVIOUS
  <2>3. /\ n \in Nat /\ Len(orders') = n + 1 /\ orders' [n + 1] = Head(todo)
        /\ \A o \in 1..n : orders'[o] = orders[o]
    BY <2>1, <2>2, AppendFacts DEF DriverWorks, QueueTells
  <2>4. /\ \A o \in 1..n : Signed(o)' = Signed(o)
        /\ Signed(n + 1)' = 0
    <3>1. Share(n + 1)' = 0 BY <2>1, <2>3 DEF Share
    <3>2. \A o \in 1..n : Share(o)' = Share(o) BY <2>1, <2>2, <2>3 DEF Share
    <3>3. Signed(n + 1)' = 0 BY <3>1 DEF Signed
    <3>4. \A o \in 1..n : Signed(o)' = Signed(o) BY <2>3, <3>2 DEF Signed
    <3> QED BY <3>3, <3>4
  <2>5. ASSUME NEW sym \in Symbols PROVE View(sym)' = View(sym)
    <3> DEFINE f == [o \in 1..Len(orders) |-> Signed(o)]
               d == [o \in 1..Len(orders') |-> Signed(o)']
               S == OrdersOf(sym)
    <3>1. /\ S \in SUBSET (1..n) /\ IsFiniteSet(S) /\ View(sym) \in Int
          /\ \A o \in S : f[o] \in Int /\ d[o] = f[o]
      BY <2>2, <2>3, <2>4, ViewFacts
    <3>2. /\ View(sym) = SumFunctionOnSet(f, S)
          /\ View(sym)' = SumFunctionOnSet(d, OrdersOf(sym)')
      BY DEF View
    <3>3. OrdersOf(sym)' = IF Head(todo).sym = sym THEN S \cup {n + 1} ELSE S
      BY <2>2, <2>3 DEF OrdersOf
    <3>4. d[n + 1] = 0 BY <2>3, <2>4
    <3>5. n + 1 \notin S BY <2>3, <3>1
    <3> HIDE DEF f, d, S
    <3>6. SumFunctionOnSet(d, S) = SumFunctionOnSet(f, S) BY <3>1, SumExtensional
    <3>7. \A o \in S : d[o] \in Int BY <3>1
    <3>8. SumFunctionOnSet(d, S \cup {n + 1}) = SumFunctionOnSet(d, S) + d[n + 1]
      <4>1. d[n + 1] \in Int BY <3>4
      <4>2. IsFiniteSet(S) BY <3>1
      <4> QED BY <3>5, <3>7, <4>1, <4>2, SumAdd
    <3> QED BY <3>1, <3>2, <3>3, <3>4, <3>6, <3>8
  <2> QED BY <2>1, <2>5 DEF ViewInv
<1>11. ASSUME NEW o \in OrderIds,
              \/ VenueAccepts(o) \/ VenueRejects(o) \/ VenueCancels(o)
              \/ VenueFills(o) \/ VenueFillsPart(o)
       PROVE  ViewInv'
  <2>1. PICK trigger, kind, qty :
          Moves(o, trigger, kind, qty) /\ o \in 1..Len(orders) /\ UNCHANGED <<pc, positions>>
    BY <1>11, ReportNumbers
  <2>2. state[o] \notin TerminalStates BY <2>1, TransitionFacts DEF DriverWorks, Moves
  <2>3. CASE pc = "raised" BY <1>2, <2>1, <2>3
  <2>4. CASE pc # "raised"
    <3>1. o \in timedOut \/ (o = Len(orders) /\ pc \in {"place", "drain"})
      BY <2>1, <2>2, <2>4 DEF FillInv
    <3>2. \A p \in 1..Len(orders) : Share(p)' = Share(p)
      <4> TAKE p \in 1..Len(orders)
      <4>1. CASE p = o BY <2>1, <3>1, <4>1 DEF Share, Moves
      <4>2. CASE p # o
        <5>1. p \in OrderIds /\ executed[p] \in Nat /\ parts[p] \in Nat
          BY RunFacts DEF RunInv, BrokerTypes
        <5>2. executed'[p] = executed[p] /\ parts'[p] = parts[p] BY <2>1, <4>2, <5>1 DEF Moves
        <5> QED BY <2>1, <5>2 DEF Share, Moves
      <4> QED BY <4>1, <4>2
    <3> QED BY <2>1, <2>4, <3>2, SameView DEF Moves
  <2> QED BY <2>3, <2>4
<1> QED
  BY <1>3, <1>4, <1>5, <1>6, <1>7, <1>8, <1>9, <1>10, <1>11 DEF Next, Driver, Environment
-----------------------------------------------------------------------------
DriverWhole == DriverWorks /\ RunInv /\ CountInv /\ FillInv /\ ViewInv

LEMMA WholeStarts == Init => DriverWhole
<1> SUFFICES ASSUME Init PROVE DriverWhole OBVIOUS
<1> USE DEF Init
<1>1. <<>> \in Seq({}) /\ <<>> \in Seq(Order) /\ <<>> \in Seq(QueueEvent) /\ Len(<<>>) = 0
  OBVIOUS
<1>2. IsSequence(<<>>) BY <1>1 DEF IsSequence
<1>3. FSM!TypeOK BY DEF FSM!Init, FSM!TypeOK, FSM!OrderState
<1>4. \A o \in OrderIds : state[o] = "INITIALIZED" BY DEF FSM!Init
<1>5. DriverWorks
  BY <1>1, <1>2, <1>3 DEF DriverWorks, QueueTells, LastOnly, FSM!TypeOK
<1>6. BrokerTypes BY <1>1, <1>3 DEF BrokerTypes
<1>7. Len(Instruments) \in Nat /\ MaxBars \in Nat BY DriverAssumption
<1>8. MaxBars * Len(Instruments) \in Nat BY <1>7
<1>9. Len(orders) + Len(todo) + (MaxBars - bar) * Len(Instruments) <= MaxOrders
  <2>1. MaxBars - bar = MaxBars /\ Len(orders) = 0 /\ Len(todo) = 0 BY <1>1, <1>7
  <2> QED BY <1>7, <1>8, <2>1 DEF MaxOrders
<1>10. result \in Counters BY DEF Counters
<1>11. DriverTypes
  <2>1. bar \in 0..MaxBars /\ todo \in Seq(Order) /\ whileArmed \in Nat BY <1>1, <1>7
  <2>2. reached \in BOOLEAN /\ armed \in BOOLEAN /\ connected \in BOOLEAN OBVIOUS
  <2>3. positions \in [Symbols -> Int] OBVIOUS
  <2>4. pc = "bar" /\ todo = <<>> /\ pc \notin AtWork BY DEF AtWork
  <2> QED BY <1>9, <1>10, <2>1, <2>2, <2>3, <2>4 DEF DriverTypes
<1>12. CountInv BY DEF CountInv, Accounted, InFlight
<1>13. FillInv BY <1>1, <1>4 DEF FillInv
<1>14. ViewInv
  <2> SUFFICES ASSUME NEW sym \in Symbols PROVE positions[sym] = View(sym) BY DEF ViewInv
  <2>1. OrdersOf(sym) = {} BY <1>1 DEF OrdersOf
  <2>2. View(sym) = 0 BY <2>1, SumEmpty DEF View
  <2> QED BY <2>2
<1> QED BY <1>5, <1>6, <1>11, <1>12, <1>13, <1>14 DEF DriverWhole, RunInv

LEMMA WholeKept == DriverWhole /\ [Next]_vars => DriverWhole'
<1> SUFFICES ASSUME DriverWhole, [Next]_vars PROVE DriverWhole' OBVIOUS
<1> USE DEF DriverWhole
<1>1. DriverWorks' BY StepWorks
<1>2. RunInv' BY DriverStep, BrokerStep DEF RunInv
<1> QED BY <1>1, <1>2, CountStep, FillStep, ViewStep

(* The types hold, no order is executed beyond its quantity, and every     *)
(* submitted order is counted under exactly one outcome                    *)
(* (ib_pipeline.py IBMultiRunResult, run_ib_multi_pipeline).               *)
THEOREM OutcomesAddUp == Spec => []DriverInv
<1>1. DriverWhole => DriverInv
  <2> SUFFICES ASSUME DriverWhole PROVE DriverInv OBVIOUS
  <2>1. TypeOK
    <3>1. /\ timedOut \subseteq OrderIds
      BY RunFacts DEF DriverWhole, RunInv, BrokerTypes
    <3> QED BY <3>1 DEF TypeOK, DriverWhole, RunInv, DriverTypes, BrokerTypes, Counters, QueueEvent
  <2> QED BY <2>1 DEF DriverInv, DriverWhole, CountInv
<1> QED BY <1>1, WholeStarts, WholeKept, PTL DEF Spec

(* Between orders, the local view lacks exactly the partial fills of       *)
(* settled orders and all that was executed for orders given up at the     *)
(* deadline; no event is booked twice, and none for another order          *)
(* (ib_pipeline.py _drain_order_lifecycle, apply_fill).                    *)
THEOREM ViewLagsByThis == Spec => []LocalViewLag
<1>1. DriverWhole => LocalViewLag
  <2> SUFFICES ASSUME DriverWhole, pc \in {"bar", "approve", "done"}, NEW sym \in Symbols
               PROVE  positions[sym] =
                        Total(sym, LAMBDA o : IF o \in timedOut THEN 0 ELSE executed[o] - parts[o])
    BY DEF LocalViewLag
  <2> DEFINE own(o) == IF o \in timedOut THEN 0 ELSE executed[o] - parts[o]
  <2>1. \A o \in 1..Len(orders) : Signed(o) = IF orders[o].delta > 0 THEN own(o) ELSE -own(o)
    BY DEF Signed, Share
  <2>2. [o \in 1..Len(orders) |-> Signed(o)] =
        [o \in 1..Len(orders) |-> IF orders[o].delta > 0 THEN own(o) ELSE -own(o)]
    BY <2>1
  <2>3. View(sym) = Total(sym, own) BY <2>2 DEF View, Total
  <2> QED BY <2>3 DEF DriverWhole, ViewInv
<1> QED BY <1>1, WholeStarts, WholeKept, PTL DEF Spec
==============================================================================
