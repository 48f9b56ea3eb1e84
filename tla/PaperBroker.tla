---------------------------- MODULE PaperBroker ----------------------------
(***************************************************************************)
(* The in-process paper broker (blive/adapters/paper/broker.py).  Each     *)
(* accepted submit starts a lifecycle task that sleeps before SUBMITTED,   *)
(* before ACCEPTED and, for a market order, before FILLED, and after each  *)
(* sleep looks whether its order is still open.  submit, cancel, replace   *)
(* and disconnect run between any two of those steps.  The lifecycle keeps *)
(* the Order object it was started with.                                   *)
(***************************************************************************)
EXTENDS Naturals, Sequences, FiniteSets

CONSTANTS
  Orders,        \* client order ids
  Quantities,    \* order quantities, above 0
  MaxSubmits     \* bound: lifecycles ever started

VARIABLES
  connected,   \* _connected
  openOrders,  \* _open_orders: the order of an id, NotOpen when absent
  venueIdOf,   \* _venue_id_by_order: sequence number of the venue id, 0 when absent
  lives,       \* lifecycle tasks, by venue id sequence number
  emitted,     \* OrderEvents put on _events, per id
  stranded,    \* history: ids that were open when the broker disconnected
  lost         \* history: venue ids closed by a failed price lookup

brokerVars == <<connected, openOrders, venueIdOf, lives, emitted, stranded, lost>>

OrderData == [type : {"MKT", "LMT"}, qty : Quantities]
NotOpen == [type |-> "none", qty |-> 0]

VenueIds == 1..MaxSubmits

(* asleep: the event the lifecycle puts when it wakes; done: it returned.  *)
Life == [order : Orders, held : OrderData, pc : {"SUBMITTED", "ACCEPTED", "FILLED", "done"}]

TerminalKinds == {"FILLED", "CANCELED"}

Event(kind, venue, qty) == [kind |-> kind, venue |-> venue, qty |-> qty]
Events == [kind : {"SUBMITTED", "ACCEPTED"} \cup TerminalKinds,
           venue : VenueIds, qty : Quantities \cup {0}]

Put(o, ev) == emitted' = [emitted EXCEPT ![o] = Append(@, ev)]

IsOpen(o) == openOrders[o] # NotOpen
-----------------------------------------------------------------------------
Connect ==
  /\ ~connected
  /\ connected' = TRUE
  /\ UNCHANGED <<openOrders, venueIdOf, lives, emitted, stranded, lost>>


CancelLives == [v \in DOMAIN lives |-> [lives[v] EXCEPT !.pc = "done"]]

(* Every lifecycle is cancelled; the open orders stay in the book.         *)
Disconnect ==
  /\ connected
  /\ connected' = FALSE
  /\ lives' = CancelLives
  /\ stranded' = {o \in Orders : IsOpen(o)}
  /\ UNCHANGED <<openOrders, venueIdOf, emitted, lost>>

Mint == Len(lives) + 1

(* An id in the book is a no-op; any other id starts a lifecycle.          *)
Submit(o, order) ==
  /\ connected
  /\ ~IsOpen(o)
  /\ Len(lives) < MaxSubmits
  /\ openOrders' = [openOrders EXCEPT ![o] = order]
  /\ venueIdOf' = [venueIdOf EXCEPT ![o] = Mint]
  /\ lives' = Append(lives, [order |-> o, held |-> order, pc |-> "SUBMITTED"])
  /\ UNCHANGED <<connected, emitted, stranded, lost>>

Cancel(o) ==
  /\ IsOpen(o)
  /\ openOrders' = [openOrders EXCEPT ![o] = NotOpen]
  /\ Put(o, Event("CANCELED", venueIdOf[o], 0))
  /\ stranded' = stranded \ {o}
  /\ UNCHANGED <<connected, venueIdOf, lives, lost>>

Replace(o, qty) ==
  /\ IsOpen(o)
  /\ openOrders' = [openOrders EXCEPT ![o].qty = qty]
  /\ UNCHANGED <<connected, venueIdOf, lives, emitted, stranded, lost>>
-----------------------------------------------------------------------------
(* The lifecycle of venue id v, one action per wake-up.                    *)
Wakes(v, pc) == v \in DOMAIN lives /\ lives[v].pc = pc

Goto(v, pc) == lives' = [lives EXCEPT ![v].pc = pc]

StillOpenUnchecked(o) == TRUE      \* mutant: the book is not re-read

StillOpen(o) == IsOpen(o)

ExitSilently(v) ==
  /\ v \in DOMAIN lives /\ lives[v].pc # "done"
  /\ ~StillOpen(lives[v].order)
  /\ Goto(v, "done")
  /\ UNCHANGED <<connected, openOrders, venueIdOf, emitted, stranded, lost>>

PutSubmitted(v) ==
  /\ Wakes(v, "SUBMITTED") /\ StillOpen(lives[v].order)
  /\ Put(lives[v].order, Event("SUBMITTED", v, 0))
  /\ Goto(v, "ACCEPTED")
  /\ UNCHANGED <<connected, openOrders, venueIdOf, stranded, lost>>

(* mutant: the limit-order test is inverted                                *)
AfterAcceptInverted(v) == IF lives[v].held.type = "LMT" THEN "FILLED" ELSE "done"

AfterAccept(v) == IF lives[v].held.type = "MKT" THEN "FILLED" ELSE "done"

PutAccepted(v) ==
  /\ Wakes(v, "ACCEPTED") /\ StillOpen(lives[v].order)
  /\ Put(lives[v].order, Event("ACCEPTED", v, 0))
  /\ Goto(v, AfterAccept(v))
  /\ UNCHANGED <<connected, openOrders, venueIdOf, stranded, lost>>

CloseNot(o) == openOrders          \* mutant: del _open_orders[..] is lost

Close(o) == [openOrders EXCEPT ![o] = NotOpen]

PutFilled(v) ==
  LET o == lives[v].order IN
  /\ Wakes(v, "FILLED") /\ StillOpen(o)
  /\ openOrders' = Close(o)
  /\ Put(o, Event("FILLED", v, lives[v].held.qty))
  /\ Goto(v, "done")
  /\ stranded' = stranded \ {o}
  /\ UNCHANGED <<connected, venueIdOf, lost>>

(* price_lookup raises after the order has left the book: the task dies.   *)
PriceLookupFails(v) ==
  LET o == lives[v].order IN
  /\ Wakes(v, "FILLED") /\ StillOpen(o)
  /\ openOrders' = Close(o)
  /\ Goto(v, "done")
  /\ stranded' = stranded \ {o}
  /\ lost' = lost \cup {v}
  /\ UNCHANGED <<connected, venueIdOf, emitted>>
-----------------------------------------------------------------------------
BrokerInit ==
  /\ connected = FALSE
  /\ openOrders = [o \in Orders |-> NotOpen]
  /\ venueIdOf = [o \in Orders |-> 0]
  /\ lives = <<>>
  /\ emitted = [o \in Orders |-> <<>>]
  /\ stranded = {} /\ lost = {}

LifecycleStep(v) ==
  \/ ExitSilently(v) \/ PutSubmitted(v) \/ PutAccepted(v)
  \/ PutFilled(v) \/ PriceLookupFails(v)

BrokerNext ==
  \/ Connect \/ Disconnect
  \/ \E o \in Orders :
       \/ Cancel(o)
       \/ \E order \in OrderData : Submit(o, order)
       \/ \E qty \in Quantities : Replace(o, qty)
  \/ \E v \in VenueIds : LifecycleStep(v)

(* Sleeps end and the loop resumes the sleeper; callers promise nothing.   *)
Fairness == \A v \in VenueIds : WF_brokerVars(LifecycleStep(v))

BrokerSpec == BrokerInit /\ [][BrokerNext]_brokerVars
BrokerFairSpec == BrokerSpec /\ Fairness
-----------------------------------------------------------------------------
(* Properties.                                                             *)

(* Type invariant of the broker's state.                                   *)
BrokerTypeOK ==
  /\ connected \in BOOLEAN
  /\ openOrders \in [Orders -> OrderData \cup {NotOpen}]
  /\ venueIdOf \in [Orders -> VenueIds \cup {0}]
  /\ lives \in Seq(Life) /\ Len(lives) <= MaxSubmits
  /\ emitted \in [Orders -> Seq(Events)]
  /\ stranded \subseteq Orders /\ lost \subseteq VenueIds

(* Every accepted submit is paid by exactly one terminal event, unless its *)
(* order is still in the book or its price lookup failed: with a cancel    *)
(* and a resubmit between two steps of a lifecycle, the old lifecycle and  *)
(* the new one share the id.                                               *)
Submits(o) == Cardinality({v \in DOMAIN lives : lives[v].order = o})
Terminals(o) == Cardinality({i \in DOMAIN emitted[o] : emitted[o][i].kind \in TerminalKinds})

OneTerminalPerSubmit ==
  \A o \in Orders :
    Submits(o) = Terminals(o) + (IF IsOpen(o) THEN 1 ELSE 0)
                 + Cardinality({v \in lost : lives[v].order = o})

(* An open order has a lifecycle that will still act on it, unless it is a *)
(* resting limit order or it was in the book at a disconnect: the only     *)
(* orders that cancel alone can close.                                     *)
OpenIsWatched ==
  \A o \in Orders : IsOpen(o) =>
    \/ o \in stranded
    \/ openOrders[o].type = "LMT"
    \/ \E v \in DOMAIN lives : lives[v].order = o /\ lives[v].pc # "done"

(* The book: what it holds is watched, and every submit it took is paid.   *)
BookInv == BrokerTypeOK /\ OpenIsWatched /\ OneTerminalPerSubmit

(* A market order that stays connected is settled.                         *)
MarketOrderSettles ==
  \A o \in Orders : openOrders[o].type = "MKT" ~> (~IsOpen(o) \/ o \in stranded)

(* INV-13: the state of an order is the one its last event left it in.     *)
StateOf(o) ==
  IF emitted[o] = <<>>
  THEN IF venueIdOf[o] = 0 THEN "INITIALIZED" ELSE "SUBMIT_PENDING"
  ELSE emitted[o][Len(emitted[o])].kind

FSM == INSTANCE OrderFSM WITH state <- [o \in Orders |-> StateOf(o)]

(* The events of an id submitted once walk the table of the order FSM; the *)
(* one exception is a cancel that overtakes the SUBMITTED event.           *)
WalksFSM ==
  [][\A o \in Orders : emitted'[o] # emitted[o] =>
       LET kind == emitted'[o][Len(emitted'[o])].kind IN
       \/ StateOf(o) \in FSM!LegalBefore(kind)
       \/ Submits(o) > 1
       \/ kind = "CANCELED" /\ emitted[o] = <<>>]_brokerVars
-----------------------------------------------------------------------------
(* What the module's docstring says and the code does not do: broker.py    *)
(* 10-12, limit orders are held in the book until canceled.                *)
LimitOrdersRest ==
  [][\A o \in Orders : openOrders[o].type = "LMT" /\ emitted'[o] # emitted[o] =>
       emitted'[o][Len(emitted'[o])].kind # "FILLED"]_brokerVars
=============================================================================
