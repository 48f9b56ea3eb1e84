---------------------------- MODULE IGMarketData ----------------------------
(***************************************************************************)
(* The subscriptions of blive/adapters/ig/market_data.py: subscribe_bars   *)
(* and unsubscribe over a budget of slots (a semaphore) and a streaming    *)
(* source.  Calls of different coroutines interleave at every await, may   *)
(* fail there, and may be cancelled there: a cancellation is no Exception  *)
(* and passes the handler that gives the slot back.                        *)
(***************************************************************************)
EXTENDS Integers, FiniteSets

CONSTANTS
  Tasks,        \* coroutines that may be inside a call together
  Instruments,
  Slots,        \* max_concurrent_subscriptions
  MaxStreams    \* bound: subscriptions the source makes

ASSUME SubscriptionsAssumption ==
  /\ IsFiniteSet(Tasks) /\ IsFiniteSet(Instruments)
  /\ Slots \in Nat /\ MaxStreams \in Nat

VARIABLES
  free,       \* _subscription_budget: its value
  active,     \* _active: the stream of an instrument, 0 for none
  task,       \* where each coroutine is suspended
  online,     \* source: connected
  open,       \* source: streams it has open
  made,       \* source: number of streams made
  cancelled,  \* history: slots kept by subscribes cancelled after acquire
  replaced,   \* history: streams another subscribe put its own in the place of
  stray       \* history: streams whose subscribe was cancelled or whose
              \* unsubscribe did not succeed

sourceVars == <<online, open, made>>
subscriptionVars == <<free, active, task, sourceVars, cancelled, replaced, stray>>

Streams == 1..MaxStreams
NoCall == [at |-> "idle"]
Points == {"acquire", "resolve", "connect", "subscribe"}
Subscribing(i, at, s) == [at |-> at, instrument |-> i, stream |-> s]
IsAt(t, at) == task[t].at = at
HoldsSlot(t) == task[t].at \in {"resolve", "connect", "subscribe", "unsubscribe"}

Goto(t, at) == task' = [task EXCEPT ![t].at = at]
Leave(t) == task' = [task EXCEPT ![t] = NoCall]
-----------------------------------------------------------------------------
(* An instrument that is subscribed already raises; else wait for a slot.  *)
SubscribeBars(t, i) ==
  /\ task[t] = NoCall /\ active[i] = 0
  /\ task' = [task EXCEPT ![t] = Subscribing(i, "acquire", 0)]
  /\ UNCHANGED <<free, active, sourceVars, cancelled, replaced, stray>>

Acquire(t) ==
  /\ IsAt(t, "acquire") /\ free > 0 /\ free' = free - 1
  /\ Goto(t, "resolve")
  /\ UNCHANGED <<active, sourceVars, cancelled, replaced, stray>>

Resolve(t) ==
  /\ IsAt(t, "resolve") /\ Goto(t, "connect")
  /\ UNCHANGED <<free, active, sourceVars, cancelled, replaced, stray>>

ConnectSource(t) ==
  /\ IsAt(t, "connect") /\ Goto(t, "subscribe") /\ online' = TRUE
  /\ UNCHANGED <<free, active, open, made, cancelled, replaced, stray>>

(* The source makes the stream; the coroutine that asked has yet to run.   *)
SourceSubscribes(t) ==
  /\ IsAt(t, "subscribe") /\ task[t].stream = 0 /\ online /\ made < MaxStreams
  /\ made' = made + 1 /\ open' = open \cup {made'}
  /\ task' = [task EXCEPT ![t].stream = made']
  /\ UNCHANGED <<free, active, online, cancelled, replaced, stray>>

(* The stream is stored, in the place of one that an overlapping subscribe *)
(* of this instrument stored.                                              *)
Subscribed(t) ==
  /\ IsAt(t, "subscribe") /\ task[t].stream # 0
  /\ active' = [active EXCEPT ![task[t].instrument] = task[t].stream]
  /\ replaced' = replaced \cup ({active[task[t].instrument]} \ {0})
  /\ Leave(t)
  /\ UNCHANGED <<free, sourceVars, cancelled, stray>>

(* resolve, connect or subscribe raises.                                   *)
SubscribeFailsKeeping(t) ==    \* mutant: the slot is not given back
  /\ task[t].at \in Points \ {"acquire"} /\ task[t].stream = 0
  /\ Leave(t)
  /\ UNCHANGED <<free, active, sourceVars, cancelled, replaced, stray>>

SubscribeFails(t) ==
  /\ task[t].at \in Points \ {"acquire"} /\ task[t].stream = 0
  /\ free' = free + 1 /\ Leave(t)
  /\ UNCHANGED <<active, sourceVars, cancelled, replaced, stray>>

SubscribeCancelled(t) ==
  /\ task[t].at \in Points /\ Leave(t)
  /\ cancelled' = IF HoldsSlot(t) THEN cancelled + 1 ELSE cancelled
  /\ stray' = stray \cup ({task[t].stream} \ {0})
  /\ UNCHANGED <<free, active, sourceVars, replaced>>
-----------------------------------------------------------------------------
(* An instrument that is not subscribed is a no-op.                        *)
UnsubscribeReadsOnly(t, i) ==    \* mutant: the entry is read, not popped
  /\ task[t] = NoCall /\ active[i] # 0
  /\ task' = [task EXCEPT ![t] = Subscribing(i, "unsubscribe", active[i])]
  /\ UNCHANGED <<free, active, sourceVars, cancelled, replaced, stray>>

Unsubscribe(t, i) ==
  /\ task[t] = NoCall /\ active[i] # 0
  /\ active' = [active EXCEPT ![i] = 0]
  /\ task' = [task EXCEPT ![t] = Subscribing(i, "unsubscribe", active[i])]
  /\ UNCHANGED <<free, sourceVars, cancelled, replaced, stray>>

Unsubscribed(t) ==
  /\ IsAt(t, "unsubscribe")
  /\ open' = open \ {task[t].stream} /\ free' = free + 1 /\ Leave(t)
  /\ UNCHANGED <<active, online, made, cancelled, replaced, stray>>

(* It raises or is cancelled: the finally block gives the slot back.       *)
UnsubscribeFails(t) ==
  /\ IsAt(t, "unsubscribe")
  /\ stray' = stray \cup {task[t].stream}
  /\ free' = free + 1 /\ Leave(t)
  /\ UNCHANGED <<active, sourceVars, cancelled, replaced>>

(* The source is disconnected: it closes every stream.                     *)
SourceDisconnects ==
  /\ online /\ online' = FALSE /\ open' = {}
  /\ UNCHANGED <<free, active, task, made, cancelled, replaced, stray>>
-----------------------------------------------------------------------------
SubscriptionsInit ==
  /\ free = Slots /\ active = [i \in Instruments |-> 0]
  /\ task = [t \in Tasks |-> NoCall]
  /\ online = FALSE /\ open = {} /\ made = 0
  /\ cancelled = 0 /\ replaced = {} /\ stray = {}

SubscriptionsNext ==
  \/ \E t \in Tasks, i \in Instruments : SubscribeBars(t, i) \/ Unsubscribe(t, i)
  \/ \E t \in Tasks :
       \/ Acquire(t) \/ Resolve(t) \/ ConnectSource(t) \/ SourceSubscribes(t) \/ Subscribed(t)
       \/ SubscribeFails(t) \/ SubscribeCancelled(t)
       \/ Unsubscribed(t) \/ UnsubscribeFails(t)
  \/ SourceDisconnects

SubscriptionsSpec == SubscriptionsInit /\ [][SubscriptionsNext]_subscriptionVars
-----------------------------------------------------------------------------
(* Properties.                                                             *)

Calls == {t \in Tasks : HoldsSlot(t)}
Live == {i \in Instruments : active[i] # 0}

(* Every slot is free, held by a call, or held by an active instrument,    *)
(* except those kept by cancelled subscribes and those of a stream that    *)
(* was replaced: none is lost in another way, and none is freed twice.     *)
SlotsAccounted ==
  free + Cardinality(Calls) + Cardinality(Live) + cancelled + Cardinality(replaced) = Slots

(* The source has no more streams open than there are slots, not counting  *)
(* those whose unsubscribe failed.                                         *)
WithinBudget == Cardinality(open \ stray) <= Slots

(* A stream that is open belongs to an instrument, or to a call that is    *)
(* under way; one that belongs to nobody was replaced or left behind by a  *)
(* call that was cancelled or failed.  And no stream belongs to two.       *)
OwnedOnce ==
  /\ open \subseteq {active[i] : i \in Instruments} \cup {task[t].stream : t \in Calls}
                    \cup replaced \cup stray
  /\ \A i, j \in Live : active[i] = active[j] => i = j
  /\ \A t \in Calls, i \in Live : task[t].stream # active[i]

StreamsInv == WithinBudget /\ OwnedOnce

(* Every slot and every stream is accounted for.                           *)
SubscriptionsInv == SlotsAccounted /\ StreamsInv
=============================================================================
