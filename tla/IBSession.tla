----------------------------- MODULE IBSession -----------------------------
(***************************************************************************)
(* The session side of blive/adapters/ib/broker.py: connect and disconnect *)
(* over the client of ib/client.py, the rows of account values that IB     *)
(* pushes, and the timer task that emits an AccountUpdate when a value has *)
(* moved by its threshold.  Calls of different coroutines may overlap.     *)
(***************************************************************************)
EXTENDS Integers, FiniteSets, SequencesExt

CONSTANTS
  Sessions,   \* coroutines that call connect and disconnect
  Values,     \* values each row may have
  Threshold,  \* a move of this size is emitted
  MaxEvents   \* bound: events put before the last connect or tick

(* Rows of the account: the net liquidation value of the whole account and *)
(* of its base currency, and the cash in another currency.                 *)
Rows == {"BASE", "GBP", "USD cash"}

ASSUME SessionAssumption ==
  /\ IsFiniteSet(Sessions) /\ Values \in [Rows -> SUBSET Int]
  /\ Threshold \in Nat /\ MaxEvents \in Nat

(* IB's first batch: an account in several currencies has a row for the    *)
(* whole, one in a single currency may have none; or it has yet to come.   *)
AllValues == UNION {Values[r] : r \in Rows}
NoRows == [r \in {} |-> 0]
Accounts ==
  {rows \in [Rows -> AllValues] \cup [Rows \ {"BASE"} -> AllValues] \cup {NoRows} :
     \A r \in DOMAIN rows : rows[r] \in Values[r]}

VARIABLES
  online,      \* _connected
  socket,      \* ib.isConnected()
  handlers,    \* times _on_account_value is attached to accountValueEvent
  cache,       \* _account_values: rows to values
  lastEmitted, \* _last_emitted_snapshot, or NoSnapshot
  timer,       \* _account_update_task: a task, or 0
  loops,       \* account-update tasks that have not ended
  stopping,    \* those that were cancelled
  phase,       \* where each coroutine is suspended
  events,      \* events put
  overlapped   \* history: two lifecycle calls were under way together

sessionVars == <<online, socket, handlers, cache, lastEmitted, timer, loops, stopping, phase,
          events, overlapped>>

(* A coroutine in disconnect awaits a task; it is there under its number.  *)
Resting == 0
Connecting == -1

NoSnapshot == [taken |-> FALSE]
Up == [kind |-> "connected"]
Down == [kind |-> "disconnected"]
AccountUpdate(snapshot) == [kind |-> "update", snapshot |-> snapshot]

(* _build_account_snapshot: the row of the whole account comes first, the  *)
(* base currency's alone is the fallback; a row that is missing is zero.   *)
Value(rows, r) == IF r \in DOMAIN rows THEN rows[r] ELSE 0

Snapshot(rows) ==
  [equity |-> IF "BASE" \in DOMAIN rows THEN rows["BASE"] ELSE Value(rows, "GBP"),
   cash |-> Value(rows, "USD cash")]

Far(x, y) == x - y >= Threshold \/ y - x >= Threshold

ShouldEmit(current) ==
  \/ lastEmitted = NoSnapshot
  \/ Far(current.equity, lastEmitted.equity) \/ Far(current.cash, lastEmitted.cash)
-----------------------------------------------------------------------------
Starts(s) ==
  /\ phase[s] = Resting
  /\ overlapped' = (overlapped \/ \E other \in Sessions : phase[other] # Resting)

(* connect on a connected broker, disconnect on another: no-ops.           *)
ConnectSession(s) ==
  /\ Starts(s) /\ ~online /\ Len(events) < MaxEvents
  /\ phase' = [phase EXCEPT ![s] = Connecting]
  /\ UNCHANGED <<online, socket, handlers, cache, lastEmitted, timer, loops, stopping,
                 events>>

(* A number that no task and no coroutine that awaits a task has.          *)
FreshTask ==
  CHOOSE k \in 1..(Cardinality(loops) + Cardinality(Sessions) + 1) :
    k \notin loops /\ \A s \in Sessions : phase[s] # k

(* Rows that arrive take the place of those there.                         *)
Store(rows) ==
  cache' = [r \in DOMAIN rows \cup DOMAIN cache |->
              IF r \in DOMAIN rows THEN rows[r] ELSE cache[r]]

(* The client has a socket and the first batch of rows is there: they are  *)
(* copied, the handler is attached and the timer task is made.             *)
ConnectEnds(s) ==
  /\ phase[s] = Connecting /\ phase' = [phase EXCEPT ![s] = Resting]
  /\ socket' = TRUE /\ online' = TRUE
  /\ \E rows \in Accounts : Store(rows)
  /\ handlers' = handlers + 1
  /\ timer' = FreshTask
  /\ loops' = loops \cup {timer'}
  /\ events' = Append(events, Up)
  /\ UNCHANGED <<lastEmitted, stopping, overlapped>>

ConnectFails(s) ==
  /\ phase[s] = Connecting /\ phase' = [phase EXCEPT ![s] = Resting]
  /\ UNCHANGED <<online, socket, handlers, cache, lastEmitted, timer, loops, stopping,
                 events, overlapped>>

StaysConnected(s) ==    \* mutant: the broker still says it is connected
  /\ handlers' = (IF handlers > 0 THEN handlers - 1 ELSE 0)
  /\ socket' = FALSE /\ UNCHANGED online
  /\ cache' = NoRows /\ lastEmitted' = NoSnapshot
  /\ events' = Append(events, Down)
  /\ phase' = [phase EXCEPT ![s] = Resting]

(* The end of disconnect, which is not suspended again.                    *)
Teardown(s) ==
  /\ handlers' = (IF handlers > 0 THEN handlers - 1 ELSE 0)
  /\ socket' = FALSE /\ online' = FALSE
  /\ cache' = NoRows /\ lastEmitted' = NoSnapshot
  /\ events' = Append(events, Down)
  /\ phase' = [phase EXCEPT ![s] = Resting]

DisconnectForgetsTask(s) ==    \* mutant: the timer task is not cancelled
  /\ Starts(s) /\ online /\ timer' = 0
  /\ Teardown(s) /\ UNCHANGED <<stopping, loops>>

(* The timer task is cancelled and awaited; without one there is no await. *)
DisconnectSession(s) ==
  /\ Starts(s) /\ online
  /\ timer' = 0
  /\ IF timer \in loops
     THEN /\ stopping' = stopping \cup {timer}
          /\ phase' = [phase EXCEPT ![s] = timer]
          /\ UNCHANGED <<online, socket, handlers, cache, lastEmitted, events>>
     ELSE Teardown(s) /\ UNCHANGED stopping
  /\ UNCHANGED loops

DisconnectEnds(s) ==
  /\ phase[s] > 0 /\ phase[s] \notin loops
  /\ Teardown(s)
  /\ UNCHANGED <<timer, loops, stopping, overlapped>>
-----------------------------------------------------------------------------
(* A timer task: CancelledError reaches it in its sleep; it ends as well   *)
(* when it wakes on a broker that is not connected.                        *)
LoopEnds(k) ==
  /\ k \in stopping \/ ~online
  /\ loops' = loops \ {k} /\ stopping' = stopping \ {k}
  /\ UNCHANGED <<online, socket, handlers, cache, lastEmitted, timer, phase, events,
                 overlapped>>

SuppressRebased(current) == lastEmitted' = current    \* mutant: compared with the last tick
Suppress(current) == UNCHANGED lastEmitted

Tick(k) ==
  /\ k \in loops \ stopping /\ online /\ Len(events) < MaxEvents
  /\ LET current == Snapshot(cache) IN
       IF cache # NoRows /\ ShouldEmit(current)
       THEN /\ events' = Append(events, AccountUpdate(current))
            /\ lastEmitted' = current
       ELSE UNCHANGED events /\ Suppress(current)
  /\ UNCHANGED <<online, socket, handlers, cache, timer, loops, stopping, phase, overlapped>>

(* IB pushes a row of the account.                                         *)
OnAccountValue(r, v) ==
  /\ socket /\ handlers > 0
  /\ Store([q \in {r} |-> v])
  /\ UNCHANGED <<online, socket, handlers, lastEmitted, timer, loops, stopping, phase,
                 events, overlapped>>

(* The gateway goes away; nothing tells the broker.                        *)
SocketLost ==
  /\ socket /\ socket' = FALSE
  /\ UNCHANGED <<online, handlers, cache, lastEmitted, timer, loops, stopping, phase,
                 events, overlapped>>
-----------------------------------------------------------------------------
SessionInit ==
  /\ online = FALSE /\ socket = FALSE /\ handlers = 0
  /\ cache = NoRows /\ lastEmitted = NoSnapshot
  /\ timer = 0 /\ loops = {} /\ stopping = {}
  /\ phase = [s \in Sessions |-> Resting]
  /\ events = <<>> /\ overlapped = FALSE

SessionNext ==
  \/ \E s \in Sessions :
       \/ ConnectSession(s) \/ ConnectEnds(s) \/ ConnectFails(s)
       \/ DisconnectSession(s) \/ DisconnectEnds(s)
  \/ \E k \in loops : Tick(k) \/ LoopEnds(k)
  \/ \E r \in Rows : \E v \in Values[r] : OnAccountValue(r, v)
  \/ SocketLost

SessionSpec == SessionInit /\ [][SessionNext]_sessionVars
-----------------------------------------------------------------------------
(* Properties.  Lifecycle calls that overlap break each of the first two;  *)
(* they hold as long as none did.                                          *)

InSession(n) ==
  \E m \in 1..(n - 1) : events[m] = Up /\ \A k \in (m + 1)..(n - 1) : events[k] # Down

(* Connections and disconnections alternate in the event stream, and no    *)
(* AccountUpdate is put outside a session.                                 *)
StreamInSessions ==
  ~overlapped => \A n \in DOMAIN events : InSession(n) <=> events[n] # Up

(* A session has one handler and one timer task, and leaves neither        *)
(* behind.                                                                 *)
OneTimerPerSession ==
  ~overlapped /\ (\A s \in Sessions : phase[s] = Resting) =>
    /\ handlers = Cardinality(loops)
    /\ IF online THEN loops = {timer} ELSE loops = {}

(* What the event stream shows of this session's account.                  *)
Shown(evs) == IF Last(evs).kind = "update" THEN Last(evs).snapshot ELSE NoSnapshot

(* A tick that emits nothing leaves the last update of this session within *)
(* the threshold of every value: suppressed moves add up, and what was     *)
(* shown in an earlier session does not count.                             *)
ViewWithinThreshold ==
  online /\ ~overlapped /\ cache # NoRows /\ ~ShouldEmit(Snapshot(cache)) =>
    /\ Shown(events) # NoSnapshot
    /\ ~Far(Shown(events).equity, Snapshot(cache).equity)
    /\ ~Far(Shown(events).cash, Snapshot(cache).cash)

(* The stream is cut into sessions, each has one timer, and what a session *)
(* shows of the account is its own and within the threshold.               *)
SessionInv == StreamInSessions /\ OneTimerPerSession /\ ViewWithinThreshold
=============================================================================
