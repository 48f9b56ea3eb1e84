--------------------------- MODULE IBSession_proofs ---------------------------
(***************************************************************************)
(* Proofs about the session side of the IB broker, for any coroutines,     *)
(* account values and threshold: as long as no two lifecycle calls         *)
(* overlapped, the event stream is cut into sessions, each session has one *)
(* handler and one timer task, and what it shows of the account is within  *)
(* the threshold.                                                          *)
(***************************************************************************)
EXTENDS IBSession, FiniteSetTheorems, TLAPS

SnapshotValues == AllValues \cup {0}
Snapshots == [equity: SnapshotValues, cash: SnapshotValues]
Events == {Up, Down} \cup {AccountUpdate(x) : x \in Snapshots}

SessionTypes ==
  /\ online \in BOOLEAN /\ overlapped \in BOOLEAN
  /\ phase \in [Sessions -> Int]
  /\ loops \subseteq Nat \ {0} /\ IsFiniteSet(loops) /\ timer \in Nat
  /\ events \in Seq(Events)
  /\ DOMAIN cache \subseteq Rows /\ \A r \in DOMAIN cache : cache[r] \in AllValues

AllRest == \A s \in Sessions : phase[s] = Resting

(* One lifecycle call at a time.  A broker that is not connected has       *)
(* neither handler nor timer task; one that is has the handler, and, until *)
(* a disconnect cancels it, the task.                                      *)
Orderly ==
  /\ \A s, u \in Sessions : phase[s] # Resting /\ phase[u] # Resting => s = u
  /\ handlers = IF online THEN 1 ELSE 0
  /\ ~online => loops = {}
  /\ stopping \subseteq loops
  /\ online /\ AllRest => timer \in Nat \ {0} /\ loops = {timer} /\ stopping = {}
  /\ \A s \in Sessions :
       \/ phase[s] = Resting
       \/ phase[s] = Connecting /\ ~online
       \/ phase[s] \in Nat \ {0} /\ online /\ loops \subseteq {phase[s]}

(* The stream is in a session exactly while the broker is connected.       *)
StreamFollows ==
  /\ \A n \in DOMAIN events : InSession(n) <=> events[n] # Up
  /\ InSession(Len(events) + 1) <=> online

(* The baseline of the timer's diff is what the stream shows.              *)
ViewFollows == lastEmitted = IF online THEN Shown(events) ELSE NoSnapshot

SessionIInv == SessionTypes /\ (~overlapped => Orderly /\ StreamFollows /\ ViewFollows)
-----------------------------------------------------------------------------
LEMMA EventKinds ==
  /\ Up \in Events /\ Down \in Events /\ Up # Down
  /\ Up.kind # "update" /\ Down.kind # "update"
  /\ \A x \in Snapshots :
       /\ AccountUpdate(x) \in Events
       /\ AccountUpdate(x) # Up /\ AccountUpdate(x) # Down
       /\ AccountUpdate(x).kind = "update" /\ AccountUpdate(x).snapshot = x
<1>1. Up.kind = "connected" /\ Down.kind = "disconnected"
  BY DEF Up, Down
<1>2. ASSUME NEW x \in Snapshots
      PROVE  AccountUpdate(x).kind = "update" /\ AccountUpdate(x).snapshot = x
  BY DEF AccountUpdate
<1>3. \A x \in Snapshots : AccountUpdate(x) # Up /\ AccountUpdate(x) # Down
  BY <1>1, <1>2
<1>4. QED
  BY <1>1, <1>2, <1>3 DEF Events

(* What an event at the end does to the stream.                            *)
LEMMA Appended ==
  ASSUME events \in Seq(Events), NEW e \in Events, events' = Append(events, e)
  PROVE  /\ events' \in Seq(Events) /\ Len(events') = Len(events) + 1
         /\ Len(events) \in Nat /\ DOMAIN events' = 1..(Len(events) + 1)
         /\ \A i \in 1..Len(events) : events'[i] = events[i]
         /\ events'[Len(events) + 1] = e /\ Last(events') = e
<1>1. /\ events' \in Seq(Events) /\ Len(events') = Len(events) + 1 /\ Len(events) \in Nat
      /\ DOMAIN events' = 1..(Len(events) + 1)
      /\ \A i \in 1..Len(events) : events'[i] = events[i]
      /\ events'[Len(events) + 1] = e
  OBVIOUS
<1>2. QED
  BY <1>1 DEF Last

LEMMA InSessionKept ==
  ASSUME events \in Seq(Events), NEW e \in Events, events' = Append(events, e),
         NEW n \in 1..(Len(events) + 1)
  PROVE  InSession(n)' <=> InSession(n)
<1>1. Len(events) \in Nat /\ \A i \in 1..(n - 1) : events'[i] = events[i]
  BY Appended
<1>2. \A m \in 1..(n - 1) : \A k \in (m + 1)..(n - 1) : k \in 1..(n - 1)
  BY <1>1
<1>3. QED
  BY <1>1, <1>2 DEF InSession

LEMMA InSessionNext ==
  ASSUME events \in Seq(Events), NEW e \in Events, events' = Append(events, e)
  PROVE  InSession(Len(events) + 1)' <=> (e = Up \/ (e # Down /\ InSession(Len(events) + 1)))
<1> DEFINE n == Len(events)
<1>1. /\ n \in Nat /\ Len(events') = n + 1 /\ events'[n + 1] = e
      /\ \A i \in 1..n : events'[i] = events[i]
  BY Appended
<1>2. InSession(Len(events) + 1)' <=>
        \E m \in 1..(n + 1) : events'[m] = Up /\ \A k \in (m + 1)..(n + 1) : events'[k] # Down
  BY <1>1 DEF InSession
<1>3. InSession(n + 1) <=>
        \E m \in 1..n : events[m] = Up /\ \A k \in (m + 1)..n : events[k] # Down
  BY <1>1 DEF InSession
<1> HIDE DEF n
<1>4. CASE e = Up
  <2>1. n + 1 \in 1..(n + 1) /\ (n + 1 + 1)..(n + 1) = {}
    BY <1>1
  <2>2. QED
    BY <1>1, <1>2, <1>4, <2>1
<1>5. CASE e # Up /\ e = Down
  <2>1. ASSUME NEW m \in 1..(n + 1), events'[m] = Up,
               \A k \in (m + 1)..(n + 1) : events'[k] # Down
        PROVE  FALSE
    <3>1. m # n + 1
      BY <1>1, <1>5, <2>1
    <3>2. n + 1 \in (m + 1)..(n + 1)
      BY <1>1, <3>1
    <3>3. QED
      BY <1>1, <1>5, <2>1, <3>2
  <2>2. QED
    BY <1>2, <1>5, <2>1
<1>6. CASE e # Up /\ e # Down
  <2>1. ASSUME NEW m \in 1..(n + 1), events'[m] = Up,
               \A k \in (m + 1)..(n + 1) : events'[k] # Down
        PROVE  m \in 1..n /\ events[m] = Up /\ \A k \in (m + 1)..n : events[k] # Down
    <3>1. m # n + 1
      BY <1>1, <1>6, <2>1
    <3>2. m \in 1..n
      BY <1>1, <3>1
    <3>3. \A k \in (m + 1)..n : k \in 1..n /\ k \in (m + 1)..(n + 1)
      BY <1>1, <3>2
    <3>4. QED
      BY <1>1, <2>1, <3>2, <3>3
  <2>2. ASSUME NEW m \in 1..n, events[m] = Up, \A k \in (m + 1)..n : events[k] # Down
        PROVE  /\ m \in 1..(n + 1) /\ events'[m] = Up
               /\ \A k \in (m + 1)..(n + 1) : events'[k] # Down
    <3>1. \A k \in (m + 1)..(n + 1) : k = n + 1 \/ (k \in 1..n /\ k \in (m + 1)..n)
      BY <1>1
    <3>2. \A k \in (m + 1)..(n + 1) : events'[k] # Down
      BY <1>1, <1>6, <2>2, <3>1
    <3>3. m \in 1..(n + 1)
      BY <1>1
    <3>4. QED
      BY <1>1, <2>2, <3>2, <3>3
  <2>3. InSession(Len(events) + 1)' <=> InSession(n + 1)
    BY <1>2, <1>3, <2>1, <2>2
  <2>4. QED
    BY <1>6, <2>3 DEF n
<1>7. QED
  BY <1>4, <1>5, <1>6

(* An event that opens a session exactly when none is open keeps the       *)
(* stream cut into sessions.                                               *)
LEMMA StreamGrows ==
  ASSUME events \in Seq(Events), NEW e \in Events, events' = Append(events, e), StreamFollows,
         online <=> e # Up, online' <=> e # Down, online \in BOOLEAN, online' \in BOOLEAN
  PROVE  StreamFollows'
<1>1. /\ Len(events) \in Nat /\ DOMAIN events' = 1..(Len(events) + 1)
      /\ DOMAIN events = 1..Len(events)
      /\ \A i \in 1..Len(events) : events'[i] = events[i]
      /\ events'[Len(events) + 1] = e
  BY Appended
<1>2. ASSUME NEW n \in DOMAIN events' PROVE InSession(n)' <=> events'[n] # Up
  <2>1. InSession(n)' <=> InSession(n)
    BY <1>1, InSessionKept
  <2>2. CASE n = Len(events) + 1
    BY <1>1, <2>1, <2>2 DEF StreamFollows
  <2>3. CASE n # Len(events) + 1
    <3>1. n \in DOMAIN events /\ events'[n] = events[n]
      BY <1>1, <2>3
    <3>2. QED
      BY <2>1, <3>1 DEF StreamFollows
  <2>4. QED
    BY <2>2, <2>3
<1>3. InSession(Len(events) + 1)' <=> online'
  <2>1. InSession(Len(events) + 1)' <=> (e = Up \/ (e # Down /\ online))
    BY InSessionNext DEF StreamFollows
  <2>2. QED
    BY <2>1, EventKinds
<1>4. QED
  BY <1>2, <1>3 DEF StreamFollows
-----------------------------------------------------------------------------
(* Types.                                                                  *)
LEMMA SnapshotType ==
  ASSUME DOMAIN cache \subseteq Rows, \A r \in DOMAIN cache : cache[r] \in AllValues
  PROVE  Snapshot(cache) \in Snapshots
<1>1. ASSUME NEW r PROVE Value(cache, r) \in SnapshotValues
  BY DEF Value, SnapshotValues
<1>2. "BASE" \in DOMAIN cache => cache["BASE"] \in SnapshotValues
  BY DEF SnapshotValues
<1>3. QED
  BY <1>1, <1>2 DEF Snapshot, Snapshots

LEMMA RowsStored ==
  ASSUME SessionTypes, NEW rows, DOMAIN rows \subseteq Rows,
         \A r \in DOMAIN rows : rows[r] \in AllValues,
         Store(rows)
  PROVE  DOMAIN cache' \subseteq Rows /\ \A r \in DOMAIN cache' : cache'[r] \in AllValues
<1>1. /\ DOMAIN cache' = DOMAIN rows \cup DOMAIN cache
      /\ \A r \in DOMAIN cache' : cache'[r] = IF r \in DOMAIN rows THEN rows[r] ELSE cache[r]
  BY DEF Store
<1>2. QED
  BY <1>1 DEF SessionTypes

LEMMA BatchStored ==
  ASSUME SessionTypes, NEW rows \in Accounts, Store(rows)
  PROVE  DOMAIN cache' \subseteq Rows /\ \A r \in DOMAIN cache' : cache'[r] \in AllValues
<1>1. DOMAIN rows \subseteq Rows /\ \A r \in DOMAIN rows : rows[r] \in AllValues
  BY DEF Accounts, AllValues, NoRows
<1>2. QED
  BY <1>1, RowsStored

LEMMA RowStored ==
  ASSUME SessionTypes, NEW r \in Rows, NEW v \in Values[r], Store([q \in {r} |-> v])
  PROVE  DOMAIN cache' \subseteq Rows /\ \A q \in DOMAIN cache' : cache'[q] \in AllValues
<1> DEFINE rows == [q \in {r} |-> v]
<1>1. DOMAIN rows \subseteq Rows /\ \A q \in DOMAIN rows : rows[q] \in AllValues
  BY DEF AllValues
<1>2. Store(rows)
  OBVIOUS
<1> HIDE DEF rows
<1>3. QED
  BY <1>1, <1>2, RowsStored

LEMMA CacheCleared ==
  ASSUME cache' = NoRows
  PROVE  DOMAIN cache' \subseteq Rows /\ \A q \in DOMAIN cache' : cache'[q] \in AllValues
BY DEF NoRows
-----------------------------------------------------------------------------
LEMMA SessionStart == SessionInit => SessionIInv
<1> SUFFICES ASSUME SessionInit PROVE SessionIInv
  OBVIOUS
<1>1. SessionTypes
  <2>1. events \in Seq(Events)
    BY DEF SessionInit
  <2>2. phase \in [Sessions -> Int]
    BY DEF SessionInit, Resting
  <2>3. DOMAIN cache \subseteq Rows /\ \A q \in DOMAIN cache : cache[q] \in AllValues
    BY DEF SessionInit, NoRows
  <2>4. QED
    BY <2>1, <2>2, <2>3, FS_EmptySet DEF SessionTypes, SessionInit
<1>2. Orderly
  BY DEF SessionInit, Orderly
<1>3. StreamFollows
  <2>1. Len(events) = 0 /\ DOMAIN events = {} /\ 1..0 = {} /\ ~online
    BY DEF SessionInit
  <2>2. ~InSession(Len(events) + 1)
    BY <2>1 DEF InSession
  <2>3. QED
    BY <2>1, <2>2 DEF StreamFollows
<1>4. ViewFollows
  BY DEF SessionInit, ViewFollows
<1>5. QED
  BY <1>1, <1>2, <1>3, <1>4 DEF SessionIInv

(* A step that puts nothing.                                               *)
LEMMA NothingPut ==
  ASSUME UNCHANGED <<events, online, lastEmitted>>
  PROVE  (StreamFollows => StreamFollows') /\ (ViewFollows => ViewFollows')
BY DEF StreamFollows, ViewFollows, InSession, Shown

(* A call begins where none is under way, or calls overlap.                *)
LEMMA CallBegins ==
  ASSUME SessionIInv, NEW s \in Sessions, Starts(s), ~overlapped'
  PROVE  ~overlapped /\ AllRest /\ Orderly /\ StreamFollows /\ ViewFollows
BY DEF SessionIInv, Starts, AllRest

LEMMA ConnectBegins ==
  ASSUME SessionIInv, NEW s \in Sessions, ConnectSession(s)
  PROVE  SessionIInv'
<1>1. SessionTypes'
  BY DEF SessionIInv, SessionTypes, ConnectSession, Starts, Connecting
<1>2. ASSUME ~overlapped' PROVE Orderly' /\ StreamFollows' /\ ViewFollows'
  <2>1. AllRest /\ Orderly /\ StreamFollows /\ ViewFollows
    BY <1>2, CallBegins DEF ConnectSession
  <2>2. /\ phase'[s] = Connecting /\ ~online
        /\ \A u \in Sessions \ {s} : phase'[u] = Resting
        /\ UNCHANGED <<online, handlers, lastEmitted, timer, loops, stopping, events>>
    BY <2>1 DEF ConnectSession, SessionIInv, SessionTypes, AllRest
  <2>3. Orderly'
    BY <2>1, <2>2 DEF Orderly, AllRest, Connecting, Resting
  <2>4. QED
    BY <2>1, <2>2, <2>3, NothingPut
<1>3. QED
  BY <1>1, <1>2 DEF SessionIInv

(* The size of a union is at most the sum of the sizes.                    *)
LEMMA UnionAtMost ==
  ASSUME NEW S, NEW T, IsFiniteSet(S), IsFiniteSet(T)
  PROVE  /\ IsFiniteSet(S \cup T) /\ Cardinality(S \cup T) \in Nat
         /\ Cardinality(S \cup T) <= Cardinality(S) + Cardinality(T)
<1>1. /\ Cardinality(S \cap T) \in Nat /\ Cardinality(S) \in Nat /\ Cardinality(T) \in Nat
  <2>1. IsFiniteSet(S \cap T)
    BY FS_Intersection
  <2>2. QED
    BY <2>1, FS_CardinalityType
<1>2. IsFiniteSet(S \cup T) /\ Cardinality(S \cup T) \in Nat
  BY FS_Union, FS_CardinalityType
<1>3. Cardinality(S \cup T) = Cardinality(S) + Cardinality(T) - Cardinality(S \cap T)
  BY FS_Union
<1>4. QED
  BY <1>1, <1>2, <1>3

(* There is a number left for a new task: the tasks that run and the       *)
(* coroutines that await one have fewer between them.                      *)
LEMMA FreshIsFree ==
  ASSUME SessionTypes
  PROVE  /\ FreshTask \in Nat \ {0} /\ FreshTask \notin loops
         /\ \A s \in Sessions : phase[s] # FreshTask
<1> DEFINE n == Cardinality(loops) + Cardinality(Sessions) + 1
           Awaited == {phase[s] : s \in Sessions}
           f == [s \in Sessions |-> phase[s]]
           Taken == loops \cup Awaited
<1>1. /\ IsFiniteSet(loops) /\ Cardinality(loops) \in Nat
      /\ Cardinality(Sessions) \in Nat /\ n \in Nat
  BY SessionAssumption, FS_CardinalityType DEF SessionTypes
<1>2. IsFiniteSet(Awaited) /\ Cardinality(Awaited) <= Cardinality(Sessions)
      /\ Cardinality(Awaited) \in Nat
  <2>1. f \in Surjection(Sessions, Awaited)
    BY DEF Surjection
  <2>2. QED
    BY <2>1, SessionAssumption, FS_Surjection, FS_CardinalityType
<1>3. \A s \in Sessions : phase[s] \in Awaited
  OBVIOUS
<1> HIDE DEF Awaited
<1>4. IsFiniteSet(Taken) /\ Cardinality(Taken) \in Nat
      /\ Cardinality(Taken) <= Cardinality(loops) + Cardinality(Awaited)
  BY <1>1, <1>2, UnionAtMost
<1> HIDE DEF Taken
<1>5. Cardinality(Taken) < n
  BY <1>1, <1>2, <1>4
<1>6. \E k \in 1..n : k \notin Taken
  <2>1. SUFFICES ASSUME 1..n \subseteq Taken PROVE FALSE
    OBVIOUS
  <2>2. 1 \in Int /\ n \in Int /\ ~(1 > n) /\ n - 1 + 1 = n
    BY <1>1
  <2> HIDE DEF n
  <2>3. IsFiniteSet(1..n) /\ Cardinality(1..n) = n
    BY <2>2, FS_Interval
  <2>4. Cardinality(1..n) <= Cardinality(Taken)
    BY <1>4, <2>1, FS_Subset
  <2>5. QED
    BY <1>1, <1>4, <1>5, <2>3, <2>4
<1> DEFINE Free(k) == k \notin loops /\ \A s \in Sessions : phase[s] # k
<1>7. \E k \in 1..n : Free(k)
  BY <1>3, <1>6 DEF Taken
<1>8. FreshTask = CHOOSE k \in 1..n : Free(k)
  BY DEF FreshTask
<1> HIDE DEF Free, n
<1>9. FreshTask \in 1..n /\ Free(FreshTask)
  BY <1>7, <1>8
<1>10. QED
  BY <1>1, <1>9 DEF Free

LEMMA ConnectDone ==
  ASSUME SessionIInv, NEW s \in Sessions, ConnectEnds(s)
  PROVE  SessionIInv'
<1>1. /\ phase[s] = Connecting /\ phase' = [phase EXCEPT ![s] = Resting] /\ online' = TRUE
      /\ handlers' = handlers + 1 /\ timer' = FreshTask /\ loops' = loops \cup {timer'}
      /\ events' = Append(events, Up)
      /\ UNCHANGED <<lastEmitted, stopping, overlapped>>
      /\ \E rows \in Accounts : Store(rows)
  BY DEF ConnectEnds
<1>2. events \in Seq(Events) /\ Up \in Events
  BY EventKinds DEF SessionIInv, SessionTypes
<1>3. SessionTypes'
  <2>1. events' \in Seq(Events)
    BY <1>1, <1>2
  <2>2. phase' \in [Sessions -> Int]
    BY <1>1 DEF SessionIInv, SessionTypes, Resting
  <2>3. DOMAIN cache' \subseteq Rows /\ \A r \in DOMAIN cache' : cache'[r] \in AllValues
    BY <1>1, BatchStored DEF SessionIInv
  <2>4. timer' \in Nat \ {0}
    BY <1>1, FreshIsFree DEF SessionIInv
  <2>5. loops' \subseteq Nat \ {0} /\ IsFiniteSet(loops')
    BY <1>1, <2>4, FS_AddElement DEF SessionIInv, SessionTypes
  <2>6. QED
    BY <1>1, <2>1, <2>2, <2>3, <2>4, <2>5 DEF SessionIInv, SessionTypes
<1>4. ASSUME ~overlapped' PROVE Orderly' /\ StreamFollows' /\ ViewFollows'
  <2>1. Orderly /\ StreamFollows /\ ViewFollows /\ SessionTypes
    BY <1>1, <1>4 DEF SessionIInv
  <2>2. /\ ~online /\ loops = {} /\ stopping = {} /\ handlers = 0
        /\ \A u \in Sessions \ {s} : phase[u] = Resting
    BY <1>1, <2>1 DEF Orderly, Connecting, Resting
  <2>3. \A u \in Sessions : phase'[u] = Resting
    BY <1>1, <2>1, <2>2 DEF SessionTypes
  <2>4. timer' \in Nat \ {0}
    BY <1>1, <2>1, FreshIsFree
  <2>5. Orderly'
    BY <1>1, <2>2, <2>3, <2>4 DEF Orderly
  <2>6. StreamFollows'
    <3>1. (online <=> Up # Up) /\ (online' <=> Up # Down) /\ online \in BOOLEAN /\ online' \in BOOLEAN
      BY <1>1, <2>1, <2>2, EventKinds DEF SessionTypes
    <3>2. QED
      BY <1>1, <1>2, <2>1, <3>1, StreamGrows
  <2>7. ViewFollows'
    <3>1. Last(events') = Up
      BY <1>1, <1>2, Appended
    <3>2. Shown(events') = NoSnapshot
      BY <3>1, EventKinds DEF Shown
    <3>3. QED
      BY <1>1, <2>1, <2>2, <3>2 DEF ViewFollows
  <2>8. QED
    BY <2>5, <2>6, <2>7
<1>5. QED
  BY <1>3, <1>4 DEF SessionIInv

LEMMA ConnectGivesUp ==
  ASSUME SessionIInv, NEW s \in Sessions, ConnectFails(s)
  PROVE  SessionIInv'
<1>1. /\ phase[s] = Connecting /\ phase' = [phase EXCEPT ![s] = Resting]
      /\ UNCHANGED <<online, handlers, cache, lastEmitted, timer, loops, stopping, events,
                     overlapped>>
  BY DEF ConnectFails
<1>2. SessionTypes'
  BY <1>1 DEF SessionIInv, SessionTypes, Resting
<1>3. ASSUME ~overlapped' PROVE Orderly' /\ StreamFollows' /\ ViewFollows'
  <2>1. Orderly /\ StreamFollows /\ ViewFollows /\ SessionTypes
    BY <1>1, <1>3 DEF SessionIInv
  <2>2. ~online
    BY <1>1, <2>1 DEF Orderly, Connecting, Resting
  <2>3. \A u \in Sessions : phase'[u] = phase[u] \/ phase'[u] = Resting
    BY <1>1, <2>1 DEF SessionTypes
  <2>4. Orderly'
    BY <1>1, <2>1, <2>2, <2>3 DEF Orderly
  <2>5. QED
    BY <1>1, <2>1, <2>4, NothingPut
<1>4. QED
  BY <1>2, <1>3 DEF SessionIInv

(* The end of disconnect.                                                  *)
LEMMA TeardownStep ==
  ASSUME SessionIInv, NEW s \in Sessions, Teardown(s), overlapped' \in BOOLEAN,
         timer' \in Nat, loops' = loops,
         ~overlapped' =>
           /\ ~overlapped /\ online /\ loops = {} /\ stopping' = {}
           /\ \A u \in Sessions \ {s} : phase[u] = Resting
  PROVE  SessionIInv'
<1>1. /\ handlers' = (IF handlers > 0 THEN handlers - 1 ELSE 0) /\ online' = FALSE
      /\ cache' = NoRows /\ lastEmitted' = NoSnapshot /\ events' = Append(events, Down)
      /\ phase' = [phase EXCEPT ![s] = Resting]
  BY DEF Teardown
<1>2. events \in Seq(Events) /\ Down \in Events
  BY EventKinds DEF SessionIInv, SessionTypes
<1>3. SessionTypes'
  <2>1. events' \in Seq(Events)
    BY <1>1, <1>2
  <2>2. phase' \in [Sessions -> Int]
    BY <1>1 DEF SessionIInv, SessionTypes, Resting
  <2>3. QED
    BY <1>1, <2>1, <2>2, CacheCleared DEF SessionIInv, SessionTypes
<1>4. ASSUME ~overlapped' PROVE Orderly' /\ StreamFollows' /\ ViewFollows'
  <2>1. Orderly /\ StreamFollows /\ ViewFollows /\ SessionTypes /\ online
    BY <1>4 DEF SessionIInv
  <2>2. \A u \in Sessions : phase'[u] = Resting
    BY <1>1, <1>4, <2>1 DEF SessionTypes
  <2>3. handlers' = 0
    BY <1>1, <2>1 DEF Orderly
  <2>4. Orderly'
    BY <1>1, <1>4, <2>2, <2>3 DEF Orderly
  <2>5. StreamFollows'
    <3>1. (online <=> Down # Up) /\ (online' <=> Down # Down) /\ online \in BOOLEAN /\ online' \in BOOLEAN
      BY <1>1, <2>1, EventKinds DEF SessionTypes
    <3>2. QED
      BY <1>1, <1>2, <2>1, <3>1, StreamGrows
  <2>6. ViewFollows'
    BY <1>1 DEF ViewFollows
  <2>7. QED
    BY <2>4, <2>5, <2>6
<1>5. QED
  BY <1>3, <1>4 DEF SessionIInv

LEMMA DisconnectBegins ==
  ASSUME SessionIInv, NEW s \in Sessions, DisconnectSession(s)
  PROVE  SessionIInv'
<1>1. /\ Starts(s) /\ online /\ timer' = 0 /\ loops' = loops /\ overlapped' \in BOOLEAN
  BY DEF DisconnectSession, Starts, SessionIInv, SessionTypes
<1>2. CASE timer \in loops
  <2>1. /\ stopping' = stopping \cup {timer} /\ phase' = [phase EXCEPT ![s] = timer]
        /\ UNCHANGED <<online, handlers, cache, lastEmitted, events>>
    BY <1>2 DEF DisconnectSession
  <2>2. SessionTypes'
    BY <1>1, <2>1 DEF SessionIInv, SessionTypes
  <2>3. ASSUME ~overlapped' PROVE Orderly' /\ StreamFollows' /\ ViewFollows'
    <3>1. AllRest /\ Orderly /\ StreamFollows /\ ViewFollows /\ SessionTypes
      BY <1>1, <2>3, CallBegins DEF SessionIInv
    <3>2. timer \in Nat \ {0} /\ loops = {timer} /\ stopping = {} /\ handlers = 1
      BY <1>1, <3>1 DEF Orderly
    <3>3. phase'[s] = timer /\ \A u \in Sessions \ {s} : phase'[u] = Resting
      BY <2>1, <3>1 DEF SessionTypes, AllRest
    <3>4. Orderly'
      BY <1>1, <2>1, <3>2, <3>3 DEF Orderly, AllRest, Resting
    <3>5. QED
      BY <2>1, <3>1, <3>4, NothingPut
  <2>4. QED
    BY <2>2, <2>3 DEF SessionIInv
<1>3. CASE timer \notin loops
  <2>1. Teardown(s) /\ UNCHANGED stopping
    BY <1>3 DEF DisconnectSession
  <2>2. overlapped'
    <3>1. SUFFICES ASSUME ~overlapped' PROVE FALSE
      OBVIOUS
    <3>2. QED
      BY <1>1, <1>3, <3>1, CallBegins DEF Orderly
  <2>3. QED
    BY <1>1, <2>1, <2>2, TeardownStep
<1>4. QED
  BY <1>2, <1>3

LEMMA DisconnectDone ==
  ASSUME SessionIInv, NEW s \in Sessions, DisconnectEnds(s)
  PROVE  SessionIInv'
<1>1. /\ phase[s] > 0 /\ phase[s] \notin loops /\ Teardown(s)
      /\ UNCHANGED <<timer, loops, stopping, overlapped>>
  BY DEF DisconnectEnds
<1>2. overlapped' \in BOOLEAN /\ timer' \in Nat /\ loops' = loops
  BY <1>1 DEF SessionIInv, SessionTypes
<1>3. ASSUME ~overlapped
      PROVE  /\ online /\ loops = {} /\ stopping = {}
             /\ \A u \in Sessions \ {s} : phase[u] = Resting
  <2>1. Orderly /\ SessionTypes
    BY <1>3 DEF SessionIInv
  <2>2. phase[s] # Resting /\ phase[s] # Connecting
    BY <1>1, <2>1 DEF SessionTypes, Resting, Connecting
  <2>3. online /\ loops \subseteq {phase[s]} /\ \A u \in Sessions \ {s} : phase[u] = Resting
    BY <2>1, <2>2 DEF Orderly
  <2>4. QED
    BY <1>1, <2>1, <2>3 DEF Orderly
<1>4. QED
  BY <1>1, <1>2, <1>3, TeardownStep

(* A timer task that ends was cancelled, or has no session.                *)
LEMMA LoopDone ==
  ASSUME SessionIInv, NEW k \in loops, LoopEnds(k)
  PROVE  SessionIInv'
<1>1. /\ k \in stopping \/ ~online
      /\ loops' = loops \ {k} /\ stopping' = stopping \ {k}
      /\ UNCHANGED <<online, handlers, cache, lastEmitted, timer, phase, events, overlapped>>
  BY DEF LoopEnds
<1>2. SessionTypes'
  BY <1>1, FS_RemoveElement DEF SessionIInv, SessionTypes
<1>3. ASSUME ~overlapped' PROVE Orderly' /\ StreamFollows' /\ ViewFollows'
  <2>1. Orderly /\ StreamFollows /\ ViewFollows
    BY <1>1, <1>3 DEF SessionIInv
  <2>2. online /\ k \in stopping
    BY <1>1, <2>1 DEF Orderly
  <2>3. ~AllRest
    BY <2>1, <2>2 DEF Orderly
  <2>4. Orderly'
    BY <1>1, <2>1, <2>2, <2>3 DEF Orderly, AllRest
  <2>5. QED
    BY <1>1, <2>1, <2>4, NothingPut
<1>4. QED
  BY <1>2, <1>3 DEF SessionIInv

LEMMA TickStep ==
  ASSUME SessionIInv, NEW k \in loops, Tick(k)
  PROVE  SessionIInv'
<1> DEFINE current == Snapshot(cache)
<1>1. /\ online
      /\ UNCHANGED <<online, handlers, cache, timer, loops, stopping, phase, overlapped>>
  BY DEF Tick
<1>2. Orderly => Orderly'
  BY <1>1 DEF Orderly, AllRest
<1>3. CASE events' = Append(events, AccountUpdate(current)) /\ lastEmitted' = current
  <2>1. events \in Seq(Events) /\ current \in Snapshots
    BY SnapshotType DEF SessionIInv, SessionTypes
  <2> HIDE DEF current
  <2>2. /\ AccountUpdate(current) \in Events
        /\ AccountUpdate(current) # Up /\ AccountUpdate(current) # Down
        /\ AccountUpdate(current).kind = "update" /\ AccountUpdate(current).snapshot = current
    BY <2>1, EventKinds
  <2>3. events' \in Seq(Events) /\ Last(events') = AccountUpdate(current)
    BY <1>3, <2>1, <2>2, Appended
  <2>4. SessionTypes'
    BY <1>1, <2>3 DEF SessionIInv, SessionTypes
  <2>5. StreamFollows => StreamFollows'
    <3>1. /\ online <=> AccountUpdate(current) # Up
          /\ online' <=> AccountUpdate(current) # Down
          /\ online \in BOOLEAN /\ online' \in BOOLEAN
      BY <1>1, <2>2 DEF SessionIInv, SessionTypes
    <3>2. QED
      BY <1>3, <2>1, <2>2, <3>1, StreamGrows
  <2>6. ViewFollows'
    BY <1>1, <1>3, <2>2, <2>3 DEF ViewFollows, Shown
  <2>7. QED
    BY <1>1, <1>2, <2>4, <2>5, <2>6 DEF SessionIInv
<1>4. CASE UNCHANGED events /\ Suppress(current)
  <2>1. UNCHANGED <<events, online, lastEmitted>>
    BY <1>1, <1>4 DEF Suppress
  <2>2. SessionTypes'
    BY <1>1, <2>1 DEF SessionIInv, SessionTypes
  <2>3. QED
    BY <1>1, <1>2, <2>1, <2>2, NothingPut DEF SessionIInv
<1>5. QED
  BY <1>3, <1>4 DEF Tick

(* IB pushes a row, the gateway goes away, or nothing happens.             *)
LEMMA OutsideStep ==
  ASSUME SessionIInv,
         UNCHANGED <<online, handlers, lastEmitted, timer, loops, stopping, phase, events,
                     overlapped>>,
         DOMAIN cache' \subseteq Rows /\ \A q \in DOMAIN cache' : cache'[q] \in AllValues
  PROVE  SessionIInv'
<1>1. SessionTypes'
  BY DEF SessionIInv, SessionTypes
<1>2. Orderly => Orderly'
  BY DEF Orderly, AllRest
<1>3. QED
  BY <1>1, <1>2, NothingPut DEF SessionIInv

LEMMA SessionStep == SessionIInv /\ [SessionNext]_sessionVars => SessionIInv'
<1> SUFFICES ASSUME SessionIInv, [SessionNext]_sessionVars PROVE SessionIInv'
  OBVIOUS
<1>1. ASSUME NEW s \in Sessions,
             \/ ConnectSession(s) \/ ConnectEnds(s) \/ ConnectFails(s)
             \/ DisconnectSession(s) \/ DisconnectEnds(s)
      PROVE  SessionIInv'
  BY <1>1, ConnectBegins, ConnectDone, ConnectGivesUp, DisconnectBegins, DisconnectDone
<1>2. ASSUME NEW k \in loops, Tick(k) \/ LoopEnds(k) PROVE SessionIInv'
  BY <1>2, TickStep, LoopDone
<1>3. ASSUME NEW r \in Rows, NEW v \in Values[r], OnAccountValue(r, v) PROVE SessionIInv'
  <2>1. Store([q \in {r} |-> v])
    BY <1>3 DEF OnAccountValue
  <2>2. DOMAIN cache' \subseteq Rows /\ \A q \in DOMAIN cache' : cache'[q] \in AllValues
    BY <2>1, RowStored DEF SessionIInv
  <2>3. UNCHANGED <<online, handlers, lastEmitted, timer, loops, stopping, phase, events,
                    overlapped>>
    BY <1>3 DEF OnAccountValue
  <2>4. QED
    BY <2>2, <2>3, OutsideStep
<1>4. CASE SocketLost \/ UNCHANGED sessionVars
  <2>1. UNCHANGED <<online, handlers, cache, lastEmitted, timer, loops, stopping, phase, events,
                    overlapped>>
    BY <1>4 DEF SocketLost, sessionVars
  <2>2. DOMAIN cache' \subseteq Rows /\ \A q \in DOMAIN cache' : cache'[q] \in AllValues
    BY <2>1 DEF SessionIInv, SessionTypes
  <2>3. QED
    BY <2>1, <2>2, OutsideStep
<1>5. QED
  BY <1>1, <1>2, <1>3, <1>4 DEF SessionNext

LEMMA OneTimer ==
  ASSUME SessionIInv
  PROVE  OneTimerPerSession
<1> SUFFICES ASSUME ~overlapped, \A s \in Sessions : phase[s] = Resting
             PROVE  /\ handlers = Cardinality(loops)
                    /\ IF online THEN loops = {timer} ELSE loops = {}
  BY DEF OneTimerPerSession
<1>1. Orderly /\ AllRest
  BY DEF SessionIInv, AllRest
<1>2. CASE online
  <2>1. loops = {timer} /\ handlers = 1
    BY <1>1, <1>2 DEF Orderly
  <2>2. QED
    BY <1>2, <2>1, FS_Singleton
<1>3. CASE ~online
  <2>1. loops = {} /\ handlers = 0
    BY <1>1, <1>3 DEF Orderly
  <2>2. QED
    BY <1>3, <2>1, FS_EmptySet
<1>4. QED
  BY <1>2, <1>3

LEMMA ViewClose ==
  ASSUME SessionIInv
  PROVE  ViewWithinThreshold
<1> SUFFICES ASSUME online, ~overlapped, ~ShouldEmit(Snapshot(cache))
             PROVE  /\ Shown(events) # NoSnapshot
                    /\ ~Far(Shown(events).equity, Snapshot(cache).equity)
                    /\ ~Far(Shown(events).cash, Snapshot(cache).cash)
  BY DEF ViewWithinThreshold
<1>1. lastEmitted = Shown(events)
  BY DEF SessionIInv, ViewFollows
<1>2. \A x, y : Far(x, y) <=> Far(y, x)
  BY DEF Far
<1>3. QED
  BY <1>1, <1>2 DEF ShouldEmit

(* As long as no two lifecycle calls of the IB broker overlapped, whatever *)
(* fails: the event stream is cut into sessions and every AccountUpdate is *)
(* in one; a session has one handler and one timer task, and none is left  *)
(* after it; and a tick that is suppressed leaves what this session last   *)
(* showed within the threshold.  connect, disconnect and the timer task.   *)
THEOREM SessionsSafe == SessionSpec => []SessionInv
<1>1. SessionInit => SessionIInv
  BY SessionStart
<1>2. SessionIInv /\ [SessionNext]_sessionVars => SessionIInv'
  BY SessionStep
<1>3. SessionIInv => SessionInv
  BY OneTimer, ViewClose DEF SessionInv, SessionIInv, StreamInSessions, StreamFollows
<1>4. QED
  BY <1>1, <1>2, <1>3, PTL DEF SessionSpec
=============================================================================
