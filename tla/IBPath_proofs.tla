---------------------------- MODULE IBPath_proofs ---------------------------
(***************************************************************************)
(* Proofs about what an order passes on its way to the gateway, and about  *)
(* the scripts that probe that way.  RateLimiter: for every set of callers, *)
(* buckets and rates.  Lookups: for every number of coroutines, instruments *)
(* and corporate actions.  OrderProbe: for every order the FSM admits.     *)
(***************************************************************************)
EXTENDS RateLimiter, Lookups, OrderProbe, TLAPS

(* Products of naturals are naturals and distribute over sums.             *)
LEMMA Products ==
  /\ \A x, y \in Nat : x * y \in Nat
  /\ \A r, x, y \in Nat : r * (x + y) = r * x + r * y
OBVIOUS

(* Capacity, rate and unit of a bucket are positive integers.              *)
LEMMA BucketConstants ==
  ASSUME NEW b \in Buckets
  PROVE  /\ Capacity[b] \in Nat /\ Rate[b] \in Nat \ {0} /\ Unit[b] \in Nat
         /\ Full(b) \in Nat
BY BucketAssumption, Products DEF Full

(* A refill yields a natural within the capacity and never more than what  *)
(* the elapsed ticks add.                                                  *)
LEMMA RefilledFacts ==
  ASSUME LimiterTypeOK, NEW b \in Buckets
  PROVE  /\ Refilled(b) \in Nat /\ Refilled(b) <= Full(b)
         /\ now - last[b] \in Nat /\ Rate[b] * (now - last[b]) \in Nat
         /\ Refilled(b) <= available[b] + Rate[b] * (now - last[b])
<1>1. /\ available[b] \in Nat /\ Full(b) \in Nat /\ available[b] <= Full(b)
      /\ now - last[b] \in Nat /\ Rate[b] \in Nat
  BY BucketConstants DEF LimiterTypeOK
<1>2. Rate[b] * (now - last[b]) \in Nat
  BY <1>1, Products
<1> DEFINE x == Rate[b] * (now - last[b])
<1>3. Refilled(b) = IF available[b] + x > Full(b) THEN Full(b) ELSE available[b] + x
  BY DEF Refilled
<1> HIDE DEF x
<1>4. QED
  BY <1>1, <1>2, <1>3 DEF x

(* A caller that falls asleep has a natural wake-up time.                  *)
LEMMA WaitFacts ==
  ASSUME NEW b \in Buckets, NEW d \in Nat
  PROVE  Wait(b, d) \in Nat
<1>1. Rate[b] \in Nat /\ Rate[b] > 0 /\ d + Rate[b] - 1 \in Nat
  BY BucketConstants
<1>2. QED
  BY <1>1 DEF Wait

(* One turn of the acquire loop keeps the types.                           *)
LEMMA AttemptType ==
  ASSUME LimiterTypeOK, NEW c \in Callers, NEW b \in Buckets, NEW n \in Requests,
         Attempt(c, b, n)
  PROVE  LimiterTypeOK'
<1>1. /\ n \in Nat /\ Unit[b] \in Nat /\ n * Unit[b] \in Nat
      /\ Refilled(b) \in Nat /\ Refilled(b) <= Full(b)
  BY RequestAssumption, BucketConstants, Products, RefilledFacts
<1>2. /\ available \in [Buckets -> Nat] /\ last \in [Buckets -> Nat] /\ now \in Nat
      /\ granted \in [Buckets -> Nat] /\ call \in [Callers -> {Idle} \cup Asleep]
      /\ \A a \in Buckets : available[a] <= Full(a) /\ last[a] <= now
      /\ mark \in [now : Nat, granted : [Buckets -> Nat]] /\ mark.now <= now
      /\ \A a \in Buckets : mark.granted[a] <= granted[a]
  BY DEF LimiterTypeOK
<1>3. /\ last' = [last EXCEPT ![b] = now] /\ now' = now /\ mark' = mark
      /\ \A a \in Buckets : Full(a)' = Full(a)
  BY DEF Attempt, Full
<1>4. last' \in [Buckets -> Nat] /\ \A a \in Buckets : last'[a] <= now'
  BY <1>2, <1>3
<1>5. CASE Refilled(b) >= n * Unit[b]
  <2>1. /\ available' = [available EXCEPT ![b] = Refilled(b) - n * Unit[b]]
        /\ granted' = [granted EXCEPT ![b] = granted[b] + n]
        /\ call' = [call EXCEPT ![c] = Idle]
    BY <1>5 DEF Attempt, Taken
  <2>2. Refilled(b) - n * Unit[b] \in Nat /\ Refilled(b) - n * Unit[b] <= Full(b)
    BY <1>1, <1>5, BucketConstants
  <2>3. available' \in [Buckets -> Nat] /\ \A a \in Buckets : available'[a] <= Full(a)
    BY <1>2, <2>1, <2>2
  <2>4. granted' \in [Buckets -> Nat] /\ \A a \in Buckets : granted[a] <= granted'[a]
    BY <1>1, <1>2, <2>1
  <2>5. \A a \in Buckets : mark'.granted[a] <= granted'[a]
    <3> SUFFICES ASSUME NEW a \in Buckets PROVE mark.granted[a] <= granted'[a]
      BY <1>3
    <3>1. mark.granted \in [Buckets -> Nat]
      BY <1>2
    <3>2. mark.granted[a] \in Nat /\ granted[a] \in Nat /\ granted'[a] \in Nat
      BY <3>1, <1>2, <2>4
    <3>3. mark.granted[a] <= granted[a] /\ granted[a] <= granted'[a]
      BY <1>2, <2>4
    <3>4. QED
      BY <3>2, <3>3
  <2>6. call' \in [Callers -> {Idle} \cup Asleep]
    BY <1>2, <2>1
  <2>7. QED
    BY <1>2, <1>3, <1>4, <2>3, <2>4, <2>5, <2>6 DEF LimiterTypeOK
<1>6. CASE ~(Refilled(b) >= n * Unit[b])
  <2> DEFINE d == n * Unit[b] - Refilled(b)
             s == [pc |-> "asleep", bucket |-> b, tokens |-> n,
                   due |-> now + Wait(b, d), seen |-> granted[b]]
  <2>1. /\ available' = [available EXCEPT ![b] = Refilled(b)]
        /\ granted' = granted /\ call' = [call EXCEPT ![c] = s]
    BY <1>6 DEF Attempt
  <2>2. d \in Nat
    BY <1>1, <1>6
  <2>3. now + Wait(b, d) \in Nat
    BY <1>2, <2>2, WaitFacts
  <2>4. s \in Asleep
    BY <1>2, <2>3 DEF Asleep
  <2> HIDE DEF s
  <2>5. call' \in [Callers -> {Idle} \cup Asleep]
    BY <1>2, <2>1, <2>4
  <2>6. available' \in [Buckets -> Nat] /\ \A a \in Buckets : available'[a] <= Full(a)
    BY <1>1, <1>2, <2>1
  <2>7. QED
    BY <1>2, <1>3, <1>4, <2>1, <2>5, <2>6 DEF LimiterTypeOK
<1>7. QED
  BY <1>5, <1>6

(* A freshly constructed limiter has well-typed state.                     *)
LEMMA InitType == LimiterInit => LimiterTypeOK
<1> SUFFICES ASSUME LimiterInit PROVE LimiterTypeOK
  OBVIOUS
<1>1. \A b \in Buckets : Full(b) \in Nat
  BY BucketConstants
<1>2. available \in [Buckets -> Nat] /\ \A b \in Buckets : available[b] <= Full(b)
  BY <1>1 DEF LimiterInit
<1>3. QED
  BY <1>2 DEF LimiterInit, LimiterTypeOK

(* Every step keeps the types.                                             *)
LEMMA StepType == LimiterTypeOK /\ [LimiterNext]_limiterVars => LimiterTypeOK'
<1> SUFFICES ASSUME LimiterTypeOK, [LimiterNext]_limiterVars PROVE LimiterTypeOK'
  OBVIOUS
<1>1. CASE UNCHANGED limiterVars
  BY <1>1 DEF limiterVars, LimiterTypeOK, Full
<1>2. CASE Tick
  BY <1>2, TimeAssumption DEF Tick, LimiterTypeOK, Full
<1>3. CASE Metrics
  <2>1. \A b \in Buckets : Refilled(b) \in Nat /\ Refilled(b) <= Full(b)
    BY RefilledFacts
  <2>2. available' \in [Buckets -> Nat] /\ \A b \in Buckets : available'[b] <= Full(b)
    BY <1>3, <2>1 DEF Metrics
  <2>3. QED
    BY <1>3, <2>2 DEF Metrics, LimiterTypeOK, Full
<1>4. CASE Observe
  BY <1>4 DEF Observe, LimiterTypeOK, Full
<1>5. ASSUME NEW c \in Callers, Wake(c)
      PROVE  LimiterTypeOK'
  <2>1. call[c] \in Asleep
    BY <1>5 DEF LimiterTypeOK, Wake, Idle
  <2>2. QED
    BY <1>5, <2>1, AttemptType DEF Wake, Asleep
<1>6. ASSUME NEW c \in Callers, NEW b \in Buckets, NEW n \in Requests, Acquire(c, b, n)
      PROVE  LimiterTypeOK'
  BY <1>6, AttemptType DEF Acquire
<1>7. QED
  BY <1>1, <1>2, <1>3, <1>4, <1>5, <1>6 DEF LimiterNext

-----------------------------------------------------------------------------
(* The ledger of one bucket, for a clock, a level and a history.           *)
LedgerOf(b, av, la, g, m, mg) ==
  \/ la >= m /\ g * Unit[b] + av <= mg * Unit[b] + Full(b) + Rate[b] * (la - m)
  \/ la < m /\ g = mg

(* Refilling to the present keeps it, and afterwards the first case holds. *)
LEMMA RefillLedger ==
  ASSUME LimiterTypeOK, NEW b \in Buckets,
         LedgerOf(b, available[b], last[b], granted[b], mark.now, mark.granted[b])
  PROVE  /\ granted[b] * Unit[b] + Refilled(b)
              <= mark.granted[b] * Unit[b] + Full(b) + Rate[b] * (now - mark.now)
         /\ now >= mark.now
<1> DEFINE la == last[b]
           m == mark.now
           g == granted[b]
           mg == mark.granted[b]
           gu == g * Unit[b]
           mu == mg * Unit[b]
           r1 == Rate[b] * (now - la)
           r2 == Rate[b] * (la - m)
           r3 == Rate[b] * (now - m)
<1>1. /\ la \in Nat /\ m \in Nat /\ now \in Nat /\ la <= now /\ m <= now
      /\ g \in Nat /\ Rate[b] \in Nat /\ Unit[b] \in Nat
      /\ Full(b) \in Nat /\ available[b] \in Nat
  BY BucketConstants DEF LimiterTypeOK
<1>2. mg \in Nat
  <2>1. mark.granted \in [Buckets -> Nat]
    BY DEF LimiterTypeOK
  <2>2. QED
    BY <2>1
<1>3. gu \in Nat /\ mu \in Nat /\ r3 \in Nat
  BY <1>1, <1>2, Products
<1>4. /\ Refilled(b) \in Nat /\ Refilled(b) <= Full(b)
      /\ r1 \in Nat /\ Refilled(b) <= available[b] + r1
  BY RefilledFacts
<1>5. CASE la >= m /\ gu + available[b] <= mu + Full(b) + r2
  <2>1. now - la \in Nat /\ la - m \in Nat /\ now - m = (la - m) + (now - la)
    BY <1>1, <1>5
  <2>2. r3 = r2 + r1 /\ r2 \in Nat
    BY <1>1, <2>1, Products
  <2> HIDE DEF gu, mu, r1, r2, r3
  <2>3. gu + Refilled(b) <= mu + Full(b) + r3
    BY <1>1, <1>3, <1>4, <1>5, <2>2
  <2>4. QED
    BY <1>1, <2>3 DEF gu, mu, r3
<1>6. CASE la < m /\ g = mg
  <2>1. gu = mu
    BY <1>6
  <2> HIDE DEF gu, mu, r1, r2, r3
  <2>2. gu + Refilled(b) <= mu + Full(b) + r3
    BY <1>1, <1>3, <1>4, <2>1
  <2>3. QED
    BY <1>1, <2>2 DEF gu, mu, r3
<1>7. QED
  BY <1>5, <1>6 DEF LedgerOf

(* One turn of the acquire loop keeps the ledger.                          *)
LEMMA AttemptLedger ==
  ASSUME LimiterTypeOK, Ledger, NEW c \in Callers, NEW b \in Buckets, NEW n \in Requests,
         Attempt(c, b, n)
  PROVE  Ledger'
<1> SUFFICES ASSUME NEW a \in Buckets
             PROVE  LedgerOf(a, available'[a], last'[a], granted'[a], mark.now, mark.granted[a])
  BY DEF Attempt, Ledger, LedgerOf, Full
<1>1. LedgerOf(a, available[a], last[a], granted[a], mark.now, mark.granted[a])
  BY DEF Ledger, LedgerOf
<1>2. CASE a # b
  <2>1. available'[a] = available[a] /\ last'[a] = last[a] /\ granted'[a] = granted[a]
    BY <1>2 DEF Attempt, LimiterTypeOK
  <2>2. QED
    BY <1>1, <2>1
<1>3. CASE a = b
  <2>1. /\ granted[b] * Unit[b] + Refilled(b)
             <= mark.granted[b] * Unit[b] + Full(b) + Rate[b] * (now - mark.now)
        /\ now >= mark.now
    BY <1>1, <1>3, RefillLedger
  <2>2. last'[b] = now
    BY DEF Attempt, LimiterTypeOK
  <2>3. /\ n \in Nat /\ granted[b] \in Nat /\ Unit[b] \in Nat /\ Refilled(b) \in Nat
        /\ n * Unit[b] \in Nat /\ granted[b] * Unit[b] \in Nat
    BY RequestAssumption, BucketConstants, RefilledFacts, Products DEF LimiterTypeOK
  <2>4. CASE granted'[b] = granted[b] /\ available'[b] = Refilled(b)
    BY <2>1, <2>2, <2>4, <1>3 DEF LedgerOf
  <2>5. CASE /\ granted'[b] = granted[b] + n
             /\ available'[b] = Refilled(b) - n * Unit[b]
    <3>1. (granted[b] + n) * Unit[b] = granted[b] * Unit[b] + n * Unit[b]
      BY <2>3
    <3> DEFINE gu == granted[b] * Unit[b]
               nu == n * Unit[b]
    <3>2. gu + nu + (Refilled(b) - nu) = gu + Refilled(b)
      <4> HIDE DEF gu, nu
      <4>1. gu \in Nat /\ nu \in Nat
        BY <2>3 DEF gu, nu
      <4>2. QED
        BY <2>3, <4>1
    <3>3. granted'[b] * Unit[b] + available'[b] = gu + Refilled(b)
      BY <2>5, <3>1, <3>2
    <3>4. QED
      BY <2>1, <2>2, <3>3, <1>3 DEF LedgerOf
  <2>6. QED
    <3>1. \/ granted'[b] = granted[b] /\ available'[b] = Refilled(b)
          \/ /\ granted'[b] = granted[b] + n
             /\ available'[b] = Refilled(b) - n * Unit[b]
      BY DEF Attempt, Taken, LimiterTypeOK
    <3>2. QED
      BY <2>4, <2>5, <3>1
<1>4. QED
  BY <1>2, <1>3

(* Every step keeps the ledger.                                            *)
LEMMA LedgerStep ==
  ASSUME LimiterTypeOK, Ledger, [LimiterNext]_limiterVars
  PROVE  Ledger'
<1>1. CASE UNCHANGED <<available, last, granted, mark>>
  BY <1>1 DEF Ledger, Full
<1>2. CASE UNCHANGED limiterVars \/ Tick
  BY <1>1, <1>2 DEF limiterVars, Tick
<1>3. CASE Metrics
  <2> SUFFICES ASSUME NEW b \in Buckets
               PROVE  LedgerOf(b, Refilled(b), now, granted[b], mark.now, mark.granted[b])
    BY <1>3 DEF Metrics, Ledger, LedgerOf, Full
  <2>1. LedgerOf(b, available[b], last[b], granted[b], mark.now, mark.granted[b])
    BY DEF Ledger, LedgerOf
  <2>2. QED
    BY <2>1, RefillLedger DEF LedgerOf
<1>4. CASE Observe
  <2> SUFFICES ASSUME NEW b \in Buckets
               PROVE  LedgerOf(b, available[b], last[b], granted[b], now, granted[b])
    BY <1>4 DEF Observe, Ledger, LedgerOf, Full
  <2>1. /\ last[b] \in Nat /\ now \in Nat /\ last[b] <= now /\ available[b] \in Nat
        /\ available[b] <= Full(b) /\ Full(b) \in Nat /\ granted[b] \in Nat
        /\ Rate[b] \in Nat /\ granted[b] * Unit[b] \in Nat
    BY BucketConstants, Products DEF LimiterTypeOK
  <2>2. CASE last[b] < now
    BY <2>2 DEF LedgerOf
  <2>3. CASE last[b] = now
    <3>1. Rate[b] * (last[b] - now) = 0
      BY <2>1, <2>3
    <3>2. QED
      BY <2>1, <2>3, <3>1 DEF LedgerOf
  <2>4. QED
    BY <2>1, <2>2, <2>3
<1>5. ASSUME NEW c \in Callers, Wake(c)
      PROVE  Ledger'
  <2>1. call[c] \in Asleep
    BY <1>5 DEF LimiterTypeOK, Wake, Idle
  <2>2. QED
    BY <1>5, <2>1, AttemptLedger DEF Wake, Asleep
<1>6. ASSUME NEW c \in Callers, NEW b \in Buckets, NEW n \in Requests, Acquire(c, b, n)
      PROVE  Ledger'
  BY <1>6, AttemptLedger DEF Acquire
<1>7. QED
  BY <1>2, <1>3, <1>4, <1>5, <1>6 DEF LimiterNext

(* The ledger bounds what any window hands out.                            *)
LEMMA LedgerBounds ==
  ASSUME LimiterTypeOK, Ledger
  PROVE  WindowBound
<1> SUFFICES ASSUME NEW b \in Buckets
             PROVE  (granted[b] - mark.granted[b]) * Unit[b]
                      <= Full(b) + Rate[b] * (now - mark.now)
  BY DEF WindowBound
<1>1. mark.granted \in [Buckets -> Nat]
  BY DEF LimiterTypeOK
<1>2. /\ granted[b] \in Nat /\ mark.granted[b] \in Nat /\ Unit[b] \in Nat
      /\ mark.granted[b] <= granted[b]
      /\ granted[b] * Unit[b] \in Nat /\ mark.granted[b] * Unit[b] \in Nat
      /\ Full(b) \in Nat /\ Refilled(b) \in Nat
      /\ Rate[b] * (now - mark.now) \in Nat
  <2>1. now - mark.now \in Nat /\ Rate[b] \in Nat /\ granted[b] \in Nat /\ Unit[b] \in Nat
    BY BucketConstants DEF LimiterTypeOK
  <2>2. QED
    BY <1>1, <2>1, BucketConstants, RefilledFacts, Products DEF LimiterTypeOK
<1>3. granted[b] * Unit[b] + Refilled(b)
        <= mark.granted[b] * Unit[b] + Full(b) + Rate[b] * (now - mark.now)
  BY RefillLedger DEF Ledger, LedgerOf
<1>4. (granted[b] - mark.granted[b]) * Unit[b]
        = granted[b] * Unit[b] - mark.granted[b] * Unit[b]
  BY <1>2
<1> DEFINE gu == granted[b] * Unit[b]
           mu == mark.granted[b] * Unit[b]
           r == Rate[b] * (now - mark.now)
<1>5. gu - mu <= Full(b) + r
  <2>1. gu \in Nat /\ mu \in Nat /\ r \in Nat /\ gu + Refilled(b) <= mu + Full(b) + r
    BY <1>2, <1>3
  <2> HIDE DEF gu, mu, r
  <2>2. QED
    BY <1>2, <2>1
<1>6. QED
  BY <1>4, <1>5

(* Whatever the buckets, their rates and the callers, no stretch of time   *)
(* sees more tokens granted than a full bucket and the stretch's refill    *)
(* (rate_limiter.py acquire, _refill, metrics).                            *)
THEOREM RateBounded == LimiterSpec => []WindowBound
<1>1. LimiterInit => LimiterTypeOK /\ Ledger
  <2>1. LimiterInit => LimiterTypeOK
    BY InitType
  <2>2. ASSUME LimiterInit, LimiterTypeOK PROVE Ledger
    <3>1. \A b \in Buckets : Full(b) \in Nat /\ Rate[b] \in Nat /\ Unit[b] \in Nat
      BY BucketConstants
    <3>2. QED
      BY <2>2, <3>1 DEF LimiterInit, Ledger
  <2>3. QED
    BY <2>1, <2>2
<1>2. LimiterTypeOK /\ Ledger /\ [LimiterNext]_limiterVars => LimiterTypeOK' /\ Ledger'
  BY StepType, LedgerStep
<1>3. LimiterTypeOK /\ Ledger => WindowBound
  BY LedgerBounds
<1>4. QED
  BY <1>1, <1>2, <1>3, PTL DEF LimiterSpec
-----------------------------------------------------------------------------
(* A level x of a bucket, refilled at l, reaches need by d.                *)
Reaches(b, x, l, d, need) ==
  x >= need \/ (l <= d /\ x + Rate[b] * (d - l) >= need)

(* What makes NoFutileWait inductive: as long as nothing is granted, the   *)
(* bucket of a sleeper reaches what it asked for by the time it is due.    *)
Waits ==
  \A c \in Callers : call[c].pc = "asleep" =>
    LET b == call[c].bucket IN
    /\ call[c].tokens <= Capacity[b] /\ call[c].seen <= granted[b]
    /\ granted[b] = call[c].seen =>
         Reaches(b, available[b], last[b], call[c].due, call[c].tokens * Unit[b])

(* What a sleeper remembers has the types of a call of acquire.            *)
LEMMA SleeperFacts ==
  ASSUME LimiterTypeOK, NEW c \in Callers, call[c].pc = "asleep"
  PROVE  /\ call[c] \in Asleep /\ call[c].bucket \in Buckets
         /\ call[c].tokens \in Requests /\ call[c].tokens \in Nat \ {0}
         /\ call[c].due \in Nat /\ call[c].seen \in Nat
<1>1. call[c] \in Asleep
  BY DEF LimiterTypeOK, Idle
<1>2. QED
  BY <1>1, RequestAssumption DEF Asleep

(* A request the bucket can hold at all is at most the full bucket.        *)
LEMMA NeedFits ==
  ASSUME NEW b \in Buckets, NEW n \in Nat, n <= Capacity[b]
  PROVE  n * Unit[b] \in Nat /\ n * Unit[b] <= Full(b)
<1>1. /\ Capacity[b] \in Nat /\ Unit[b] \in Nat /\ Capacity[b] - n \in Nat
      /\ Capacity[b] = n + (Capacity[b] - n)
  BY BucketConstants
<1>2. Unit[b] * Capacity[b] = Unit[b] * n + Unit[b] * (Capacity[b] - n)
  BY <1>1, Products
<1>3. n * Unit[b] = Unit[b] * n /\ Full(b) = Unit[b] * Capacity[b]
  BY <1>1 DEF Full
<1> DEFINE x == Unit[b] * n  y == Unit[b] * (Capacity[b] - n)
<1>4. x \in Nat /\ y \in Nat /\ Full(b) = x + y /\ n * Unit[b] = x
  BY <1>1, <1>2, <1>3, Products
<1> HIDE DEF x, y
<1>5. QED
  BY <1>4

(* A refill, by whomever, does not put off the moment a need is reached.   *)
LEMMA RefillReaches ==
  ASSUME LimiterTypeOK, NEW b \in Buckets, NEW d \in Nat, NEW need \in Nat, need <= Full(b),
         Reaches(b, available[b], last[b], d, need)
  PROVE  /\ Reaches(b, Refilled(b), now, d, need)
         /\ d <= now => Refilled(b) >= need
<1> DEFINE x == available[b]  l == last[b]
           toNow == Rate[b] * (now - l)
           toDue == Rate[b] * (d - l)
           afterwards == Rate[b] * (d - now)
           over == Rate[b] * (now - d)
<1>1. /\ x \in Nat /\ l \in Nat /\ now \in Nat /\ l <= now /\ Rate[b] \in Nat
      /\ Full(b) \in Nat /\ toNow \in Nat
  BY BucketConstants, RefilledFacts DEF LimiterTypeOK
<1>2. Refilled(b) = IF x + toNow > Full(b) THEN Full(b) ELSE x + toNow
  BY DEF Refilled
<1>3. x >= need => Refilled(b) >= need
  <2> HIDE DEF toNow, x
  <2>1. QED
    BY <1>1, <1>2
<1>4. CASE x >= need
  BY <1>3, <1>4 DEF Reaches
<1>5. CASE l <= d /\ x + toDue >= need /\ d <= now
  <2>1. /\ d - l \in Nat /\ now - d \in Nat /\ now - l = (d - l) + (now - d)
    BY <1>1, <1>5
  <2>2. toNow = toDue + over /\ toDue \in Nat /\ over \in Nat
    BY <1>1, <2>1, Products
  <2>3. Refilled(b) >= need
    <3> HIDE DEF toNow, toDue, over, x
    <3>1. QED
      BY <1>1, <1>2, <1>5, <2>2
  <2>4. QED
    BY <2>3 DEF Reaches
<1>6. CASE l <= d /\ x + toDue >= need /\ ~(d <= now)
  <2>1. /\ now - l \in Nat /\ d - now \in Nat /\ d - l = (now - l) + (d - now)
    BY <1>1, <1>6
  <2>2. toDue = toNow + afterwards /\ afterwards \in Nat
    BY <1>1, <2>1, Products
  <2>3. Refilled(b) >= need \/ Refilled(b) + afterwards >= need
    <3> HIDE DEF toNow, toDue, afterwards, x
    <3>1. QED
      BY <1>1, <1>2, <1>6, <2>2
  <2>4. QED
    BY <1>1, <1>6, <2>1, <2>3 DEF Reaches
<1>7. QED
  BY <1>4, <1>5, <1>6 DEF Reaches

(* The wait acquire computes is long enough for its deficit.               *)
LEMMA WaitSuffices ==
  ASSUME NEW b \in Buckets, NEW x \in Nat, NEW need \in Nat, x < need, NEW t \in Nat
  PROVE  /\ t + Wait(b, need - x) \in Nat
         /\ Reaches(b, x, t, t + Wait(b, need - x), need)
<1> DEFINE r == Rate[b]  w == Wait(b, need - x)  n == (need - x) + r - 1
<1>1. need - x \in Nat /\ r \in Nat \ {0} /\ n \in Nat /\ w \in Nat
  BY BucketConstants, WaitFacts
<1>2. w = n \div r
  BY DEF Wait
<1>3. n < w * r + r
  <2> HIDE DEF n, r
  <2>1. \A m \in Nat, k \in Nat \ {0} : m < (m \div k) * k + k
    OBVIOUS
  <2>2. QED
    BY <1>1, <1>2, <2>1
<1>4. w * r = Rate[b] * w /\ w * r \in Nat
  BY <1>1, Products
<1>5. x + Rate[b] * w >= need
  <2> DEFINE y == w * r
  <2>1. y \in Nat /\ n < y + r /\ Rate[b] * w = y
    BY <1>3, <1>4
  <2>2. n = (need - x) + r - 1
    OBVIOUS
  <2> HIDE DEF y, n, w, r
  <2>3. QED
    BY <1>1, <2>1, <2>2
<1>6. (t + w) - t = w /\ t <= t + w
  <2> HIDE DEF w
  <2>1. QED
    BY <1>1
<1>7. QED
  BY <1>1, <1>5, <1>6 DEF Reaches

(* One turn of the loop of a caller, for itself and for every sleeper.     *)
LEMMA AttemptWaits ==
  ASSUME LimiterTypeOK, Waits, NEW c \in Callers, NEW b \in Buckets, NEW n \in Requests,
         n <= Capacity[b], Attempt(c, b, n)
  PROVE  Waits'
<1>1. /\ n \in Nat \ {0} /\ n * Unit[b] \in Nat /\ n * Unit[b] <= Full(b)
      /\ Refilled(b) \in Nat /\ now \in Nat /\ granted[b] \in Nat
  BY RequestAssumption, NeedFits, RefilledFacts DEF LimiterTypeOK
<1>2. now' = now /\ last' = [last EXCEPT ![b] = now] /\ last'[b] = now
  BY DEF Attempt, LimiterTypeOK
<1>3. \/ /\ call' = [call EXCEPT ![c] = Idle]
         /\ granted' = [granted EXCEPT ![b] = @ + n] /\ granted'[b] = granted[b] + n
         /\ available' = [available EXCEPT ![b] = Refilled(b) - Taken(b, n)]
      \/ /\ Refilled(b) < n * Unit[b]
         /\ granted' = granted
         /\ available' = [available EXCEPT ![b] = Refilled(b)] /\ available'[b] = Refilled(b)
         /\ call' = [call EXCEPT ![c] =
                        [pc |-> "asleep", bucket |-> b, tokens |-> n,
                         due |-> now + Wait(b, n * Unit[b] - Refilled(b)),
                         seen |-> granted[b]]]
  BY <1>1 DEF Attempt, LimiterTypeOK
<1> SUFFICES ASSUME NEW k \in Callers, call'[k].pc = "asleep"
             PROVE  LET a == call'[k].bucket IN
                    /\ call'[k].tokens <= Capacity[a] /\ call'[k].seen <= granted'[a]
                    /\ granted'[a] = call'[k].seen =>
                         Reaches(a, available'[a], last'[a], call'[k].due,
                                 call'[k].tokens * Unit[a])
  BY DEF Waits, Reaches
<1>4. CASE k = c
  <2>1. /\ Refilled(b) < n * Unit[b] /\ available'[b] = Refilled(b) /\ granted' = granted
        /\ call'[c] = [pc |-> "asleep", bucket |-> b, tokens |-> n,
                       due |-> now + Wait(b, n * Unit[b] - Refilled(b)), seen |-> granted[b]]
    BY <1>3, <1>4 DEF LimiterTypeOK, Idle
  <2>2. Reaches(b, Refilled(b), now, now + Wait(b, n * Unit[b] - Refilled(b)), n * Unit[b])
    BY <1>1, <2>1, WaitSuffices
  <2>3. QED
    BY <1>1, <1>2, <1>4, <2>1, <2>2
<1>5. CASE k # c
  <2> DEFINE a == call[k].bucket  need == call[k].tokens * Unit[a]
  <2>1. call'[k] = call[k]
    BY <1>3, <1>5 DEF LimiterTypeOK
  <2>2. /\ a \in Buckets /\ call[k].tokens \in Nat /\ call[k].due \in Nat
        /\ call[k].seen \in Nat /\ granted[a] \in Nat
    BY <2>1, SleeperFacts DEF LimiterTypeOK
  <2>3. /\ call[k].tokens <= Capacity[a] /\ call[k].seen <= granted[a]
        /\ granted[a] = call[k].seen =>
             Reaches(a, available[a], last[a], call[k].due, need)
    BY <2>1 DEF Waits
  <2>4. need \in Nat /\ need <= Full(a)
    BY <2>2, <2>3, NeedFits
  <2>5. CASE a # b
    <3>1. /\ granted'[a] = granted[a] /\ available'[a] = available[a]
          /\ last'[a] = last[a]
      BY <1>2, <1>3, <2>2, <2>5 DEF LimiterTypeOK
    <3>2. QED
      BY <2>1, <2>3, <3>1
  <2>6. CASE a = b /\ granted'[b] = granted[b] + n
    BY <1>1, <2>1, <2>2, <2>3, <2>6
  <2>7. CASE a = b /\ granted' = granted /\ available'[b] = Refilled(b)
    <3>1. granted[a] = call[k].seen => Reaches(a, Refilled(a), now, call[k].due, need)
      BY <2>2, <2>3, <2>4, RefillReaches
    <3>2. QED
      BY <1>2, <2>1, <2>3, <2>7, <3>1
  <2>8. QED
    BY <1>3, <2>5, <2>6, <2>7
<1>6. QED
  BY <1>4, <1>5

(* Every step keeps what sleepers wait for.                                *)
LEMMA WaitsStep ==
  ASSUME LimiterTypeOK, Waits, [LimiterNext]_limiterVars
  PROVE  Waits'
<1>1. CASE UNCHANGED <<available, last, granted, call>>
  BY <1>1 DEF Waits, Reaches
<1>2. CASE UNCHANGED limiterVars \/ Tick \/ Observe
  BY <1>1, <1>2 DEF limiterVars, Tick, Observe
<1>3. CASE Metrics
  <2>1. /\ call' = call /\ granted' = granted /\ now' = now
        /\ \A b \in Buckets : available'[b] = Refilled(b) /\ last'[b] = now
    BY <1>3 DEF Metrics
  <2> SUFFICES ASSUME NEW c \in Callers, call[c].pc = "asleep"
               PROVE  LET b == call[c].bucket IN
                      /\ call[c].tokens <= Capacity[b] /\ call[c].seen <= granted[b]
                      /\ granted[b] = call[c].seen =>
                           Reaches(b, Refilled(b), now, call[c].due, call[c].tokens * Unit[b])
    BY <2>1, SleeperFacts DEF Waits, Reaches
  <2> DEFINE b == call[c].bucket
  <2>2. b \in Buckets /\ call[c].tokens \in Nat /\ call[c].due \in Nat
    BY SleeperFacts
  <2>3. /\ call[c].tokens <= Capacity[b] /\ call[c].seen <= granted[b]
        /\ granted[b] = call[c].seen =>
             Reaches(b, available[b], last[b], call[c].due, call[c].tokens * Unit[b])
    BY DEF Waits
  <2>4. QED
    BY <2>2, <2>3, NeedFits, RefillReaches
<1>4. ASSUME NEW c \in Callers, Wake(c)
      PROVE  Waits'
  <2>1. call[c].pc = "asleep" /\ Attempt(c, call[c].bucket, call[c].tokens)
    BY <1>4 DEF Wake
  <2>2. /\ call[c].bucket \in Buckets /\ call[c].tokens \in Requests
        /\ call[c].tokens <= Capacity[call[c].bucket]
    BY <2>1, SleeperFacts DEF Waits
  <2>3. QED
    BY <2>1, <2>2, AttemptWaits
<1>5. ASSUME NEW c \in Callers, NEW b \in Buckets, NEW n \in Requests, Acquire(c, b, n)
      PROVE  Waits'
  BY <1>5, AttemptWaits DEF Acquire
<1>6. QED
  BY <1>2, <1>3, <1>4, <1>5 DEF LimiterNext

(* Whatever the buckets and whoever else refills them, the wait that       *)
(* acquire computes from the deficit is long enough: a caller that wakes   *)
(* when it is due, and nothing was granted meanwhile, finds its tokens.    *)
THEOREM SleepSuffices == LimiterSpec => []NoFutileWait
<1>1. LimiterInit => LimiterTypeOK
  BY InitType
<1>2. LimiterInit => Waits
  BY DEF LimiterInit, Waits, Idle
<1>3. LimiterTypeOK /\ Waits /\ [LimiterNext]_limiterVars => LimiterTypeOK' /\ Waits'
  BY StepType, WaitsStep
<1>4. ASSUME LimiterTypeOK, Waits PROVE NoFutileWait
  <2> SUFFICES ASSUME NEW c \in Callers, call[c].pc = "asleep", call[c].due <= now,
                      granted[call[c].bucket] = call[c].seen
               PROVE  Refilled(call[c].bucket) >= call[c].tokens * Unit[call[c].bucket]
    BY DEF NoFutileWait
  <2> DEFINE b == call[c].bucket
  <2>1. b \in Buckets /\ call[c].tokens \in Nat /\ call[c].due \in Nat
    BY <1>4, SleeperFacts
  <2>2. /\ call[c].tokens <= Capacity[b]
        /\ Reaches(b, available[b], last[b], call[c].due, call[c].tokens * Unit[b])
    BY <1>4 DEF Waits
  <2>3. QED
    BY <1>4, <2>1, <2>2, NeedFits, RefillReaches
<1>5. QED
  BY <1>1, <1>2, <1>3, <1>4, PTL DEF LimiterSpec
-----------------------------------------------------------------------------
(* Where a coroutine is: what it has asked for.                            *)
Awaited == {"idle", "qualify", "details", "rule", "guess", "search", "fetch", "refetch"}

(* The part of the types the argument needs.                               *)
LookupTypes ==
  /\ service \in {"conid", "grid", "market"}
  /\ truth \in Nat /\ known \subseteq LookedUp
  /\ kept \in [Keys -> Nat] /\ cleared \in [LookedUp -> Nat]
  /\ \A i \in LookedUp : cleared[i] <= truth
  /\ lookup \in [Resolvers -> [at : Awaited, answered : BOOLEAN, inst : LookedUp, got : Nat]]

(* An answer on its way into the cache is no older than the last clear of  *)
(* any instrument it will be the entry of, unless the clear overtook it.   *)
AnswersFresh ==
  \A c \in Resolvers, i \in LookedUp \ overlapped :
    lookup[c].got # 0 /\ Key(lookup[c].inst) = Key(i) => lookup[c].got >= cleared[i]

LookupsInv == LookupTypes /\ AnswersFresh /\ ClearedMeansFresh

(* There is something to look up.                                          *)
LEMMA NoCallType ==
  ASSUME LookedUp # {}
  PROVE  /\ NoCall \in [at : Awaited, answered : BOOLEAN, inst : LookedUp, got : Nat]
         /\ NoCall.got = 0
<1> DEFINE one == CHOOSE i \in LookedUp : TRUE
<1>1. one \in LookedUp
  OBVIOUS
<1>2. NoCall = [at |-> "idle", answered |-> FALSE, inst |-> one, got |-> 0]
  BY DEF NoCall
<1> HIDE DEF one
<1>3. QED
  BY <1>1, <1>2 DEF Awaited

(* The keys of instruments.                                                *)
LEMMA KeyFacts ==
  ASSUME NEW i \in LookedUp
  PROVE  Key(i) \in Keys
  BY DEF Key, Keys

(* The initial caches are empty.                                           *)
LEMMA InitFresh == LookedUp # {} /\ LookupsInit => LookupsInv
  BY NoCallType DEF LookupsInit, LookupsInv, LookupTypes, AnswersFresh, ClearedMeansFresh

(* A corporate action only makes what the venue says newer.                *)
LEMMA ActionKeeps ==
  ASSUME LookupsInv, CorporateAction
  PROVE  LookupsInv'
<1>1. LookupTypes'
  BY DEF LookupsInv, LookupTypes, CorporateAction, Keys
<1>2. QED
  BY <1>1 DEF LookupsInv, AnswersFresh, ClearedMeansFresh, CorporateAction, Key

(* A step that leaves the caches alone and sets one coroutine to ask, or   *)
(* to give up.                                                             *)
LEMMA CallKeeps ==
  ASSUME LookupsInv, UNCHANGED cacheVars, NEW c \in Resolvers,
         NEW r \in [at : Awaited, answered : BOOLEAN, inst : LookedUp, got : Nat],
         lookup' = [lookup EXCEPT ![c] = r],
         \/ r.got = 0 \/ r.got = truth
         \/ r.inst = lookup[c].inst /\ r.got = lookup[c].got
  PROVE  LookupsInv'
<1>1. LookupTypes'
  BY DEF LookupsInv, LookupTypes, cacheVars, Keys
<1>2. AnswersFresh'
  <2> SUFFICES ASSUME NEW d \in Resolvers, NEW i \in LookedUp \ overlapped,
                      lookup'[d].got # 0, Key(lookup'[d].inst) = Key(i)
               PROVE  lookup'[d].got >= cleared[i]
    BY DEF AnswersFresh, cacheVars, Key
  <2>1. CASE d # c
    BY <2>1 DEF LookupsInv, LookupTypes, AnswersFresh
  <2>2. CASE d = c
    <3>1. lookup'[d] = r
      BY <2>2 DEF LookupsInv, LookupTypes
    <3>2. CASE r.got = truth
      BY <3>1, <3>2 DEF LookupsInv, LookupTypes
    <3>3. CASE r.inst = lookup[c].inst /\ r.got = lookup[c].got
      BY <2>2, <3>1, <3>3 DEF LookupsInv, AnswersFresh
    <3>4. QED
      BY <3>1, <3>2, <3>3
  <2>3. QED
    BY <2>1, <2>2
<1>3. ClearedMeansFresh'
  BY DEF LookupsInv, ClearedMeansFresh, cacheVars, Key
<1>4. QED
  BY <1>1, <1>2, <1>3 DEF LookupsInv

(* A coroutine sends its next request.                                     *)
LEMMA AskKeeps ==
  ASSUME LookupsInv, UNCHANGED cacheVars, NEW c \in Resolvers, NEW here \in Awaited,
         NEW i \in LookedUp, NEW got \in Nat, Asks(c, here, i, got),
         got = 0 \/ (i = lookup[c].inst /\ got = lookup[c].got)
  PROVE  LookupsInv'
<1> DEFINE r == [at |-> here, answered |-> FALSE, inst |-> i, got |-> got]
<1>1. /\ r \in [at : Awaited, answered : BOOLEAN, inst : LookedUp, got : Nat]
      /\ r.inst = i /\ r.got = got /\ lookup' = [lookup EXCEPT ![c] = r]
  BY DEF Asks
<1> HIDE DEF r
<1>2. QED
  BY <1>1, CallKeeps

(* An answer is stored: it becomes the entry of every instrument that has  *)
(* the key.                                                                *)
LEMMA StoreKeeps ==
  ASSUME LookupsInv, LookedUp # {}, NEW c \in Resolvers,
         known' = known \/ known' = known \cup {lookup[c].inst},
         kept' = [kept EXCEPT ![Key(lookup[c].inst)] = lookup[c].got],
         lookup' = [lookup EXCEPT ![c] = NoCall],
         UNCHANGED <<service, truth, cleared, overlapped>>
  PROVE  LookupsInv'
<1>1. lookup[c].inst \in LookedUp /\ lookup[c].got \in Nat
  BY DEF LookupsInv, LookupTypes
<1>2. LookupTypes'
  BY <1>1, NoCallType DEF LookupsInv, LookupTypes, Keys
<1>3. AnswersFresh'
  <2> SUFFICES ASSUME NEW d \in Resolvers, NEW i \in LookedUp \ overlapped,
                      lookup'[d].got # 0, Key(lookup'[d].inst) = Key(i)
               PROVE  lookup'[d].got >= cleared[i]
    BY DEF AnswersFresh, Key
  <2>1. lookup'[d] = lookup[d]
    BY NoCallType DEF LookupsInv, LookupTypes
  <2>2. QED
    BY <2>1 DEF LookupsInv, AnswersFresh
<1>4. ClearedMeansFresh'
  <2> SUFFICES ASSUME NEW i \in known' \ overlapped, kept'[Key(i)] # 0
               PROVE  kept'[Key(i)] >= cleared[i]
    BY DEF ClearedMeansFresh, Key
  <2>1. i \in LookedUp /\ Key(i) \in Keys
    BY <1>1, KeyFacts DEF LookupsInv, LookupTypes
  <2>2. CASE Key(i) = Key(lookup[c].inst)
    <3>1. kept'[Key(i)] = lookup[c].got
      BY <2>1, <2>2 DEF LookupsInv, LookupTypes
    <3>2. QED
      BY <2>1, <2>2, <3>1 DEF LookupsInv, AnswersFresh
  <2>3. CASE Key(i) # Key(lookup[c].inst)
    <3>1. kept'[Key(i)] = kept[Key(i)] /\ i \in known
      BY <2>1, <2>3 DEF LookupsInv, LookupTypes
    <3>2. QED
      BY <3>1 DEF LookupsInv, ClearedMeansFresh
  <2>4. QED
    BY <2>2, <2>3
<1>5. QED
  BY <1>2, <1>3, <1>4 DEF LookupsInv

(* A clear, of some instruments: what is left of them in the cache is      *)
(* nothing, and the answers on their way to them are the overlapping ones. *)
LEMMA ClearKeeps ==
  ASSUME LookupsInv, NEW gone \in SUBSET LookedUp, Clears(gone),
         known' = known \ gone,
         kept' \in [Keys -> Nat], \A k \in Keys : kept'[k] = kept[k] \/ kept'[k] = 0
  PROVE  LookupsInv'
<1>1. /\ UNCHANGED <<service, truth, lookup>>
      /\ \A i \in LookedUp : cleared'[i] = IF i \in gone THEN truth ELSE cleared[i]
      /\ cleared' \in [LookedUp -> Nat]
      /\ overlapped' = (overlapped \ gone) \cup {i \in gone : Overlaps(i)}
  BY DEF Clears, LookupsInv, LookupTypes
<1>2. LookupTypes'
  BY <1>1 DEF LookupsInv, LookupTypes, Keys
<1>3. AnswersFresh'
  <2> SUFFICES ASSUME NEW c \in Resolvers, NEW i \in LookedUp \ overlapped',
                      lookup[c].got # 0, Key(lookup[c].inst) = Key(i)
               PROVE  lookup[c].got >= cleared'[i]
    BY <1>1 DEF AnswersFresh, Key
  <2>1. i \notin gone
    BY <1>1 DEF Overlaps
  <2>2. QED
    BY <1>1, <2>1 DEF LookupsInv, AnswersFresh
<1>4. ClearedMeansFresh'
  <2> SUFFICES ASSUME NEW i \in known' \ overlapped', kept'[Key(i)] # 0
               PROVE  kept'[Key(i)] >= cleared'[i]
    BY <1>1 DEF ClearedMeansFresh, Key
  <2>1. i \in known \ overlapped /\ i \notin gone /\ i \in LookedUp
    BY <1>1 DEF LookupsInv, LookupTypes
  <2>2. kept'[Key(i)] = kept[Key(i)]
    BY <2>1, KeyFacts
  <2>3. QED
    BY <1>1, <2>1, <2>2 DEF LookupsInv, ClearedMeansFresh
<1>5. QED
  BY <1>2, <1>3, <1>4 DEF LookupsInv

(* Every step keeps the invariant.                                         *)
LEMMA StepKeeps ==
  ASSUME LookedUp # {}, LookupsInv, [LookupsNext]_lookupVars
  PROVE  LookupsInv'
<1>1. CASE UNCHANGED lookupVars
  BY <1>1 DEF lookupVars, LookupsInv, LookupTypes, AnswersFresh, ClearedMeansFresh, Key, Keys
<1>2. CASE CorporateAction
  BY <1>2, ActionKeeps
<1>3. ASSUME NEW c \in Resolvers, NEW i \in LookedUp, Miss(c, i) \/ MissMetadata(c, i)
      PROVE  LookupsInv'
  <2>1. First[service] \in Awaited
    BY DEF First, LookupsInv, LookupTypes, Awaited
  <2>2. UNCHANGED cacheVars /\ (Asks(c, First[service], i, 0) \/ Asks(c, "refetch", i, 0))
    BY <1>3 DEF Miss, MissMetadata
  <2>3. QED
    BY <2>1, <2>2, AskKeeps DEF Awaited
<1>4. ASSUME NEW c \in Resolvers, Answer(c)
      PROVE  LookupsInv'
  <2> DEFINE r == [lookup[c] EXCEPT !.answered = TRUE,
                      !.got = IF @ = 0 /\ lookup[c].at # "search" THEN truth ELSE @]
  <2>1. /\ r \in [at : Awaited, answered : BOOLEAN, inst : LookedUp, got : Nat]
        /\ r.inst = lookup[c].inst /\ (r.got = truth \/ r.got = lookup[c].got)
    BY DEF LookupsInv, LookupTypes
  <2>2. lookup' = [lookup EXCEPT ![c] = r] /\ UNCHANGED cacheVars
    BY <1>4 DEF Answer, LookupsInv, LookupTypes
  <2> HIDE DEF r
  <2>3. QED
    BY <2>1, <2>2, CallKeeps
<1>5. ASSUME NEW c \in Resolvers, Raises(c)
      PROVE  LookupsInv'
  BY <1>5, NoCallType, CallKeeps DEF Raises
<1>6. ASSUME NEW c \in Resolvers, AsksMore(c)
      PROVE  LookupsInv'
  <2>1. lookup[c].inst \in LookedUp /\ lookup[c].got \in Nat
    BY DEF LookupsInv, LookupTypes
  <2>2. /\ UNCHANGED cacheVars
        /\ \/ Asks(c, "rule", lookup[c].inst, lookup[c].got)
           \/ Asks(c, "search", lookup[c].inst, 0) \/ Asks(c, "fetch", lookup[c].inst, 0)
    BY <1>6 DEF AsksMore
  <2>3. QED
    BY <2>1, <2>2, AskKeeps DEF Awaited
<1>7. ASSUME NEW c \in Resolvers, Stores(c) \/ StoresMetadata(c)
      PROVE  LookupsInv'
  BY <1>7, StoreKeeps DEF Stores, StoresMetadata
<1>8. ASSUME NEW i \in LookedUp, ClearOne(i)
      PROVE  LookupsInv'
  <2>1. kept' \in [Keys -> Nat] /\ \A k \in Keys : kept'[k] = kept[k] \/ kept'[k] = 0
    BY <1>8 DEF ClearOne, Forgotten, LookupsInv, LookupTypes
  <2>2. QED
    BY <1>8, <2>1, ClearKeeps DEF ClearOne, Forgotten
<1>9. CASE ClearAll
  <2>1. kept' \in [Keys -> Nat] /\ \A k \in Keys : kept'[k] = kept[k] \/ kept'[k] = 0
    BY <1>9 DEF ClearAll
  <2>2. known' = known \ LookedUp /\ Clears(LookedUp)
    BY <1>9 DEF ClearAll, LookupsInv, LookupTypes
  <2>3. QED
    BY <2>1, <2>2, ClearKeeps
<1>10. QED
  BY <1>1, <1>2, <1>3, <1>4, <1>5, <1>6, <1>7, <1>8, <1>9 DEF LookupsNext

(* In every cache, whichever coroutines look up and are cleared under,     *)
(* what is kept of an instrument is no older than its last clear, unless   *)
(* an answer was already on its way at that moment (clear_cache of the     *)
(* three services).                                                        *)
THEOREM CachesFresh ==
  ASSUME LookedUp # {}
  PROVE  LookupsSpec => []ClearedMeansFresh
<1>1. LookupsInit => LookupsInv
  BY InitFresh
<1>2. LookupsInv /\ [LookupsNext]_lookupVars => LookupsInv'
  BY StepKeeps
<1>3. LookupsInv => ClearedMeansFresh
  BY DEF LookupsInv
<1>4. QED
  BY <1>1, <1>2, <1>3, PTL DEF LookupsSpec

-----------------------------------------------------------------------------
(* OrderProbe.  The states of the order that no event leads out of, those  *)
(* before the wire call, and those an order can be in once it was accepted. *)
Status == state[TheOrder]
Unplaced == {"INITIALIZED", "SUBMIT_PENDING"}
TakenUp == FSM!OrderState \ {"INITIALIZED", "SUBMIT_PENDING", "SUBMITTED", "REJECTED"}

Reported == {"SUBMITTED", "ACCEPTED", "REJECTED", "FILLED", "CANCELED"}

(* An event on the queue is still true of an order in state s.             *)
StillTrue(kind, s) ==
  /\ kind \in {"CANCELED", "REJECTED"} => s = kind
  /\ kind = "ACCEPTED" => s \in TakenUp
  /\ s \notin Unplaced

QueueTrue(q, s) == q \in Seq(Reported) /\ \A i \in 1..Len(q) : StillTrue(q[i], s)

ProbeTypes ==
  /\ state \in [{TheOrder} -> FSM!OrderState] /\ script \in Scripts
  /\ asked \in BOOLEAN /\ online \in BOOLEAN

(* What a place says of an order in state s: nothing is placed before      *)
(* submit, and a probe that goes on after ACCEPTED has an order that was   *)
(* taken, and asked to cancel it (cut) when it waits for the end.          *)
Fits(place, sc, s, cut) ==
  CASE place \in {"start", "submit"} -> s = "INITIALIZED"
    [] place = "submitting" -> s = "SUBMIT_PENDING"
    [] place = "wait submitted" -> s \notin Unplaced /\ sc \in Stepwise
    [] place = "wait decision" -> s \notin Unplaced /\ sc \in Stepwise
    [] place = "wait terminal" -> s \notin Unplaced /\ sc \in {"cap", "diag"}
    [] place = "cancel" -> s \notin Unplaced /\ ((sc \in Stepwise /\ s \in TakenUp) \/ sc = "cap")
    [] place = "wait closed" -> sc \in Stepwise /\ s \in TakenUp /\ cut
    [] place = "end" -> TRUE
    [] OTHER -> FALSE

(* What an exit code says of it.                                           *)
Claim(code, sc, s, cut) ==
  /\ sc \in Stepwise /\ code \in {0, 1} => s \in {"CANCELED", "REJECTED"}
  /\ sc \in Stepwise /\ code \in {2, 3} => s \in Unplaced
  /\ sc = "submit" /\ code \in {6, 7} => cut
  /\ sc = "tqqq" /\ code = 4 => s \notin Unplaced /\ s # "SUBMITTED" /\ cut

Cut == asked \/ ~online

ProbeWorks ==
  /\ ProbeTypes /\ QueueTrue(queue, Status)
  /\ Fits(at, script, Status, Cut) /\ (at # "end" => exit = NoCode)
  /\ Claim(exit, script, Status, Cut)

LEMMA ClaimsTell == Claim(exit, script, Status, Cut) => ProbeTellsOrder
BY DEF Claim, ProbeTellsOrder, Status, Cut, Unplaced, Stepwise

(* The rows of the table that a probe's order may take.                    *)
LEMMA ProbeRow ==
  ASSUME NEW trigger, state \in [{TheOrder} -> FSM!OrderState], FSM!Transition(TheOrder, trigger)
  PROVE  /\ state' \in [{TheOrder} -> FSM!OrderState]
         /\ trigger = "submit_call" => Status = "INITIALIZED" /\ Status' = "SUBMIT_PENDING"
         /\ trigger = "wire_ack" => Status = "SUBMIT_PENDING" /\ Status' = "SUBMITTED"
         /\ trigger = "wire_reject" => Status = "SUBMIT_PENDING" /\ Status' = "REJECTED"
         /\ trigger = "accept" => Status = "SUBMITTED" /\ Status' = "ACCEPTED"
         /\ trigger = "reject" => Status = "SUBMITTED" /\ Status' = "REJECTED"
         /\ trigger = "fill" => Status \in {"ACCEPTED", "PARTIALLY_FILLED"} /\ Status' = "FILLED"
         /\ trigger = "cancel" => /\ Status \in {"SUBMITTED", "ACCEPTED", "PARTIALLY_FILLED"}
                                  /\ Status' = "CANCELED"
<1>1. PICK t \in FSM!Transitions :
        t.from = state[TheOrder] /\ t.trigger = trigger /\ state' = [state EXCEPT ![TheOrder] = t.to]
  BY DEF FSM!Transition
<1>2. t.to \in FSM!OrderState BY DEF FSM!Transitions, FSM!T, FSM!OrderState
<1>3. Status' = t.to /\ state' \in [{TheOrder} -> FSM!OrderState] BY <1>1, <1>2 DEF Status
<1>4. /\ t.trigger = "submit_call" => t.from = "INITIALIZED" /\ t.to = "SUBMIT_PENDING"
      /\ t.trigger = "wire_ack" => t.from = "SUBMIT_PENDING" /\ t.to = "SUBMITTED"
      /\ t.trigger = "wire_reject" => t.from = "SUBMIT_PENDING" /\ t.to = "REJECTED"
      /\ t.trigger = "accept" => t.from = "SUBMITTED" /\ t.to = "ACCEPTED"
      /\ t.trigger = "reject" => t.from = "SUBMITTED" /\ t.to = "REJECTED"
      /\ t.trigger = "fill" => t.from \in {"ACCEPTED", "PARTIALLY_FILLED"} /\ t.to = "FILLED"
      /\ t.trigger = "cancel" => /\ t.from \in {"SUBMITTED", "ACCEPTED", "PARTIALLY_FILLED"}
                                 /\ t.to = "CANCELED"
  BY DEF FSM!Transitions, FSM!T
<1> QED BY <1>1, <1>3, <1>4 DEF Status

LEMMA QueueGrows ==
  ASSUME NEW q, NEW s, NEW next, NEW kind \in Reported, QueueTrue(q, s),
         StillTrue(kind, next), \A k \in Reported : StillTrue(k, s) => StillTrue(k, next)
  PROVE  QueueTrue(Append(q, kind), next) /\ QueueTrue(q, next)
<1>1. /\ q \in Seq(Reported) /\ Append(q, kind) \in Seq(Reported)
      /\ Len(Append(q, kind)) = Len(q) + 1 /\ Len(q) \in Nat
      /\ \A i \in 1..Len(q) : q[i] \in Reported
      /\ \A i \in 1..(Len(q) + 1) : Append(q, kind)[i] = IF i <= Len(q) THEN q[i] ELSE kind
  BY DEF QueueTrue
<1> QED BY <1>1 DEF QueueTrue

LEMMA QueueShrinks ==
  ASSUME NEW q, NEW s, QueueTrue(q, s), q # <<>>
  PROVE  QueueTrue(Tail(q), s) /\ StillTrue(Head(q), s) /\ Head(q) \in Reported
<1>1. /\ q \in Seq(Reported) /\ Tail(q) \in Seq(Reported) /\ Len(q) \in Nat \ {0}
      /\ Len(Tail(q)) = Len(q) - 1 /\ Head(q) = q[1] /\ q[1] \in Reported
      /\ \A i \in 1..(Len(q) - 1) : Tail(q)[i] = q[i + 1]
  BY DEF QueueTrue
<1> QED BY <1>1 DEF QueueTrue

(* The places where events are waited for.                                 *)
LEMMA WaitingPlaces ==
  /\ Wanted # {} => at \in {"wait submitted", "wait decision", "wait closed", "wait terminal"}
BY DEF Wanted

LEMMA ProbeBegins == ProbeInit => ProbeWorks
<1> SUFFICES ASSUME ProbeInit PROVE ProbeWorks OBVIOUS
<1>1. state = [o \in {TheOrder} |-> "INITIALIZED"] BY DEF ProbeInit, FSM!Init
<1>2. state \in [{TheOrder} -> FSM!OrderState] /\ Status = "INITIALIZED"
  BY <1>1 DEF Status, FSM!OrderState
<1>3. QueueTrue(queue, Status) BY DEF ProbeInit, QueueTrue
<1>4. Fits(at, script, Status, Cut) BY <1>2 DEF ProbeInit, Fits
<1>5. Claim(exit, script, Status, Cut) BY DEF ProbeInit, Claim, NoCode
<1>6. ProbeTypes BY <1>2 DEF ProbeInit, ProbeTypes
<1> QED BY <1>3, <1>4, <1>5, <1>6 DEF ProbeInit, ProbeWorks

(* Steps that leave the order as it is: the probe ends, or goes on.        *)
LEMMA EndsWell ==
  ASSUME ProbeWorks, NEW code, Exits(code), UNCHANGED <<script, state, asked, online>>,
         QueueTrue(queue', Status), Claim(code, script, Status, Cut)
  PROVE  ProbeWorks'
<1>1. Status' = Status /\ Cut' = Cut /\ ProbeTypes' BY DEF Status, Cut, ProbeWorks, ProbeTypes
<1>2. at' = "end" /\ exit' = code BY DEF Exits
<1>3. Fits(at', script, Status, Cut) BY <1>2 DEF Fits
<1> QED BY <1>1, <1>2, <1>3 DEF ProbeWorks

LEMMA GoesOn ==
  ASSUME ProbeWorks, at # "end", UNCHANGED <<script, state, exit>>,
         asked' \in BOOLEAN, online' \in BOOLEAN,
         QueueTrue(queue', Status), Fits(at', script, Status, Cut')
  PROVE  ProbeWorks'
<1>1. Status' = Status /\ ProbeTypes' BY DEF Status, ProbeWorks, ProbeTypes
<1>2. exit' = NoCode BY DEF ProbeWorks
<1>3. Claim(exit', script, Status, Cut') BY <1>2 DEF Claim, NoCode
<1> QED BY <1>1, <1>2, <1>3 DEF ProbeWorks

(* The probe reads, decides or ends.                                       *)
LEMMA ProbeReads ==
  ASSUME ProbeWorks,
         \/ Refused \/ Connects \/ SubmitRaises \/ Drops \/ Submitted \/ Accepted \/ Rejected
         \/ CanceledEarly \/ Closed \/ SawTerminal \/ TimesOut \/ Cancels \/ CancelRaises
  PROVE  ProbeWorks'
<1>1. /\ QueueTrue(queue, Status) /\ Fits(at, script, Status, Cut) /\ script \in Scripts
      /\ asked \in BOOLEAN /\ online \in BOOLEAN
  BY DEF ProbeWorks, ProbeTypes
<1>2. CASE Refused
  <2>1. PICK code \in IF script \in Stepwise THEN {2, 3} ELSE {1} : Exits(code)
    BY <1>2 DEF Refused
  <2>2. Status = "INITIALIZED" BY <1>1, <1>2 DEF Refused, Fits
  <2>3. Claim(code, script, Status, Cut) BY <2>1, <2>2 DEF Claim, Unplaced, Stepwise
  <2> QED BY <1>1, <1>2, <2>1, <2>3, EndsWell DEF Refused, Order
<1>3. CASE Connects
  <2>1. Status = "INITIALIZED" BY <1>1, <1>3 DEF Connects, Fits
  <2>2. at' = "submit" /\ exit' = exit /\ online' = TRUE /\ at = "start"
    BY <1>3 DEF Connects, Goes
  <2>3. Fits(at', script, Status, Cut') BY <2>1, <2>2 DEF Fits
  <2> QED BY <1>1, <1>3, <2>2, <2>3, GoesOn DEF Connects, Order
<1>4. CASE SubmitRaises
  <2> DEFINE code == CASE script = "submit" -> 4 [] script = "tqqq" -> 3 [] OTHER -> 1
  <2>1. Exits(code) /\ at \in {"submit", "submitting"} BY <1>4 DEF SubmitRaises
  <2>2. Status \in Unplaced BY <1>1, <2>1 DEF Fits, Unplaced
  <2>3. Claim(code, script, Status, Cut) BY <2>2 DEF Claim, Stepwise
  <2> HIDE DEF code
  <2> QED BY <1>1, <1>4, <2>1, <2>3, EndsWell DEF SubmitRaises, Order
<1>5. CASE Drops
  <2>1. at # "end" BY <1>5, WaitingPlaces DEF Drops
  <2>2. QueueTrue(queue', Status) BY <1>1, <1>5, QueueShrinks DEF Drops
  <2>3. Cut' = Cut /\ at' = at BY <1>5 DEF Drops, Cut
  <2> QED BY <1>1, <1>5, <2>1, <2>2, <2>3, GoesOn DEF Drops
<1>6. ASSUME NEW place, NEW kind, Takes(place, kind)
      PROVE  /\ QueueTrue(queue', Status) /\ StillTrue(kind, Status) /\ at = place
             /\ UNCHANGED <<script, state, asked, online>>
  BY <1>1, <1>6, QueueShrinks DEF Takes
<1>7. CASE Submitted
  <2>1. at = "wait submitted" /\ QueueTrue(queue', Status) BY <1>6, <1>7 DEF Submitted
  <2>2. UNCHANGED <<script, state, asked, online, exit>> /\ at' = "wait decision"
    BY <1>6, <1>7 DEF Submitted, Goes
  <2>3. Fits(at', script, Status, Cut') BY <1>1, <2>1, <2>2 DEF Fits
  <2> QED BY <1>1, <2>1, <2>2, <2>3, GoesOn
<1>8. CASE Accepted
  <2>1. /\ at = "wait decision" /\ QueueTrue(queue', Status)
        /\ StillTrue("ACCEPTED", Status)
    BY <1>6, <1>8 DEF Accepted
  <2>2. UNCHANGED <<script, state, asked, online, exit>> /\ at' = "cancel"
    BY <1>6, <1>8 DEF Accepted, Goes
  <2>3. Fits(at', script, Status, Cut') BY <1>1, <2>1, <2>2 DEF Fits, StillTrue
  <2> QED BY <1>1, <2>1, <2>2, <2>3, GoesOn
<1>9. CASE Rejected
  <2>1. /\ QueueTrue(queue', Status) /\ StillTrue("REJECTED", Status)
        /\ UNCHANGED <<script, state, asked, online>>
    BY <1>6, <1>9 DEF Rejected
  <2>2. PICK code \in {0, 1, 5} : Exits(code) BY <1>9 DEF Rejected
  <2>3. Claim(code, script, Status, Cut) BY <2>1, <2>2 DEF Claim, StillTrue
  <2> QED BY <2>1, <2>2, <2>3, EndsWell
<1>10. CASE CanceledEarly
  <2>1. QueueTrue(queue', Status) /\ UNCHANGED <<script, state, asked, online>> /\ Exits(5)
    BY <1>6, <1>10 DEF CanceledEarly
  <2>2. Claim(5, script, Status, Cut) BY DEF Claim
  <2> QED BY <2>1, <2>2, EndsWell
<1>11. CASE Closed
  <2>1. PICK kind \in {"CANCELED", "REJECTED"} : Takes("wait closed", kind) BY <1>11 DEF Closed
  <2>2. /\ QueueTrue(queue', Status) /\ StillTrue(kind, Status) /\ at = "wait closed"
        /\ UNCHANGED <<script, state, asked, online>>
    BY <1>6, <2>1
  <2> DEFINE code == IF script = "submit" THEN 0 ELSE 4
  <2>3. Exits(code) BY <1>11 DEF Closed
  <2>4. Status \in TakenUp /\ Cut /\ Status \in {"CANCELED", "REJECTED"}
    BY <1>1, <2>1, <2>2 DEF Fits, StillTrue
  <2>5. Claim(code, script, Status, Cut) BY <2>4 DEF Claim, Unplaced, Stepwise
  <2> HIDE DEF code
  <2> QED BY <2>2, <2>3, <2>5, EndsWell
<1>12. CASE SawTerminal
  <2>1. PICK kind \in Terminal : Takes("wait terminal", kind) BY <1>12 DEF SawTerminal
  <2>2. /\ QueueTrue(queue', Status) /\ at = "wait terminal"
        /\ UNCHANGED <<script, state, asked, online>>
    BY <1>6, <2>1
  <2>3. script \in {"cap", "diag"} BY <1>1, <2>2 DEF Fits
  <2>4. Exits(0) /\ Claim(0, script, Status, Cut) BY <1>12, <2>3 DEF SawTerminal, Claim, Stepwise
  <2> QED BY <2>2, <2>4, EndsWell
<1>13. CASE TimesOut
  <2>1. UNCHANGED <<script, state, queue, asked, online>> BY <1>13 DEF TimesOut, Order
  <2>2. CASE at = "wait closed"
    <3> DEFINE code == IF script = "submit" THEN 7 ELSE 4
    <3>1. Exits(code) BY <1>13, <2>2 DEF TimesOut
    <3>2. Cut /\ Status \in TakenUp BY <1>1, <2>2 DEF Fits
    <3>3. Claim(code, script, Status, Cut) BY <3>2 DEF Claim, TakenUp, Unplaced
    <3> HIDE DEF code
    <3> QED BY <1>1, <2>1, <3>1, <3>3, EndsWell
  <2>3. CASE at = "wait terminal"
    <3>1. script \in {"cap", "diag"} /\ Status \notin Unplaced BY <1>1, <2>3 DEF Fits
    <3>2. CASE script = "cap"
      <4>1. at' = "cancel" /\ exit' = exit BY <1>13, <2>3, <3>2 DEF TimesOut, Goes
      <4>2. Fits(at', script, Status, Cut') BY <3>1, <3>2, <4>1 DEF Fits
      <4> QED BY <1>1, <2>1, <2>3, <4>1, <4>2, GoesOn
    <3>3. CASE script = "diag"
      <4>1. Exits(0) BY <1>13, <2>3, <3>3 DEF TimesOut
      <4>2. Claim(0, script, Status, Cut) BY <3>3 DEF Claim, Stepwise
      <4> QED BY <1>1, <2>1, <4>1, <4>2, EndsWell
    <3> QED BY <3>1, <3>2, <3>3
  <2>4. CASE at \in {"wait submitted", "wait decision"}
    <3>1. Exits(5) BY <1>13, <2>4 DEF TimesOut
    <3>2. Claim(5, script, Status, Cut) BY DEF Claim
    <3> QED BY <1>1, <2>1, <3>1, <3>2, EndsWell
  <2> QED BY <1>13, <2>2, <2>3, <2>4, WaitingPlaces DEF TimesOut
<1>14. CASE Cancels
  <2>1. /\ at = "cancel" /\ asked' = TRUE /\ AfterCancel
        /\ UNCHANGED <<script, state, queue, online>>
    BY <1>14 DEF Cancels
  <2>2. (script \in Stepwise /\ Status \in TakenUp) \/ script = "cap" BY <1>1, <2>1 DEF Fits
  <2>3. Cut' BY <2>1 DEF Cut
  <2>4. CASE script = "cap"
    <3>1. at' = "end" /\ exit' = 0 BY <2>1, <2>4 DEF AfterCancel, Exits
    <3>2. Fits(at', script, Status, Cut') BY <3>1 DEF Fits
    <3>3. Claim(0, script, Status, Cut') BY <2>4 DEF Claim, Stepwise
    <3>4. Status' = Status /\ ProbeTypes' BY <2>1 DEF Status, ProbeWorks, ProbeTypes
    <3> QED BY <1>1, <2>1, <3>1, <3>2, <3>3, <3>4 DEF ProbeWorks
  <2>5. CASE script # "cap"
    <3>1. at' = "wait closed" /\ exit' = exit BY <2>1, <2>5 DEF AfterCancel, Goes
    <3>2. Fits(at', script, Status, Cut') BY <2>2, <2>3, <2>5, <3>1 DEF Fits
    <3> QED BY <1>1, <2>1, <3>1, <3>2, GoesOn
  <2> QED BY <2>4, <2>5
<1>15. CASE CancelRaises
  <2>1. at = "cancel" /\ ~online /\ UNCHANGED <<script, state, queue, asked, online>>
    BY <1>15 DEF CancelRaises, Order
  <2>2. (script \in Stepwise /\ Status \in TakenUp) \/ script = "cap" BY <1>1, <2>1 DEF Fits
  <2>3. Cut /\ Cut' BY <2>1 DEF Cut
  <2>4. CASE script = "submit"
    <3>1. Exits(6) BY <1>15, <2>4 DEF CancelRaises
    <3>2. Claim(6, script, Status, Cut) BY <2>3 DEF Claim
    <3> QED BY <1>1, <2>1, <3>1, <3>2, EndsWell
  <2>5. CASE script = "tqqq"
    <3>1. at' = "wait closed" /\ exit' = exit BY <1>15, <2>5 DEF CancelRaises, Goes
    <3>2. Fits(at', script, Status, Cut') BY <2>2, <2>3, <2>5, <3>1 DEF Fits
    <3> QED BY <1>1, <2>1, <3>1, <3>2, GoesOn
  <2>6. CASE script = "cap"
    <3>1. Exits(0) BY <1>15, <2>6 DEF CancelRaises
    <3>2. Claim(0, script, Status, Cut) BY <2>6 DEF Claim, Stepwise
    <3> QED BY <1>1, <2>1, <3>1, <3>2, EndsWell
  <2> QED BY <2>2, <2>4, <2>5, <2>6 DEF Stepwise
<1> QED BY <1>2, <1>3, <1>4, <1>5, <1>7, <1>8, <1>9, <1>10, <1>11, <1>12, <1>13, <1>14, <1>15

(* The session goes away: nothing that was asked is unsaid by it.          *)
LEMMA ProbeLoses == ASSUME ProbeWorks, SessionLost \/ UNCHANGED probeVars PROVE ProbeWorks'
<1>1. /\ UNCHANGED <<script, at, exit, state, queue, asked>> /\ online' \in BOOLEAN
      /\ (Cut => Cut')
  <2>1. UNCHANGED <<script, at, exit, state, queue, asked>> BY DEF SessionLost, probeVars, Order
  <2>2. online' = FALSE \/ online' = online BY DEF SessionLost, probeVars
  <2>3. online \in BOOLEAN BY DEF ProbeWorks, ProbeTypes
  <2>4. online' \in BOOLEAN BY <2>2, <2>3
  <2>5. Cut => Cut' BY <2>1, <2>2 DEF Cut
  <2> QED BY <2>1, <2>4, <2>5
<1>2. Status' = Status /\ ProbeTypes' BY <1>1 DEF Status, ProbeWorks, ProbeTypes
<1>3. Fits(at, script, Status, Cut) => Fits(at, script, Status, Cut') BY <1>1 DEF Fits
<1>4. Claim(exit, script, Status, Cut) => Claim(exit, script, Status, Cut') BY <1>1 DEF Claim
<1> QED BY <1>1, <1>2, <1>3, <1>4 DEF ProbeWorks

(* The order moves to a state that every place and code still fits.        *)
LEMMA MovesWell ==
  ASSUME ProbeWorks, state' \in [{TheOrder} -> FSM!OrderState],
         UNCHANGED <<script, exit, asked, online>>, QueueTrue(queue', Status'),
         Fits(at', script, Status', Cut), at' # "end" => exit = NoCode,
         Claim(exit, script, Status', Cut)
  PROVE  ProbeWorks'
<1>1. Cut' = Cut /\ ProbeTypes' BY DEF Cut, ProbeWorks, ProbeTypes
<1> QED BY <1>1 DEF ProbeWorks

(* The venue or the broker moves the order, and says so.                   *)
LEMMA ProbeSubmits == ASSUME ProbeWorks, Submits PROVE ProbeWorks'
<1>1. /\ QueueTrue(queue, Status) /\ state \in [{TheOrder} -> FSM!OrderState]
      /\ at = "submit" /\ exit = NoCode
  BY DEF ProbeWorks, ProbeTypes, Submits
<1>2. /\ FSM!Transition(TheOrder, "submit_call") /\ at' = "submitting"
      /\ UNCHANGED <<script, exit, queue, asked, online>>
  BY DEF Submits, Goes
<1>3. /\ state' \in [{TheOrder} -> FSM!OrderState]
      /\ Status = "INITIALIZED" /\ Status' = "SUBMIT_PENDING"
  BY <1>1, <1>2, ProbeRow
<1>4. \A k \in Reported : ~StillTrue(k, Status) BY <1>3 DEF StillTrue, Unplaced
<1>5. QueueTrue(queue, Status') BY <1>1, <1>4 DEF QueueTrue
<1>6. Fits(at', script, Status', Cut) BY <1>2, <1>3 DEF Fits
<1>7. Claim(exit, script, Status', Cut) BY <1>1 DEF Claim, NoCode
<1> QED BY <1>1, <1>2, <1>3, <1>5, <1>6, <1>7, MovesWell

(* The events that go with the triggers.                                   *)
Says(trigger, kind) ==
  <<trigger, kind>> \in
    {<<"wire_ack", "SUBMITTED">>, <<"wire_reject", "REJECTED">>, <<"accept", "ACCEPTED">>,
     <<"reject", "REJECTED">>, <<"fill", "FILLED">>, <<"cancel", "CANCELED">>}

LEMMA ProbeSubmitted ==
  ASSUME ProbeWorks, NEW trigger \in {"wire_ack", "wire_reject"}, NEW kind,
         SubmitReturns(trigger, kind), Says(trigger, kind)
  PROVE  ProbeWorks'
<1>1. /\ QueueTrue(queue, Status) /\ state \in [{TheOrder} -> FSM!OrderState]
      /\ at = "submitting" /\ exit = NoCode /\ script \in Scripts
  BY DEF ProbeWorks, ProbeTypes, SubmitReturns
<1>2. /\ FSM!Transition(TheOrder, trigger) /\ queue' = Append(queue, kind)
      /\ at' = IF script \in Stepwise THEN "wait submitted" ELSE "wait terminal"
      /\ UNCHANGED <<script, exit, asked, online>>
  BY DEF SubmitReturns, Goes
<1>3. /\ state' \in [{TheOrder} -> FSM!OrderState] /\ Status = "SUBMIT_PENDING"
      /\ Status' = kind /\ kind \in {"SUBMITTED", "REJECTED"}
  BY <1>1, <1>2, ProbeRow DEF Says
<1>4. /\ kind \in Reported /\ StillTrue(kind, Status')
      /\ \A k \in Reported : StillTrue(k, Status) => StillTrue(k, Status')
  BY <1>3 DEF StillTrue, Unplaced, Reported
<1>5. QueueTrue(queue', Status')
  <2>1. PICK s, next : s = Status /\ next = Status' OBVIOUS
  <2> QED BY <1>1, <1>2, <1>4, <2>1, QueueGrows
<1>6. Fits(at', script, Status', Cut) BY <1>1, <1>2, <1>3 DEF Fits, Unplaced, Stepwise, Scripts
<1>7. Claim(exit, script, Status', Cut) BY <1>1 DEF Claim, NoCode
<1> QED BY <1>1, <1>2, <1>3, <1>5, <1>6, <1>7, MovesWell

LEMMA ProbeMoves ==
  ASSUME ProbeWorks, NEW trigger \in {"accept", "reject", "fill", "cancel"}, NEW kind,
         Reports(trigger, kind), Says(trigger, kind)
  PROVE  ProbeWorks'
<1>1. /\ QueueTrue(queue, Status) /\ state \in [{TheOrder} -> FSM!OrderState]
      /\ Fits(at, script, Status, Cut) /\ Claim(exit, script, Status, Cut)
      /\ (at # "end" => exit = NoCode)
  BY DEF ProbeWorks, ProbeTypes
<1>2. /\ FSM!Transition(TheOrder, trigger) /\ queue' \in {queue, Append(queue, kind)}
      /\ at' = at /\ at \notin {"start", "submit", "submitting"}
      /\ UNCHANGED <<script, exit, asked, online>>
  BY DEF Reports
<1>3. PICK s, next : s = Status /\ next = Status' OBVIOUS
<1>4. /\ state' \in [{TheOrder} -> FSM!OrderState] /\ next = kind
      /\ s \in {"SUBMITTED", "ACCEPTED", "PARTIALLY_FILLED"}
      /\ kind \in {"ACCEPTED", "REJECTED"} => s = "SUBMITTED"
      /\ kind \in {"ACCEPTED", "REJECTED", "FILLED", "CANCELED"}
  BY <1>1, <1>2, <1>3, ProbeRow DEF Says
<1>5. /\ kind \in Reported /\ StillTrue(kind, next) /\ (s \in TakenUp => next \in TakenUp)
      /\ \A k \in Reported : StillTrue(k, s) => StillTrue(k, next)
  BY <1>4 DEF StillTrue, Unplaced, TakenUp, Reported, FSM!OrderState
<1>6. QueueTrue(queue', Status') BY <1>1, <1>2, <1>3, <1>5, QueueGrows
<1>7. Fits(at', script, Status', Cut)
  <2>1. next \notin Unplaced BY <1>4 DEF Unplaced
  <2> QED BY <1>1, <1>2, <1>3, <1>5, <2>1 DEF Fits
<1>8. Claim(exit, script, Status', Cut)
  <2>1. s \notin Unplaced /\ s \notin {"CANCELED", "REJECTED"} /\ next \notin Unplaced
        /\ next # "SUBMITTED"
    BY <1>4 DEF Unplaced
  <2> QED BY <1>1, <1>3, <2>1 DEF Claim
<1> QED BY <1>1, <1>2, <1>4, <1>6, <1>7, <1>8, MovesWell

(* Whatever the venue says late or not at all, the exit code of a stepwise *)
(* probe tells what was left there.                                        *)
THEOREM ProbesTellTheirOrder == ProbeInit /\ [][ProbeNext]_probeVars => []ProbeTellsOrder
<1>1. ASSUME ProbeWorks, [ProbeNext]_probeVars PROVE ProbeWorks'
  <2>1. CASE \/ Refused \/ Connects \/ SubmitRaises \/ Drops \/ Submitted \/ Accepted \/ Rejected
             \/ CanceledEarly \/ Closed \/ SawTerminal \/ TimesOut \/ Cancels \/ CancelRaises
    BY <1>1, <2>1, ProbeReads
  <2>2. CASE SessionLost \/ UNCHANGED probeVars BY <1>1, <2>2, ProbeLoses
  <2>3. CASE Submits BY <1>1, <2>3, ProbeSubmits
  <2>4. CASE SubmitReturns("wire_ack", "SUBMITTED")
    <3>1. Says("wire_ack", "SUBMITTED") BY DEF Says
    <3> QED BY <1>1, <2>4, <3>1, ProbeSubmitted
  <2>5. CASE SubmitReturns("wire_reject", "REJECTED")
    <3>1. Says("wire_reject", "REJECTED") BY DEF Says
    <3> QED BY <1>1, <2>5, <3>1, ProbeSubmitted
  <2>6. CASE Reports("accept", "ACCEPTED")
    <3>1. Says("accept", "ACCEPTED") BY DEF Says
    <3> QED BY <1>1, <2>6, <3>1, ProbeMoves
  <2>7. CASE Reports("reject", "REJECTED")
    <3>1. Says("reject", "REJECTED") BY DEF Says
    <3> QED BY <1>1, <2>7, <3>1, ProbeMoves
  <2>8. CASE Reports("fill", "FILLED")
    <3>1. Says("fill", "FILLED") BY DEF Says
    <3> QED BY <1>1, <2>8, <3>1, ProbeMoves
  <2>9. CASE Reports("cancel", "CANCELED")
    <3>1. Says("cancel", "CANCELED") BY DEF Says
    <3> QED BY <1>1, <2>9, <3>1, ProbeMoves
  <2> QED BY <1>1, <2>1, <2>2, <2>3, <2>4, <2>5, <2>6, <2>7, <2>8, <2>9 DEF ProbeNext
<1>2. ProbeWorks => ProbeTellsOrder BY ClaimsTell DEF ProbeWorks
<1> QED BY <1>1, <1>2, ProbeBegins, PTL
=============================================================================
