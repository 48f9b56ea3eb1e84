---------------------------- MODULE RateLimiter ----------------------------
(***************************************************************************)
(* TokenBucketRateLimiter (blive/adapters/shared/rate_limiter.py): named   *)
(* buckets that refill linearly with the clock, and an acquire loop that   *)
(* refills, then either takes its tokens or sleeps for its deficit and     *)
(* tries again.  Callers share a bucket with no queue between them.        *)
(*                                                                         *)
(* Time is counted in ticks and tokens in units: a token is Unit[b] units  *)
(* and a tick adds Rate[b] units, so fractional refills stay exact.        *)
(***************************************************************************)
EXTENDS Naturals, FiniteSets

CONSTANTS
  Callers,     \* coroutines that call acquire
  Buckets,     \* bucket names
  Capacity,    \* RateLimitBucket.capacity of each bucket, in tokens
  Rate, Unit,  \* refill_per_second of each bucket: Rate units per tick
  Requests,    \* values of the tokens argument
  MaxTime,     \* bound: the last tick
  Window,      \* ticks of a pacing window of the documents
  Limit        \* and the calls they allow in it

ASSUME BucketAssumption ==
  /\ Capacity \in [Buckets -> Nat \ {0}]
  /\ Rate \in [Buckets -> Nat \ {0}]
  /\ Unit \in [Buckets -> Nat \ {0}]
ASSUME RequestAssumption == Requests \subseteq Nat \ {0}
ASSUME TimeAssumption == MaxTime \in Nat

VARIABLES
  now,        \* ClockPort.now()
  available,  \* _available, in units
  last,       \* _last_refill
  call,       \* where each caller is: idle, or asleep until its deficit refills
  granted,    \* history: tokens handed out per bucket
  mark        \* history: a moment of the past, [now, granted]

limiterVars == <<now, available, last, call, granted, mark>>

Idle == [pc |-> "idle"]
Asleep == [pc : {"asleep"}, bucket : Buckets, tokens : Requests, due : Nat,
           seen : Nat]     \* seen: what was granted when the sleep began

Full(b) == Capacity[b] * Unit[b]

RefilledUncapped(b) ==       \* mutant: min(capacity, ..) is dropped
  available[b] + Rate[b] * (now - last[b])

(* _refill, for the clock the loop has just read.                          *)
Refilled(b) ==
  LET more == available[b] + Rate[b] * (now - last[b])
  IN IF more > Full(b) THEN Full(b) ELSE more

(* ceil(deficit / rate): the microsecond cushion never lets it wake early. *)
WaitFloor(b, deficit) == deficit \div Rate[b]     \* mutant: no cushion

Wait(b, deficit) == (deficit + Rate[b] - 1) \div Rate[b]

(* Tokens taken from the bucket by a successful acquire.                   *)
TakenOne(b, n) == Unit[b]     \* mutant: one token whatever was asked for

Taken(b, n) == n * Unit[b]

(* One turn of the loop of acquire(b, n).                                  *)
Attempt(c, b, n) ==
  /\ last' = [last EXCEPT ![b] = now]
  /\ IF Refilled(b) >= n * Unit[b]
     THEN /\ available' = [available EXCEPT ![b] = Refilled(b) - Taken(b, n)]
          /\ granted' = [granted EXCEPT ![b] = @ + n]
          /\ call' = [call EXCEPT ![c] = Idle]
     ELSE /\ available' = [available EXCEPT ![b] = Refilled(b)]
          /\ call' = [call EXCEPT ![c] =
                        [pc |-> "asleep", bucket |-> b, tokens |-> n,
                         due |-> now + Wait(b, n * Unit[b] - Refilled(b)),
                         seen |-> granted[b]]]
          /\ UNCHANGED granted
  /\ UNCHANGED <<now, mark>>

(* Requests beyond the capacity raise before the loop.                     *)
Acquire(c, b, n) ==
  /\ call[c] = Idle
  /\ n <= Capacity[b]
  /\ Attempt(c, b, n)

Wake(c) ==
  /\ call[c].pc = "asleep"
  /\ call[c].due <= now
  /\ Attempt(c, call[c].bucket, call[c].tokens)

(* metrics() refills every bucket.                                         *)
Metrics ==
  /\ available' = [b \in Buckets |-> Refilled(b)]
  /\ last' = [b \in Buckets |-> now]
  /\ UNCHANGED <<now, call, granted, mark>>

Tick ==
  /\ now < MaxTime
  /\ now' = now + 1
  /\ UNCHANGED <<available, last, call, granted, mark>>

(* An observer remembers this moment, to compare a later one with it.      *)
Observe ==
  /\ mark' = [now |-> now, granted |-> granted]
  /\ UNCHANGED <<now, available, last, call, granted>>

LimiterInit ==
  /\ now = 0
  /\ available = [b \in Buckets |-> Full(b)]
  /\ last = [b \in Buckets |-> 0]
  /\ call = [c \in Callers |-> Idle]
  /\ granted = [b \in Buckets |-> 0]
  /\ mark = [now |-> 0, granted |-> [b \in Buckets |-> 0]]

LimiterNext ==
  \/ Tick \/ Metrics \/ Observe
  \/ \E c \in Callers :
       \/ Wake(c)
       \/ \E b \in Buckets, n \in Requests : Acquire(c, b, n)

LimiterSpec == LimiterInit /\ [][LimiterNext]_limiterVars
-----------------------------------------------------------------------------
(* Properties.                                                             *)

(* Type invariant; a bucket never holds more than its capacity.            *)
LimiterTypeOK ==
  /\ now \in Nat
  /\ available \in [Buckets -> Nat] /\ \A b \in Buckets : available[b] <= Full(b)
  /\ last \in [Buckets -> Nat] /\ \A b \in Buckets : last[b] <= now
  /\ call \in [Callers -> {Idle} \cup Asleep]
  /\ granted \in [Buckets -> Nat]
  /\ mark \in [now : Nat, granted : [Buckets -> Nat]] /\ mark.now <= now
  /\ \A b \in Buckets : mark.granted[b] <= granted[b]

(* In any stretch of time a bucket hands out at most one capacity and what *)
(* the stretch refilled, whoever asks, sleeps or reads the metrics: the    *)
(* promise the limiter exists for.                                         *)
WindowBound ==
  \A b \in Buckets :
    (granted[b] - mark.granted[b]) * Unit[b] <= Full(b) + Rate[b] * (now - mark.now)

(* What makes it inductive: tokens still in the bucket count as granted,   *)
(* and nothing was granted since the mark without a refill after it.       *)
Ledger ==
  \A b \in Buckets :
    \/ last[b] >= mark.now /\
       granted[b] * Unit[b] + available[b]
         <= mark.granted[b] * Unit[b] + Full(b) + Rate[b] * (last[b] - mark.now)
    \/ last[b] < mark.now /\ granted[b] = mark.granted[b]

IInv == LimiterTypeOK /\ Ledger

(* A caller that has slept out its deficit finds its tokens, unless others *)
(* were served meanwhile: the wait it computed was long enough, whoever    *)
(* else refills the bucket.                                                *)
NoFutileWait ==
  \A c \in Callers :
    call[c].pc = "asleep" /\ call[c].due <= now
      /\ granted[call[c].bucket] = call[c].seen =>
        Refilled(call[c].bucket) >= call[c].tokens * Unit[call[c].bucket]
-----------------------------------------------------------------------------
(* What the documents say of the shipped bucket and the limiter does not   *)
(* do: a full bucket and a window's refill are both handed out.            *)
(* ib/rate_limiter.py 18-21 and KB-3 section 2, of the historical bucket.  *)
PacingLimit ==
  \A b \in Buckets : now - mark.now <= Window => granted[b] - mark.granted[b] <= Limit
=============================================================================
