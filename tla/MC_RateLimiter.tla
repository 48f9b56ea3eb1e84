--------------------------- MODULE MC_RateLimiter ---------------------------
(* Small instances of RateLimiter for TLC, and the shipped IB bucket for   *)
(* historical data requests.                                               *)
EXTENDS RateLimiter

(* Two buckets, with a refill that is no whole number of tokens per tick.  *)
SmallCapacity == [b \in Buckets |-> IF b = "fast" THEN 2 ELSE 1]
SmallRate == [b \in Buckets |-> IF b = "fast" THEN 2 ELSE 1]
SmallUnit == [b \in Buckets |-> IF b = "fast" THEN 3 ELSE 2]

(* ib/rate_limiter.py: 50 tokens, 50 per 600 s, one tick 24 s.             *)
IBCapacity == [b \in Buckets |-> 50]
IBRate == [b \in Buckets |-> 2]
IBUnit == [b \in Buckets |-> 1]
=============================================================================
