---------------------------- MODULE TokenBucket ----------------------------
(***************************************************************************)
(* The token bucket of the rate limiters (policy/engine.rs), as functions  *)
(* of a bucket and the time.  Time is in milliseconds.                     *)
(***************************************************************************)
EXTENDS Integers

CONSTANTS
    RateLimitRps,    \* policy.rate_limit_rps
    RateLimitBurst,  \* policy.rate_limit_burst
    Word             \* 2^32, the number of values of a u32

ASSUME BucketAssumption ==
    /\ RateLimitRps \in Nat /\ RateLimitBurst \in Nat /\ Word \in Nat \ {0}
    /\ RateLimitRps < Word /\ RateLimitBurst < Word /\ 1 < Word

rps == IF RateLimitRps = 0 THEN 1 ELSE RateLimitRps
capacity == IF RateLimitBurst = 0 THEN 1 ELSE RateLimitBurst

Bucket == [tokens : 0 .. capacity, last : Nat]

New(now) == [tokens |-> capacity, last |-> now]

\* The tokens for a span of time, cast to u32.
Add(elapsed) == ((elapsed * rps) \div 1000) % Word

\* min(tokens + add, capacity); the sum wraps in a build without overflow checks.
Filled(tokens, add) ==
    LET sum == (tokens + add) % Word IN IF sum < capacity THEN sum ELSE capacity

\* Mutant: the time of the last refill moves even if no token was added.
RefillForgetsTime(b, now) ==
    LET elapsed == now - b.last IN
    IF elapsed < 50 THEN b
    ELSE [tokens |-> Filled(b.tokens, Add(elapsed)), last |-> now]

\* Mutant: the time of the last refill stays.
RefillKeepsLast(b, now) ==
    LET elapsed == now - b.last IN
    IF elapsed < 50 \/ Add(elapsed) = 0 THEN b
    ELSE [tokens |-> Filled(b.tokens, Add(elapsed)), last |-> b.last]

Refill(b, now) ==
    LET elapsed == now - b.last IN
    IF elapsed < 50 \/ Add(elapsed) = 0 THEN b
    ELSE [tokens |-> Filled(b.tokens, Add(elapsed)), last |-> now]

\* allow: what it returns, and the bucket after it.
Allows(b, now) == Refill(b, now).tokens > 0
Take(b, now) ==
    LET r == Refill(b, now) IN
    IF r.tokens = 0 THEN r ELSE [r EXCEPT !.tokens = @ - 1]
=============================================================================
