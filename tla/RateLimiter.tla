---------------------------- MODULE RateLimiter ----------------------------
(***************************************************************************)
(* One token bucket over time: a ConnRateLimiter, or the bucket of a       *)
(* RateLimiter, whose mutex makes the calls of its connections come one    *)
(* after the other.  What it grants is counted from an instant that may be *)
(* chosen again at any time, so that the bounds hold for every window.     *)
(***************************************************************************)
EXTENDS TokenBucket

CONSTANTS
    Pauses,   \* times between two events
    MaxTime   \* bound: the time at which the clock stops

ASSUME TimeAssumption == Pauses \subseteq Nat \ {0} /\ MaxTime \in Nat

VARIABLES
    bucket,
    now,
    window,   \* the bucket when the counting began
    granted,  \* how often allow has returned true since then
    spilled   \* a refill has met the capacity since then

vars == <<bucket, now, window, granted, spilled>>

Init ==
    /\ bucket = New(0) /\ now = 0
    /\ window = New(0) /\ granted = 0 /\ spilled = FALSE

Wait(d) ==
    /\ now + d <= MaxTime
    /\ now' = now + d
    /\ UNCHANGED <<bucket, window, granted, spilled>>

Allow ==
    /\ bucket' = Take(bucket, now)
    /\ granted' = IF Allows(bucket, now) THEN granted + 1 ELSE granted
    /\ spilled' = (spilled \/ /\ Refill(bucket, now) # bucket
                              /\ Refill(bucket, now).tokens = capacity)
    /\ UNCHANGED <<now, window>>

OpenWindow ==
    /\ window' = bucket /\ granted' = 0 /\ spilled' = FALSE
    /\ UNCHANGED <<bucket, now>>

Next == (\E d \in Pauses : Wait(d)) \/ Allow \/ OpenWindow

Spec == Init /\ [][Next]_vars

-----------------------------------------------------------------------------
\* Every variable has its type: the bucket never holds more than its capacity
\* and is never refilled in the future.
TypeOK ==
    /\ bucket \in Bucket /\ window \in Bucket
    /\ now \in Nat /\ granted \in Nat /\ spilled \in BOOLEAN
    /\ window.last <= bucket.last /\ bucket.last <= now

\* TokenBucket::allow: from any refill on, it grants no more than the burst and
\* what rps gives for the time since, whatever is lost to rounding or overflow.
NeverFaster ==
    1000 * granted <= 1000 * capacity + rps * (now - window.last)

\* The window is too short for the sum of tokens to overflow: 49 days at a rate
\* of 1000 per second.
Wide == 1000 * capacity + rps * (now - window.last) < 1000 * Word

\* TokenBucket::refill: as long as no refill meets the capacity, tokens come at
\* half of rps at least, however often and at whatever times allow is called:
\* polling never starves the bucket.
AtLeastHalfRate ==
    (Wide /\ ~spilled) =>
        2000 * (granted + bucket.tokens)
            >= 2000 * window.tokens + rps * (bucket.last - window.last)

\* TokenBucket::refill: as long as no refill meets the capacity, tokens come at
\* rps, up to a fraction of one token.
AtFullRate ==
    (Wide /\ ~spilled) =>
        1000 * (granted + bucket.tokens + 1)
            > 1000 * window.tokens + rps * (bucket.last - window.last)
=============================================================================
