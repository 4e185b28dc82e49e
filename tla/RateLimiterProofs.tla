------------------------- MODULE RateLimiterProofs -------------------------
(***************************************************************************)
(* Proofs about RateLimiter, for every rate, burst, width of a word and    *)
(* set of pauses: first what the operators of TokenBucket do.              *)
(***************************************************************************)
EXTENDS RateLimiter, TLAPS

-----------------------------------------------------------------------------
(* Arithmetic.                                                             *)

\* What a remainder is.
LEMMA ModFacts ==
    ASSUME NEW y \in Nat, NEW w \in Nat \ {0}
    PROVE  y % w \in Nat /\ y % w < w /\ y % w <= y /\ (y < w => y % w = y)
  OBVIOUS

\* What a quotient by 1000 is.
LEMMA DivFacts ==
    ASSUME NEW y \in Nat
    PROVE  /\ y \div 1000 \in Nat
           /\ 1000 * (y \div 1000) <= y /\ y < 1000 * (y \div 1000) + 1000
  OBVIOUS

\* Multiplication is monotonic and distributes.
LEMMA MulFacts ==
    ASSUME NEW r \in Nat, NEW a \in Int, NEW b \in Int
    PROVE  /\ r * a \in Int
           /\ a \in Nat => r * a \in Nat
           /\ r * (a + b) = r * a + r * b
           /\ a <= b => r * a <= r * b
  OBVIOUS

-----------------------------------------------------------------------------
(* The bucket.                                                             *)

LEMMA Constants ==
    /\ rps \in Nat \ {0} /\ capacity \in Nat \ {0} /\ capacity < Word
    /\ Word \in Nat \ {0}
  BY BucketAssumption DEF rps, capacity

\* The tokens for a span of time are at most what rps gives for it and, if they
\* fit in a word, less than one token short of that.
LEMMA AddFacts ==
    ASSUME NEW e \in Nat
    PROVE  /\ Add(e) \in Nat /\ rps * e \in Nat
           /\ 1000 * Add(e) <= rps * e
           /\ rps * e < 1000 * Word => rps * e < 1000 * Add(e) + 1000
  <1>1. e * rps \in Nat /\ e * rps = rps * e
    BY Constants
  <1>2. LET q == (e * rps) \div 1000
        IN  q \in Nat /\ 1000 * q <= e * rps /\ e * rps < 1000 * q + 1000
    BY <1>1, DivFacts
  <1>3. LET q == (e * rps) \div 1000
        IN  q % Word \in Nat /\ q % Word <= q /\ (q < Word => q % Word = q)
    BY <1>2, Constants, ModFacts
  <1> QED
    BY <1>1, <1>2, <1>3, Constants DEF Add

\* A refill keeps the bucket within its capacity, adds at most what rps gives for
\* the time that it accounts for and, if nothing overflows and the capacity is
\* not met, at least half of that.
LEMMA RefillFacts ==
    ASSUME NEW b \in Bucket, NEW n \in Nat, b.last <= n
    PROVE  LET r == Refill(b, n) IN
           /\ r \in Bucket /\ b.last <= r.last /\ r.last <= n
           /\ 1000 * r.tokens <= 1000 * b.tokens + rps * (r.last - b.last)
           /\ (1000 * capacity + rps * (n - b.last) < 1000 * Word
                 /\ (r = b \/ r.tokens # capacity))
                => 2000 * r.tokens >= 2000 * b.tokens + rps * (r.last - b.last)
  <1> DEFINE e == n - b.last
             sum == (b.tokens + Add(e)) % Word
  <1>1. b.tokens \in 0 .. capacity /\ b.last \in Nat /\ e \in Nat /\ e <= n
    BY DEF Bucket
  <1>2. CASE e < 50 \/ Add(e) = 0
    <2>1. Refill(b, n) = b
      BY <1>2 DEF Refill
    <2>2. rps * (b.last - b.last) = 0
      BY <1>1, Constants
    <2> QED
      BY <2>1, <2>2, <1>1, Constants
  <1>3. CASE ~(e < 50 \/ Add(e) = 0)
    <2>1. Refill(b, n) = [tokens |-> Filled(b.tokens, Add(e)), last |-> n]
      BY <1>3 DEF Refill
    <2>2. /\ Add(e) \in Nat /\ rps * e \in Nat /\ 1000 * Add(e) <= rps * e
          /\ rps * e < 1000 * Word => rps * e < 1000 * Add(e) + 1000
      BY <1>1, AddFacts
    <2>3. /\ sum \in Nat /\ sum <= b.tokens + Add(e)
          /\ b.tokens + Add(e) < Word => sum = b.tokens + Add(e)
      <3>1. b.tokens + Add(e) \in Nat
        BY <1>1, <2>2
      <3> QED
        BY <3>1, Constants, ModFacts
    <2>4. Filled(b.tokens, Add(e)) = IF sum < capacity THEN sum ELSE capacity
      BY DEF Filled
    <2>5. Refill(b, n) \in Bucket
      BY <2>1, <2>3, <2>4, Constants DEF Bucket
    <2>6. Refill(b, n).last = n /\ Refill(b, n).tokens = Filled(b.tokens, Add(e))
      BY <2>1
    <2>7. 1000 * Refill(b, n).tokens <= 1000 * b.tokens + rps * e
      <3>1. Filled(b.tokens, Add(e)) \in Nat /\ Filled(b.tokens, Add(e)) <= sum
        BY <2>3, <2>4, Constants
      <3> HIDE DEF e, sum
      <3> QED
        BY <1>1, <2>2, <2>3, <2>6, <3>1
    <2>8. ASSUME 1000 * capacity + rps * e < 1000 * Word,
                 Refill(b, n) = b \/ Refill(b, n).tokens # capacity
          PROVE  2000 * Refill(b, n).tokens >= 2000 * b.tokens + rps * e
      <3>1. b.tokens + Add(e) < Word
        BY <1>1, <2>2, <2>8, Constants
      <3>2. Add(e) >= 1 /\ rps * e < 1000 * Add(e) + 1000
        BY <1>1, <1>3, <2>2, <2>8, Constants
      <3>3. Refill(b, n) # b
        BY <1>1, <1>3, <2>6
      <3>4. Refill(b, n).tokens = b.tokens + Add(e)
        BY <1>1, <2>2, <2>3, <2>4, <2>6, <2>8, <3>1, <3>3, Constants
      <3> QED
        BY <1>1, <2>2, <3>2, <3>4
    <2> QED
      BY <1>1, <2>5, <2>6, <2>7, <2>8
  <1> QED
    BY <1>2, <1>3

\* allow takes one token of the refilled bucket if it returns true and none
\* otherwise.
LEMMA TakeFacts ==
    ASSUME NEW b \in Bucket, NEW n \in Nat, b.last <= n
    PROVE  LET t == Take(b, n)
               one == IF Allows(b, n) THEN 1 ELSE 0 IN
           /\ t \in Bucket /\ b.last <= t.last /\ t.last <= n
           /\ t.last = Refill(b, n).last
           /\ t.tokens + one = Refill(b, n).tokens
  <1> DEFINE r == Refill(b, n)
  <1>1. r \in Bucket /\ b.last <= r.last /\ r.last <= n
    BY RefillFacts
  <1>2. r.tokens \in 0 .. capacity /\ r.last \in Nat
    BY <1>1 DEF Bucket
  <1>3. CASE r.tokens = 0
    BY <1>1, <1>2, <1>3 DEF Take, Allows
  <1>4. CASE r.tokens # 0
    <2>1. Take(b, n) = [tokens |-> r.tokens - 1, last |-> r.last]
      BY <1>1, <1>4 DEF Take, Bucket
    <2> HIDE DEF r
    <2> QED
      BY <1>1, <1>2, <1>4, <2>1, Constants DEF Allows, Bucket, r
  <1> QED
    BY <1>3, <1>4
-----------------------------------------------------------------------------
(* The inductive invariant: the tokens that were granted and those that    *)
(* are left together stay within what has come in.                         *)

Account ==
    1000 * (granted + bucket.tokens)
        <= 1000 * capacity + rps * (bucket.last - window.last)

IInv == TypeOK /\ Account /\ AtLeastHalfRate

LEMMA IInvInit == Init => IInv
  <1> SUFFICES ASSUME Init PROVE IInv
    OBVIOUS
  <1>1. rps * (0 - 0) = 0
    BY Constants
  <1>2. New(0) \in Bucket /\ New(0).tokens = capacity /\ New(0).last = 0
    BY Constants DEF New, Bucket
  <1>3. TypeOK
    <2>1. spilled \in BOOLEAN
      BY Zenon DEF Init
    <2> QED
      BY <2>1, <1>2 DEF Init, TypeOK
  <1>4. Account
    BY <1>1, <1>2, Constants DEF Init, Account
  <1>5. AtLeastHalfRate
    BY <1>1, <1>2, Constants DEF Init, AtLeastHalfRate
  <1> QED
    BY <1>3, <1>4, <1>5 DEF IInv

LEMMA IInvWait == ASSUME IInv, NEW d \in Pauses, Wait(d) PROVE IInv'
  <1>1. TypeOK'
    <2>1. spilled' \in BOOLEAN
      BY Zenon DEF IInv, TypeOK, Wait
    <2>2. /\ bucket' \in Bucket /\ window' \in Bucket /\ granted' \in Nat
          /\ window'.last <= bucket'.last /\ bucket'.last = bucket.last
      BY Zenon DEF IInv, TypeOK, Wait
    <2>3. /\ bucket.last \in Nat /\ bucket.last <= now /\ now \in Nat
          /\ now' = now + d /\ d \in Nat
      BY TimeAssumption DEF IInv, TypeOK, Wait, Bucket
    <2>4. now' \in Nat /\ bucket'.last <= now'
      BY <2>2, <2>3
    <2> QED
      BY <2>1, <2>2, <2>3, <2>4, Zenon DEF TypeOK
  <1>2. Account'
    BY DEF IInv, Account, Wait
  <1>3. AtLeastHalfRate'
    <2>1. /\ now \in Nat /\ window.last \in Nat /\ now' = now + d /\ d \in Nat
          /\ window' = window
      BY TimeAssumption DEF IInv, TypeOK, Wait, Bucket
    <2>2. /\ rps * (now - window.last) <= rps * (now' - window.last)
          /\ rps * (now - window.last) \in Int
          /\ rps * (now' - window.last) \in Int
      BY <2>1, Constants, MulFacts
    <2>3. Wide' => Wide
      BY <2>1, <2>2, Constants DEF Wide
    <2> QED
      BY <2>3 DEF IInv, AtLeastHalfRate, Wait
  <1> QED
    BY <1>1, <1>2, <1>3 DEF IInv

LEMMA IInvOpenWindow == ASSUME IInv, OpenWindow PROVE IInv'
  <1>1. bucket \in Bucket /\ bucket.tokens \in 0 .. capacity /\ bucket.last \in Nat
    BY DEF IInv, TypeOK, Bucket
  <1>2. rps * (bucket.last - bucket.last) = 0
    BY <1>1, Constants
  <1>3. TypeOK'
    <2>1. spilled' \in BOOLEAN
      BY Zenon DEF OpenWindow
    <2>2. /\ bucket' \in Bucket /\ window' \in Bucket /\ now' \in Nat
          /\ bucket'.last <= now'
      BY Zenon DEF IInv, TypeOK, OpenWindow
    <2>3. granted' \in Nat /\ window'.last <= bucket'.last
      BY <1>1 DEF OpenWindow
    <2> QED
      BY <2>1, <2>2, <2>3, Zenon DEF TypeOK
  <1>4. Account'
    BY <1>1, <1>2, Constants DEF Account, OpenWindow
  <1>5. AtLeastHalfRate'
    BY <1>1, <1>2, Constants DEF AtLeastHalfRate, OpenWindow
  <1> QED
    BY <1>3, <1>4, <1>5 DEF IInv

LEMMA IInvAllow == ASSUME IInv, Allow PROVE IInv'
  <1> DEFINE r == Refill(bucket, now)
  <1>1. /\ bucket \in Bucket /\ window \in Bucket /\ now \in Nat
        /\ granted \in Nat /\ spilled \in BOOLEAN
        /\ window.last <= bucket.last /\ bucket.last <= now
    BY DEF IInv, TypeOK
  <1>2. /\ bucket.tokens \in Nat /\ bucket.last \in Nat
        /\ window.tokens \in Nat /\ window.last \in Nat
    BY <1>1 DEF Bucket
  <1>3. /\ r \in Bucket /\ bucket.last <= r.last /\ r.last <= now
        /\ 1000 * r.tokens <= 1000 * bucket.tokens + rps * (r.last - bucket.last)
        /\ (1000 * capacity + rps * (now - bucket.last) < 1000 * Word
              /\ (r = bucket \/ r.tokens # capacity))
             => 2000 * r.tokens
                  >= 2000 * bucket.tokens + rps * (r.last - bucket.last)
    BY <1>1, RefillFacts
  <1>4. r.tokens \in 0 .. capacity /\ r.last \in Nat
    BY <1>3 DEF Bucket
  <1>5. /\ bucket' \in Bucket /\ bucket'.last = r.last
        /\ bucket'.tokens \in Nat /\ granted' \in Nat
        /\ granted' + bucket'.tokens = granted + r.tokens
    <2>1. LET t == Take(bucket, now) IN
          /\ t \in Bucket /\ t.last = r.last
          /\ t.tokens + (IF Allows(bucket, now) THEN 1 ELSE 0) = r.tokens
      BY <1>1, TakeFacts
    <2>2. Take(bucket, now).tokens \in Nat
      BY <2>1 DEF Bucket
    <2> QED
      BY <1>1, <1>4, <2>1, <2>2 DEF Allow
  <1>6. now' = now /\ window' = window
    BY DEF Allow
  <1>7. spilled' = (spilled \/ (r # bucket /\ r.tokens = capacity))
    BY DEF Allow
  <1>8. rps * (r.last - window.last)
          = rps * (r.last - bucket.last) + rps * (bucket.last - window.last)
    BY <1>2, <1>4, Constants, MulFacts
  <1>9. TypeOK'
    BY <1>1, <1>2, <1>3, <1>4, <1>5, <1>6, <1>7 DEF TypeOK
  <1>10. /\ rps * (r.last - bucket.last) \in Int
         /\ rps * (bucket.last - window.last) \in Int
    BY <1>2, <1>4, Constants
  <1>11. Account'
    BY <1>1, <1>2, <1>3, <1>4, <1>5, <1>6, <1>8, <1>10, Constants
    DEF Account, IInv
  <1>12. AtLeastHalfRate'
    <2> SUFFICES ASSUME Wide, ~spilled'
                 PROVE  2000 * (granted' + bucket'.tokens)
                          >= 2000 * window.tokens + rps * (r.last - window.last)
      BY <1>5, <1>6 DEF AtLeastHalfRate, Wide
    <2>1. ~spilled /\ (r = bucket \/ r.tokens # capacity)
      BY Zenon, <1>7
    <2>2. 1000 * capacity + rps * (now - bucket.last) < 1000 * Word
      <3>1. /\ rps * (now - bucket.last) <= rps * (now - window.last)
            /\ rps * (now - bucket.last) \in Int
            /\ rps * (now - window.last) \in Int
        BY <1>1, <1>2, Constants, MulFacts
      <3> QED
        BY <3>1, Constants DEF Wide
    <2>3. 2000 * (granted + bucket.tokens)
            >= 2000 * window.tokens + rps * (bucket.last - window.last)
      BY <2>1 DEF IInv, AtLeastHalfRate
    <2> QED
      BY <1>1, <1>2, <1>3, <1>4, <1>5, <1>8, <1>10, <2>1, <2>2, <2>3
  <1> QED
    BY <1>1, <1>6, <1>9, <1>11, <1>12 DEF IInv

LEMMA IInvNext == IInv /\ [Next]_vars => IInv'
  <1> SUFFICES ASSUME IInv, [Next]_vars PROVE IInv'
    OBVIOUS
  <1>1. CASE UNCHANGED vars
    BY <1>1 DEF IInv, TypeOK, Account, AtLeastHalfRate, Wide, vars
  <1> QED
    BY <1>1, IInvWait, IInvAllow, IInvOpenWindow DEF Next

LEMMA Invariance == Spec => []IInv
  BY IInvInit, IInvNext, PTL DEF Spec

\* The types, with the bound of the bucket and the order of the times.
THEOREM BucketTypeCorrect == Spec => []TypeOK
  <1>1. IInv => TypeOK
    BY DEF IInv
  <1> QED
    BY <1>1, Invariance, PTL

\* TokenBucket::allow never grants more than the burst and what rps gives for
\* the time since any refill, for every configuration and every timing of the
\* calls, overflow included.
THEOREM RateIsLimited == Spec => []NeverFaster
  <1>1. IInv => NeverFaster
    <2> SUFFICES ASSUME IInv PROVE NeverFaster
      OBVIOUS
    <2>1. /\ bucket.tokens \in Nat /\ bucket.last \in Nat /\ window.last \in Nat
          /\ now \in Nat /\ granted \in Nat /\ bucket.last <= now
      BY DEF IInv, TypeOK, Bucket
    <2>2. /\ rps * (bucket.last - window.last) <= rps * (now - window.last)
          /\ rps * (bucket.last - window.last) \in Int
          /\ rps * (now - window.last) \in Int
      BY <2>1, Constants, MulFacts
    <2> QED
      BY <2>1, <2>2, Constants DEF IInv, Account, NeverFaster
  <1> QED
    BY <1>1, Invariance, PTL

\* TokenBucket::refill loses less than half of the tokens to rounding.
THEOREM HalfRateKept == Spec => []AtLeastHalfRate
  <1>1. IInv => AtLeastHalfRate
    BY DEF IInv
  <1> QED
    BY <1>1, Invariance, PTL
=============================================================================
