--------------------------- MODULE IngressProofs ---------------------------
(***************************************************************************)
(* Proofs about Policy, for every rate, burst, scope, set of connections   *)
(* and frames, and about Ingress: what holds of the way from the socket to *)
(* a service, for every configuration of the tenant and every set of       *)
(* messages.                                                               *)
(***************************************************************************)
EXTENDS Ingress, TLAPS

-----------------------------------------------------------------------------
(* The inductive invariant: for each limiter, the frames that have passed  *)
(* and the tokens that are left together stay within what has come in.     *)

\* n frames since the time base, with the bucket b.
Within(n, b, base) ==
    1000 * (n + b.tokens) <= 1000 * capacity + rps * (b.last - base)

TenantAccount ==
    TenantLimited => tenant.last <= now /\ Within(total, tenant, 0)

ConnAccount ==
    ConnLimited => \A c \in open :
        /\ since[c] <= conn[c].last /\ conn[c].last <= now
        /\ Within(passed[c]["text"], conn[c], since[c])

IInv == TypeOK /\ TenantAccount /\ ConnAccount /\ ConnTextBound

-----------------------------------------------------------------------------
(* The bucket.                                                             *)

\* Multiplication is monotonic and distributes.
LEMMA MulFacts ==
    ASSUME NEW r \in Nat, NEW a \in Int, NEW b \in Int
    PROVE  /\ r * a \in Int
           /\ a \in Nat => r * a \in Nat
           /\ r * (a + b) = r * a + r * b
           /\ a <= b => r * a <= r * b
  OBVIOUS

LEMMA Constants ==
    /\ rps \in Nat \ {0} /\ capacity \in Nat \ {0} /\ capacity < Word
    /\ Word \in Nat \ {0}
  BY BucketAssumption DEF rps, capacity

\* The tokens for a span of time are at most what rps gives for it.
LEMMA AddAtMost ==
    ASSUME NEW e \in Nat
    PROVE  Add(e) \in Nat /\ rps * e \in Nat /\ 1000 * Add(e) <= rps * e
  <1>1. e * rps \in Nat /\ e * rps = rps * e
    BY Constants
  <1>2. \A q \in Nat : q \div 1000 \in Nat /\ 1000 * (q \div 1000) <= q
    OBVIOUS
  <1>3. \A q \in Nat : q % Word \in Nat /\ q % Word <= q
    BY Constants
  <1> QED
    BY <1>1, <1>2, <1>3 DEF Add

\* allow takes a token if it returns true, and the refill before it adds at most
\* what rps gives for the time that it accounts for.
LEMMA TakeAtMost ==
    ASSUME NEW b \in Bucket, NEW n \in Nat, b.last <= n
    PROVE  LET t == Take(b, n)
               one == IF Allows(b, n) THEN 1 ELSE 0 IN
           /\ t \in Bucket /\ b.last <= t.last /\ t.last <= n
           /\ 1000 * (t.tokens + one) <= 1000 * b.tokens + rps * (t.last - b.last)
  <1> DEFINE r == Refill(b, n)
             e == n - b.last
  <1>1. b.tokens \in 0 .. capacity /\ b.last \in Nat /\ e \in Nat
    BY DEF Bucket
  <1>2. /\ r \in Bucket /\ b.last <= r.last /\ r.last <= n
        /\ 1000 * r.tokens <= 1000 * b.tokens + rps * (r.last - b.last)
    <2>1. CASE e < 50 \/ Add(e) = 0
      <3>1. r = b /\ rps * (b.last - b.last) = 0
        BY <1>1, <2>1, Constants DEF Refill
      <3> QED
        BY <1>1, <3>1, Constants
    <2>2. CASE ~(e < 50 \/ Add(e) = 0)
      <3>1. r.tokens = Filled(b.tokens, Add(e)) /\ r.last = n
        BY <2>2 DEF Refill
      <3>2. Add(e) \in Nat /\ rps * e \in Nat /\ 1000 * Add(e) <= rps * e
        BY <1>1, AddAtMost
      <3>3. \A y \in Nat : y % Word \in Nat /\ y % Word <= y
        BY Constants
      <3>4. /\ Filled(b.tokens, Add(e)) \in 0 .. capacity
            /\ Filled(b.tokens, Add(e)) <= b.tokens + Add(e)
        BY <1>1, <3>2, <3>3, Constants DEF Filled
      <3>5. r \in Bucket
        BY <2>2, <3>4 DEF Refill, Bucket
      <3> HIDE DEF r
      <3> QED
        BY <1>1, <3>1, <3>2, <3>4, <3>5
    <2> QED
      BY <2>1, <2>2
  <1>3. r.tokens \in 0 .. capacity /\ r.last \in Nat
    BY <1>2 DEF Bucket
  <1>4. CASE r.tokens = 0
    BY <1>2, <1>3, <1>4 DEF Take, Allows
  <1>5. CASE r.tokens # 0
    <2>1. Take(b, n) = [tokens |-> r.tokens - 1, last |-> r.last] /\ Allows(b, n)
      BY <1>2, <1>3, <1>5 DEF Take, Bucket, Allows
    <2> HIDE DEF r
    <2> QED
      BY <1>2, <1>3, <1>5, <2>1, Constants DEF Bucket
  <1> QED
    BY <1>4, <1>5

-----------------------------------------------------------------------------
(* Accounts.                                                               *)

\* A new bucket.
LEMMA NewWithin ==
    ASSUME NEW n \in Nat
    PROVE  /\ New(n) \in Bucket /\ New(n).last = n
           /\ Within(0, New(n), n)
  <1>1. /\ New(n) \in Bucket /\ New(n).last = n /\ New(n).tokens = capacity
    BY Constants DEF New, Bucket
  <1>2. rps * (n - n) = 0
    BY Constants
  <1> QED
    BY <1>1, <1>2, Constants DEF Within

\* A call of allow, after which a frame may have passed only if it was allowed.
LEMMA TakeWithin ==
    ASSUME NEW b \in Bucket, NEW t \in Nat, b.last <= t,
           NEW base \in Nat, base <= b.last, NEW n \in Nat, Within(n, b, base),
           NEW d \in {0, 1}, d = 1 => Allows(b, t)
    PROVE  /\ Take(b, t) \in Bucket
           /\ base <= Take(b, t).last /\ Take(b, t).last <= t
           /\ Within(n + d, Take(b, t), base)
  <1> DEFINE a == Take(b, t)
  <1>1. /\ a \in Bucket /\ b.last <= a.last /\ a.last <= t
        /\ 1000 * (a.tokens + (IF Allows(b, t) THEN 1 ELSE 0))
             <= 1000 * b.tokens + rps * (a.last - b.last)
    BY TakeAtMost
  <1>2. b.tokens \in Nat /\ b.last \in Nat /\ a.tokens \in Nat /\ a.last \in Nat
    BY <1>1 DEF Bucket
  <1>3. /\ rps * (a.last - base) = rps * (a.last - b.last) + rps * (b.last - base)
        /\ rps * (a.last - b.last) \in Int /\ rps * (b.last - base) \in Int
    <2>1. a.last - base = (a.last - b.last) + (b.last - base)
      BY <1>2
    <2> QED
      BY <1>2, <2>1, Constants, MulFacts
  <1>4. 1000 * (a.tokens + d) <= 1000 * b.tokens + rps * (a.last - b.last)
    <2> HIDE DEF a
    <2> QED
      BY <1>1, <1>2, <1>3
  <1>5. 1000 * (n + b.tokens) <= 1000 * capacity + rps * (b.last - base)
    BY DEF Within
  <1>6. 1000 * (n + d + a.tokens) <= 1000 * capacity + rps * (a.last - base)
    <2> HIDE DEF a
    <2> QED
      BY <1>2, <1>3, <1>4, <1>5, Constants
  <1> QED
    BY <1>1, <1>2, <1>6 DEF Within

\* What an account says about the frames at a later time.
LEMMA WithinBound ==
    ASSUME NEW b \in Bucket, NEW t \in Nat, b.last <= t, NEW base \in Nat,
           NEW n \in Nat, Within(n, b, base)
    PROVE  1000 * n <= 1000 * capacity + rps * (t - base)
  <1>1. b.tokens \in Nat /\ b.last \in Nat
    BY DEF Bucket
  <1>2. /\ rps * (b.last - base) <= rps * (t - base)
        /\ rps * (b.last - base) \in Int /\ rps * (t - base) \in Int
    BY <1>1, Constants, MulFacts
  <1> QED
    BY <1>1, <1>2, Constants DEF Within

-----------------------------------------------------------------------------
(* The steps.                                                              *)

LEMMA IInvInit == Init => IInv
  <1> SUFFICES ASSUME Init PROVE IInv
    OBVIOUS
  <1>1. /\ New(0) \in Bucket /\ New(0).last = 0 /\ Within(0, New(0), 0)
    BY NewWithin
  <1>2. TypeOK
    BY <1>1 DEF Init, TypeOK
  <1>3. TenantAccount
    BY <1>1 DEF Init, TenantAccount
  <1>4. ConnAccount
    BY DEF Init, ConnAccount
  <1>5. ConnTextBound
    <2>1. rps * (0 - 0) = 0
      BY Constants
    <2> QED
      BY <2>1, Constants DEF Init, ConnTextBound, Lanes
  <1> QED
    BY <1>2, <1>3, <1>4, <1>5 DEF IInv

\* The decision on a frame: it passes only if the limiter of the tenant, where
\* there is one, has given a token for it.
LEMMA DecideFacts ==
    ASSUME IInv, NEW c \in Conns, NEW f, Decide(c, f)
    PROVE  /\ tenant' \in IF TenantLimited THEN Bucket ELSE {None}
           /\ TenantAccount'
           /\ \E n \in {0, 1} :
                 /\ passed' = [passed EXCEPT ![c][f.lane] = @ + n]
                 /\ total' = total + n
  <1> DEFINE n == IF Check(f) = "pass" THEN 1 ELSE 0
  <1>1. n \in {0, 1} /\ (n = 1 => Admits(tenant) /\ ~TooLong(f))
    BY DEF Check
  <1>2. /\ passed' = [passed EXCEPT ![c][f.lane] = @ + n] /\ total' = total + n
        /\ tenant' = (IF TooLong(f) THEN tenant ELSE After(tenant)) /\ now' = now
    BY DEF Decide
  <1>3. /\ tenant \in (IF TenantLimited THEN Bucket ELSE {None})
        /\ now \in Nat /\ total \in Nat
    BY DEF IInv, TypeOK
  <1> HIDE DEF n
  <1>4. CASE ~TenantLimited
    BY Zenon, <1>1, <1>2, <1>3, <1>4 DEF TenantAccount, TenantLimited, After
  <1>5. CASE TenantLimited
    <2>1. /\ tenant \in Bucket /\ tenant # None
          /\ tenant.last <= now /\ Within(total, tenant, 0)
      BY <1>3, <1>5, PolicyAssumption DEF IInv, TenantAccount
    <2>2. tenant.last \in Nat
      BY <2>1 DEF Bucket
    <2>3. CASE TooLong(f)
      <3>1. n = 0 /\ tenant' = tenant /\ total' = total
        BY <1>1, <1>2, <1>3, <2>3
      <3> QED
        BY <1>1, <1>2, <1>5, <2>1, <3>1 DEF TenantAccount, Within
    <2>4. CASE ~TooLong(f)
      <3>1. tenant' = Take(tenant, now) /\ (n = 1 => Allows(tenant, now))
        BY <1>1, <1>2, <2>1, <2>4 DEF After, Admits
      <3>2. /\ Take(tenant, now) \in Bucket /\ Take(tenant, now).last <= now
            /\ Within(total + n, Take(tenant, now), 0)
        BY <1>1, <1>3, <2>1, <2>2, <3>1, TakeWithin
      <3>3. TenantAccount'
        BY <1>2, <3>1, <3>2 DEF TenantAccount, Within
      <3> QED
        BY Zenon, <1>1, <1>2, <1>5, <3>1, <3>2, <3>3
    <2> QED
      BY <2>3, <2>4
  <1> QED
    BY <1>4, <1>5

LEMMA IInvWait == ASSUME IInv, NEW d \in Pauses, Wait(d) PROVE IInv'
  <1>1. /\ now \in Nat /\ d \in Nat /\ now' = now + d /\ now' \in Nat
        /\ UNCHANGED <<tenant, open, conn, since, passed, total>>
    BY PolicyAssumption DEF IInv, TypeOK, Wait
  <1>2. TypeOK'
    BY <1>1 DEF IInv, TypeOK
  <1>3. TenantAccount'
    <2> SUFFICES ASSUME TenantLimited
                 PROVE  tenant.last <= now' /\ Within(total, tenant, 0)
      BY <1>1 DEF TenantAccount, Within
    <2>1. tenant.last \in Nat /\ tenant.last <= now /\ Within(total, tenant, 0)
      BY DEF IInv, TypeOK, TenantAccount, Bucket
    <2> QED
      BY <1>1, <2>1
  <1>4. ConnAccount'
    <2> SUFFICES ASSUME ConnLimited, NEW c \in open
                 PROVE  /\ since[c] <= conn[c].last /\ conn[c].last <= now'
                        /\ Within(passed[c]["text"], conn[c], since[c])
      BY <1>1 DEF ConnAccount, Within
    <2>1. /\ since[c] <= conn[c].last /\ conn[c].last <= now
          /\ Within(passed[c]["text"], conn[c], since[c])
      BY DEF IInv, ConnAccount
    <2>2. conn[c].last \in Nat
      BY DEF IInv, TypeOK, Bucket
    <2> QED
      BY <1>1, <2>1, <2>2
  <1>5. ConnTextBound'
    <2> SUFFICES ASSUME ConnLimited, NEW c \in Conns
                 PROVE  1000 * passed[c]["text"]
                          <= 1000 * capacity + rps * (now' - since[c])
      BY <1>1 DEF ConnTextBound
    <2>1. since[c] \in Nat /\ passed[c]["text"] \in Nat
      BY <1>1 DEF IInv, TypeOK, Lanes
    <2>2. 1000 * passed[c]["text"] <= 1000 * capacity + rps * (now - since[c])
      BY DEF IInv, ConnTextBound
    <2>3. /\ rps * (now - since[c]) <= rps * (now' - since[c])
          /\ rps * (now - since[c]) \in Int /\ rps * (now' - since[c]) \in Int
      BY <1>1, <2>1, Constants, MulFacts
    <2> QED
      BY <2>1, <2>2, <2>3, Constants
  <1> QED
    BY <1>2, <1>3, <1>4, <1>5 DEF IInv

LEMMA IInvConnect == ASSUME IInv, NEW c \in Conns, Connect(c) PROVE IInv'
  <1>1. /\ TypeOK /\ TenantAccount /\ ConnAccount /\ ConnTextBound /\ now \in Nat
        /\ since \in [Conns -> 0 .. now] /\ passed \in [Conns -> [Lanes -> Nat]]
        /\ conn \in [Conns -> Bucket \cup {None}] /\ open \subseteq Conns
    BY DEF IInv, TypeOK
  <1>2. /\ open' = open \cup {c}
        /\ conn' = [conn EXCEPT ![c] = IF ConnLimited THEN New(now) ELSE None]
        /\ since' = [since EXCEPT ![c] = now]
        /\ passed' = [passed EXCEPT ![c] = [lane \in Lanes |-> 0]]
        /\ tenant' = tenant /\ now' = now /\ total' = total
    BY DEF Connect
  <1>3. New(now) \in Bucket /\ New(now).last = now /\ Within(0, New(now), now)
    BY <1>1, NewWithin
  <1>4. passed'[c]["text"] = 0 /\ since'[c] = now
    BY <1>1, <1>2 DEF Lanes
  <1>5. \A d \in Conns \ {c} :
           conn'[d] = conn[d] /\ since'[d] = since[d] /\ passed'[d] = passed[d]
    BY <1>1, <1>2
  <1>6. TypeOK'
    <2>1. /\ conn' \in [Conns -> Bucket \cup {None}]
          /\ since' \in [Conns -> 0 .. now'] /\ passed' \in [Conns -> [Lanes -> Nat]]
      BY <1>1, <1>2, <1>3
    <2>2. ASSUME NEW d \in Conns
          PROVE  conn'[d] \in IF d \in open' /\ ConnLimited THEN Bucket ELSE {None}
      BY <1>1, <1>2, <1>3, <1>5 DEF TypeOK
    <2> QED
      BY <1>1, <1>2, <2>1, <2>2 DEF TypeOK
  <1>7. TenantAccount'
    BY <1>1, <1>2 DEF TenantAccount, Within
  <1>8. ConnAccount'
    <2> SUFFICES ASSUME ConnLimited, NEW d \in open'
                 PROVE  /\ since'[d] <= conn'[d].last /\ conn'[d].last <= now'
                        /\ Within(passed'[d]["text"], conn'[d], since'[d])
      BY DEF ConnAccount, Within
    <2>1. CASE d = c
      <3>1. conn'[c] = New(now)
        BY <1>1, <1>2
      <3> QED
        BY <1>1, <1>2, <1>3, <1>4, <2>1, <3>1
    <2>2. CASE d # c
      BY <1>1, <1>2, <1>5, <2>2 DEF ConnAccount
    <2> QED
      BY <2>1, <2>2
  <1>9. ConnTextBound'
    <2> SUFFICES ASSUME ConnLimited, NEW d \in Conns
                 PROVE  1000 * passed'[d]["text"]
                          <= 1000 * capacity + rps * (now' - since'[d])
      BY DEF ConnTextBound
    <2>1. CASE d = c
      <3>1. rps * (now - now) = 0
        BY <1>1, Constants
      <3> QED
        BY <1>2, <1>4, <2>1, <3>1, Constants
    <2>2. CASE d # c
      BY <1>1, <1>2, <1>5, <2>2 DEF ConnTextBound
    <2> QED
      BY <2>1, <2>2
  <1> QED
    BY <1>6, <1>7, <1>8, <1>9 DEF IInv

LEMMA IInvDisconnect == ASSUME IInv, NEW c \in Conns, Disconnect(c) PROVE IInv'
  <1>1. /\ TypeOK /\ TenantAccount /\ ConnAccount /\ ConnTextBound
        /\ conn \in [Conns -> Bucket \cup {None}] /\ open \subseteq Conns
    BY DEF IInv, TypeOK
  <1>2. /\ open' = open \ {c} /\ conn' = [conn EXCEPT ![c] = None]
        /\ UNCHANGED <<tenant, now, since, passed, total>>
    BY DEF Disconnect
  <1>3. TypeOK'
    BY <1>1, <1>2 DEF TypeOK
  <1>4. TenantAccount'
    BY <1>1, <1>2 DEF TenantAccount, Within
  <1>5. ConnAccount'
    BY <1>1, <1>2 DEF ConnAccount, Within
  <1>6. ConnTextBound'
    BY <1>1, <1>2 DEF ConnTextBound
  <1> QED
    BY <1>3, <1>4, <1>5, <1>6 DEF IInv

\* What becomes of the limiter of a connection on which a decision is made: it is
\* dropped with the connection, or it accounts for the text frames that have passed.
ConnKept(c, b) ==
    /\ b \in Bucket \cup {None} /\ conn' = [conn EXCEPT ![c] = b]
    /\ c \notin open' => b = None
    /\ c \in open' => b \in IF ConnLimited THEN Bucket ELSE {None}
    /\ ConnLimited /\ c \in open' =>
          /\ since[c] <= b.last /\ b.last <= now
          /\ Within(passed'[c]["text"], b, since[c])
    /\ ConnLimited => 1000 * passed'[c]["text"]
                         <= 1000 * capacity + rps * (now - since[c])

\* The rest of such a step.
LEMMA IInvDecide ==
    ASSUME IInv, NEW c \in open, NEW f, f.lane \in Lanes, Decide(c, f),
           NEW b, ConnKept(c, b)
    PROVE  IInv'
  <1>1. /\ TypeOK /\ TenantAccount /\ ConnAccount /\ ConnTextBound /\ total \in Nat
        /\ since \in [Conns -> 0 .. now] /\ passed \in [Conns -> [Lanes -> Nat]]
        /\ conn \in [Conns -> Bucket \cup {None}] /\ open \subseteq Conns
        /\ now \in Nat /\ c \in Conns
    BY DEF IInv, TypeOK
  <1>2. /\ tenant' \in (IF TenantLimited THEN Bucket ELSE {None})
        /\ TenantAccount'
    BY <1>1, DecideFacts
  <1>3. PICK n \in {0, 1} : /\ passed' = [passed EXCEPT ![c][f.lane] = @ + n]
                            /\ total' = total + n
    BY <1>1, DecideFacts
  <1>4. now' = now /\ since' = since /\ open' \in {open, open \ {c}}
    BY DEF Decide
  <1>5. /\ conn'[c] = b
        /\ \A d \in Conns \ {c} : conn'[d] = conn[d] /\ passed'[d] = passed[d]
    BY <1>1, <1>3 DEF ConnKept
  <1>6. TypeOK'
    <2>1. passed' \in [Conns -> [Lanes -> Nat]] /\ total' \in Nat
      BY <1>1, <1>3
    <2>2. conn' \in [Conns -> Bucket \cup {None}]
      BY <1>1 DEF ConnKept
    <2>3. ASSUME NEW d \in Conns
          PROVE  conn'[d] \in IF d \in open' /\ ConnLimited THEN Bucket ELSE {None}
      <3>1. CASE d = c
        BY <1>5, <3>1 DEF ConnKept
      <3>2. CASE d # c
        BY <1>1, <1>4, <1>5, <3>2 DEF TypeOK
      <3> QED
        BY <3>1, <3>2
    <2> QED
      BY <1>1, <1>2, <1>4, <2>1, <2>2, <2>3 DEF TypeOK
  <1>7. ConnAccount'
    <2> SUFFICES ASSUME ConnLimited, NEW d \in open'
                 PROVE  /\ since[d] <= conn'[d].last /\ conn'[d].last <= now
                        /\ Within(passed'[d]["text"], conn'[d], since[d])
      BY <1>4 DEF ConnAccount, Within
    <2>1. CASE d = c
      BY <1>5, <2>1 DEF ConnKept
    <2>2. CASE d # c
      BY <1>1, <1>4, <1>5, <2>2 DEF ConnAccount
    <2> QED
      BY <2>1, <2>2
  <1>8. ConnTextBound'
    <2> SUFFICES ASSUME ConnLimited, NEW d \in Conns
                 PROVE  1000 * passed'[d]["text"]
                          <= 1000 * capacity + rps * (now - since[d])
      BY <1>4 DEF ConnTextBound
    <2>1. CASE d = c
      BY <2>1 DEF ConnKept
    <2>2. CASE d # c
      BY <1>1, <1>5, <2>2 DEF ConnTextBound
    <2> QED
      BY <2>1, <2>2
  <1> QED
    BY <1>2, <1>6, <1>7, <1>8 DEF IInv

\* A call of the limiter of a connection, after which a text frame may have passed
\* only if the limiter has allowed it.
LEMMA ConnTake ==
    ASSUME IInv, ConnLimited, NEW c \in open, NEW n \in {0, 1},
           n = 1 => Admits(conn[c])
    PROVE  /\ After(conn[c]) \in Bucket
           /\ since[c] <= After(conn[c]).last /\ After(conn[c]).last <= now
           /\ Within(passed[c]["text"] + n, After(conn[c]), since[c])
           /\ 1000 * (passed[c]["text"] + n)
                 <= 1000 * capacity + rps * (now - since[c])
  <1>1. /\ conn[c] \in Bucket /\ conn[c] # None /\ now \in Nat
        /\ since[c] \in Nat /\ passed[c]["text"] \in Nat
    BY PolicyAssumption DEF IInv, TypeOK, Lanes
  <1>2. /\ since[c] <= conn[c].last /\ conn[c].last <= now
        /\ Within(passed[c]["text"], conn[c], since[c])
    BY DEF IInv, ConnAccount
  <1>3. After(conn[c]) = Take(conn[c], now) /\ (n = 1 => Allows(conn[c], now))
    BY <1>1 DEF After, Admits
  <1>4. /\ Take(conn[c], now) \in Bucket
        /\ since[c] <= Take(conn[c], now).last /\ Take(conn[c], now).last <= now
        /\ Within(passed[c]["text"] + n, Take(conn[c], now), since[c])
    BY <1>1, <1>2, <1>3, TakeWithin
  <1>5. passed[c]["text"] + n \in Nat
    BY <1>1
  <1> QED
    BY <1>1, <1>3, <1>4, <1>5, WithinBound

LEMMA IInvText ==
    ASSUME IInv, NEW c \in Conns, NEW f \in TextFrames, Text(c, f) PROVE IInv'
  <1>1. /\ c \in open /\ f.lane = "text" /\ f.lane \in Lanes
        /\ passed \in [Conns -> [Lanes -> Nat]] /\ now \in Nat
        /\ conn \in [Conns -> Bucket \cup {None}]
        /\ conn[c] \in (IF ConnLimited THEN Bucket ELSE {None})
    BY PolicyAssumption DEF IInv, TypeOK, Text, Lanes
  <1>2. ~ConnLimited => After(conn[c]) = None
    BY <1>1 DEF After
  <1>3. CASE Admits(conn[c])
    <2> DEFINE b == IF Check(f) = "close" THEN None ELSE After(conn[c])
    <2>1. Decide(c, f) /\ conn' = [conn EXCEPT ![c] = b]
      BY <1>1, <1>3 DEF Text
    <2>2. PICK n \in {0, 1} : passed' = [passed EXCEPT ![c][f.lane] = @ + n]
      BY <2>1, DecideFacts
    <2>3. passed'[c]["text"] = passed[c]["text"] + n
      BY <1>1, <2>2
    <2>4. /\ Check(f) = "close" => c \notin open'
          /\ Check(f) # "close" => open' = open
      BY <2>1 DEF Decide
    <2>5. ConnLimited => /\ After(conn[c]) \in Bucket
                         /\ since[c] <= After(conn[c]).last
                         /\ After(conn[c]).last <= now
                         /\ Within(passed'[c]["text"], After(conn[c]), since[c])
                         /\ 1000 * passed'[c]["text"]
                               <= 1000 * capacity + rps * (now - since[c])
      BY <1>1, <1>3, <2>3, ConnTake
    <2>6. b \in Bucket \cup {None} /\ (c \notin open' => b = None)
      BY <1>1, <1>2, <2>4, <2>5
    <2>7. c \in open' => b = After(conn[c])
      BY <2>4
    <2>8. c \in open' => b \in IF ConnLimited THEN Bucket ELSE {None}
      BY <1>2, <2>5, <2>7
    <2>9. ConnLimited /\ c \in open' =>
             /\ since[c] <= b.last /\ b.last <= now
             /\ Within(passed'[c]["text"], b, since[c])
      BY <2>5, <2>7
    <2> HIDE DEF b
    <2>10. ConnKept(c, b)
      BY <2>1, <2>5, <2>6, <2>8, <2>9 DEF ConnKept
    <2> QED
      BY <1>1, <2>1, <2>10, IInvDecide
  <1>4. CASE ~Admits(conn[c])
    <2>1. /\ conn' = [conn EXCEPT ![c] = After(conn[c])]
          /\ UNCHANGED <<tenant, open, now, since, passed, total>>
      BY <1>1, <1>4 DEF Text
    <2>2. ConnLimited
      BY <1>1, <1>4 DEF Admits
    <2>3. /\ After(conn[c]) \in Bucket
          /\ since[c] <= After(conn[c]).last /\ After(conn[c]).last <= now
          /\ Within(passed[c]["text"] + 0, After(conn[c]), since[c])
      BY <1>1, <2>2, ConnTake
    <2>4. passed[c]["text"] + 0 = passed[c]["text"]
      BY <1>1 DEF Lanes
    <2>5. TypeOK'
      BY <1>1, <2>1, <2>2, <2>3 DEF IInv, TypeOK
    <2>6. TenantAccount' /\ ConnTextBound'
      BY <2>1 DEF IInv, TenantAccount, ConnTextBound, Within
    <2>7. ConnAccount'
      <3> SUFFICES ASSUME NEW d \in open
                   PROVE  /\ since[d] <= conn'[d].last /\ conn'[d].last <= now
                          /\ Within(passed[d]["text"], conn'[d], since[d])
        BY <2>1 DEF ConnAccount, Within
      <3>1. conn'[d] = IF d = c THEN After(conn[c]) ELSE conn[d]
        BY <1>1, <2>1 DEF IInv, TypeOK
      <3> QED
        BY <2>2, <2>3, <2>4, <3>1 DEF IInv, ConnAccount
    <2> QED
      BY <2>5, <2>6, <2>7 DEF IInv
  <1> QED
    BY <1>3, <1>4

LEMMA IInvHot ==
    ASSUME IInv, NEW c \in Conns, NEW f \in HotFrames, Hot(c, f) PROVE IInv'
  <1>1. /\ c \in open /\ f.lane = "hot" /\ f.lane \in Lanes
        /\ passed \in [Conns -> [Lanes -> Nat]] /\ conn[c] \in Bucket \cup {None}
        /\ conn[c] \in (IF ConnLimited THEN Bucket ELSE {None})
    BY PolicyAssumption DEF IInv, TypeOK, Hot, Lanes
  <1> DEFINE b == IF Check(f) = "close" THEN None ELSE conn[c]
  <1>2. Decide(c, f) /\ conn' = [conn EXCEPT ![c] = b]
    BY DEF Hot
  <1>3. PICK n \in {0, 1} : passed' = [passed EXCEPT ![c][f.lane] = @ + n]
    BY <1>2, DecideFacts
  <1>4. passed'[c]["text"] = passed[c]["text"]
    BY <1>1, <1>3 DEF Lanes
  <1>5. /\ b \in Bucket \cup {None} /\ (c \notin open' => b = None)
        /\ c \in open' => b = conn[c]
    BY <1>1, <1>2 DEF Decide
  <1>6. ConnLimited => /\ since[c] <= conn[c].last /\ conn[c].last <= now
                       /\ Within(passed'[c]["text"], conn[c], since[c])
                       /\ 1000 * passed'[c]["text"]
                             <= 1000 * capacity + rps * (now - since[c])
    BY <1>1, <1>4 DEF IInv, ConnAccount, ConnTextBound
  <1>7. c \in open' => b \in IF ConnLimited THEN Bucket ELSE {None}
    BY <1>1, <1>5
  <1>8. ConnLimited /\ c \in open' =>
           /\ since[c] <= b.last /\ b.last <= now
           /\ Within(passed'[c]["text"], b, since[c])
    BY <1>5, <1>6
  <1> HIDE DEF b
  <1>9. ConnKept(c, b)
    BY <1>2, <1>5, <1>6, <1>7, <1>8 DEF ConnKept
  <1> QED
    BY <1>1, <1>2, <1>9, IInvDecide

LEMMA IInvNext == IInv /\ [Next]_vars => IInv'
  <1> SUFFICES ASSUME IInv, [Next]_vars PROVE IInv'
    OBVIOUS
  <1>1. ASSUME NEW c \in Conns, Connect(c) PROVE IInv'
    BY <1>1, IInvConnect
  <1>2. ASSUME NEW c \in Conns, Disconnect(c) PROVE IInv'
    BY <1>2, IInvDisconnect
  <1>3. ASSUME NEW c \in Conns, NEW f \in TextFrames, Text(c, f) PROVE IInv'
    BY <1>3, IInvText
  <1>4. ASSUME NEW c \in Conns, NEW f \in HotFrames, Hot(c, f) PROVE IInv'
    BY <1>4, IInvHot
  <1>5. ASSUME NEW d \in Pauses, Wait(d) PROVE IInv'
    BY <1>5, IInvWait
  <1>6. CASE UNCHANGED vars
    BY <1>6 DEF vars, IInv, TypeOK, TenantAccount, ConnAccount, ConnTextBound, Within
  <1> QED
    BY <1>1, <1>2, <1>3, <1>4, <1>5, <1>6 DEF Next

LEMMA Invariance == Spec => []IInv
  BY IInvInit, IInvNext, PTL DEF Spec

-----------------------------------------------------------------------------
(* What follows.                                                           *)

\* Every limiter that the scope asks for is there as long as its connection, or the
\* tenant, is (TenantPolicyRuntime::new, new_connection_limiter).
THEOREM PolicyTypeCorrect == Spec => []TypeOK
  <1>1. IInv => TypeOK
    BY DEF IInv
  <1> QED
    BY <1>1, Invariance, PTL

\* The frames of both lanes of all connections of a tenant that check_text and
\* check_hot pass stay within the burst and the rate of the tenant's limiter.
THEOREM TenantIsLimited == Spec => []TenantBound
  <1>1. ASSUME IInv PROVE TenantBound
    <2> SUFFICES ASSUME TenantLimited
                 PROVE  1000 * total <= 1000 * capacity + rps * now
      BY DEF TenantBound
    <2>1. /\ tenant \in Bucket /\ now \in Nat /\ total \in Nat
          /\ tenant.last <= now /\ Within(total, tenant, 0)
      BY <1>1 DEF IInv, TypeOK, TenantAccount
    <2>2. 1000 * total <= 1000 * capacity + rps * (now - 0)
      BY <2>1, WithinBound
    <2>3. now - 0 = now
      BY <2>1
    <2> QED
      BY <2>2, <2>3
  <1> QED
    BY <1>1, Invariance, PTL

\* The text frames of a connection that run_session passes on stay within the burst
\* and the rate since it was opened, whatever the other connections do.
THEOREM ConnTextIsLimited == Spec => []ConnTextBound
  <1>1. IInv => ConnTextBound
    BY DEF IInv
  <1> QED
    BY <1>1, Invariance, PTL

-----------------------------------------------------------------------------
(* From the socket to a service.                                           *)

(* Every step of the incoming arm is a step of Policy or leaves its        *)
(* variables alone.                                                        *)
LEMMA IngressStep ==
    ASSUME [IngressNext]_ingressVars
    PROVE  [Next]_vars
  <1>1. CASE UNCHANGED ingressVars
    BY <1>1 DEF ingressVars
  <1>2. ASSUME NEW c \in Conns, Connect(c)
        PROVE  Next
    BY <1>2 DEF Next
  <1>3. ASSUME NEW c \in Conns, Leave(c)
        PROVE  Next
    BY <1>3 DEF Next, Leave
  <1>4. ASSUME NEW c \in Conns, NEW m \in Messages, NEW found \in BOOLEAN,
               ReceiveText(c, m, found)
        PROVE  Next
    <2>1. FrameOf(m) \in TextFrames
      BY <1>4, FramesAssumption DEF ReceiveText
    <2>2. Text(c, FrameOf(m))
      BY <1>4 DEF ReceiveText
    <2> QED BY <2>1, <2>2 DEF Next
  <1>5. ASSUME NEW c \in Conns, NEW m \in Messages, ReceiveHot(c, m)
        PROVE  Next
    <2>1. FrameOf(m) \in HotFrames
      BY <1>5, FramesAssumption DEF ReceiveHot
    <2>2. Hot(c, FrameOf(m))
      BY <1>5 DEF ReceiveHot
    <2> QED BY <2>1, <2>2 DEF Next
  <1>6. ASSUME NEW c \in Conns, NEW m \in Messages, ReceiveLast(c, m)
        PROVE  Next
    BY <1>6, <1>3 DEF ReceiveLast
  <1>7. ASSUME NEW c \in Conns, NEW m \in Messages, ReceiveControl(c, m)
        PROVE  UNCHANGED vars
    BY <1>7 DEF ReceiveControl, ingressVars
  <1>8. ASSUME NEW d \in Pauses, Wait(d)
        PROVE  Next
    BY <1>8 DEF Next
  <1>9. CASE IngressNext
    BY <1>9, <1>2, <1>3, <1>4, <1>5, <1>6, <1>7, <1>8 DEF IngressNext
  <1> QED BY <1>1, <1>9

(* The incoming arm of run_session moves the limiters and the connections  *)
(* only as module Policy says.                                             *)
THEOREM ImplementsPolicy == IngressSpec => PolicyKept
  <1>1. IngressInit => Init
    BY DEF IngressInit
  <1>2. [IngressNext]_ingressVars => [Next]_vars
    BY IngressStep
  <1> QED BY <1>1, <1>2, PTL DEF IngressSpec, PolicyKept, Spec

(* Whatever clients send, malformed messages included, what policy passes  *)
(* stays within the limiter of the tenant.                                 *)
THEOREM TenantLimitedFromSocket == IngressSpec => []TenantBound
  BY ImplementsPolicy, TenantIsLimited, PTL DEF PolicyKept

(* And the text frames that it passes stay within those of the connections. *)
THEOREM ConnLimitedFromSocket == IngressSpec => []ConnTextBound
  BY ImplementsPolicy, ConnTextIsLimited, PTL DEF PolicyKept

-----------------------------------------------------------------------------
(* The allowlists that a session uses have been compiled: AppState::new    *)
(* fails otherwise, and no connection is ever open.                        *)
CompiledFirst == open # {} => Compiles

LEMMA OpenMeansCompiled == Spec => []CompiledFirst
  <1>1. Init => CompiledFirst
    BY DEF Init, CompiledFirst
  <1>2. CompiledFirst /\ [Next]_vars => CompiledFirst'
    <2> SUFFICES ASSUME CompiledFirst, [Next]_vars
                 PROVE  CompiledFirst'
      OBVIOUS
    <2>1. Compiles' = Compiles
      BY DEF Compiles
    <2>2. open' \subseteq open \/ Compiles
      BY DEF Next, vars, Connect, Disconnect, Text, Hot, Decide, Wait
    <2> QED BY <2>1, <2>2 DEF CompiledFirst
  <1> QED BY <1>1, <1>2, PTL DEF Spec

(* A text frame that the compiled rules allow is named by an entry as it   *)
(* was written.                                                            *)
LEMMA ExtListed ==
    ASSUME ExtCompiles(ExtAllowlist), NEW svc, NEW type,
           IsAllowed(Rules("text"), svc, type)
    PROVE  \E raw \in ExtAllowlist : raw[1] = svc /\ raw[2] \in {type, "*"}
  <1>1. PICK raw \in ExtAllowlist :
          LET r == ExtRule(raw) IN r.svc = svc /\ (r.type = None \/ r.type = type)
    BY DEF IsAllowed, Rules
  <1>2. raw[2] # None
    BY NoneAssumption DEF ExtCompiles, Colon
  <1>3. raw[1] = svc /\ raw[2] \in {type, "*"}
    BY <1>1, <1>2 DEF ExtRule
  <1> QED BY <1>3

(* The same for the hot lane, where the numbers of an entry are parsed.    *)
LEMMA HotListed ==
    ASSUME HotCompiles(HotAllowlist), NEW svc, NEW type,
           IsAllowed(Rules("hot"), svc, type)
    PROVE  \E raw \in HotAllowlist :
              ParseU8[raw[1]] = svc /\ (raw[2] = "*" \/ ParseU8[raw[2]] = type)
  <1>1. PICK raw \in HotAllowlist :
          LET r == HotRule(raw) IN r.svc = svc /\ (r.type = None \/ r.type = type)
    BY DEF IsAllowed, Rules
  <1>2. raw[2] = "*" \/ ParseU8[raw[2]] # None
    BY NoneAssumption DEF HotCompiles, Number
  <1>3. ParseU8[raw[1]] = svc /\ (raw[2] = "*" \/ ParseU8[raw[2]] = type)
    BY <1>1, <1>2 DEF HotRule
  <1> QED BY <1>3

(* Decoding keeps what policy is asked about: the keys of the JSON object, *)
(* the bytes of the buffer.                                                *)
LEMMA TextDecoded ==
    ASSUME NEW m, m.kind = "text", Decode(m).ok
    PROVE  /\ FrameOf(m).svc = m.json["svc"] /\ FrameOf(m).type = m.json["type"]
           /\ FrameOf(m).lane = "text" /\ FrameOf(m).len = BytesLen(m)
  <1>1. Decode(m).value = m.json
    BY DEF Decode, DecodeEnvelope, Ok, Err
  <1> QED BY <1>1 DEF FrameOf

LEMMA HotDecoded ==
    ASSUME NEW m, m.kind = "binary", Decode(m).ok
    PROVE  /\ m.bytes[1] = 1
           /\ FrameOf(m).svc = m.bytes[2] /\ FrameOf(m).type = m.bytes[3]
           /\ FrameOf(m).lane = "hot" /\ FrameOf(m).len = BytesLen(m)
  <1>1. Decode(m) = DecodeHot(m.bytes)
    BY DEF Decode
  <1>2. /\ m.bytes[1] = 1
        /\ Decode(m).value.svc_id = m.bytes[2] /\ Decode(m).value.opcode = m.bytes[3]
    BY <1>1 DEF DecodeHot, Ok, Err
  <1> QED BY <1>2 DEF FrameOf

(* What is served has been decoded and passed, and a hot frame has the     *)
(* room that it needs.                                                     *)
LEMMA ServedPassed ==
    ASSUME NEW c \in Conns, NEW m \in Messages, NEW found \in BOOLEAN, NEW mode \in Modes,
           Handled(c, m, found, mode).served
    PROVE  /\ Decode(m).ok /\ m.kind \in {"text", "binary"}
           /\ Check(FrameOf(m)) = "pass"
           /\ m.kind = "binary" /\ mode.needs_room => active_room[c] # None
  <1>1. m.kind \in {"text", "binary", "ping", "pong", "close"}
    BY FramesAssumption
  <1>2. \A counted, reply : Effect(counted, reply, FALSE).served = FALSE
    BY DEF Effect
  <1>3. \A decision, code : Turned(decision, code).served = FALSE
    BY Zenon, <1>2 DEF Turned
  <1>4. ConnDropped.served = FALSE
    BY <1>3 DEF ConnDropped
  <1>5. Decode(m).ok /\ m.kind \in {"text", "binary"}
    BY Zenon, <1>1, <1>2 DEF Handled
  <1>6. Check(FrameOf(m)) = "pass"
    BY Zenon, <1>3, <1>4, <1>5 DEF Handled
  <1>7. ASSUME m.kind = "binary", mode.needs_room, active_room[c] = None
        PROVE  FALSE
    <2>1. Handled(c, m, found, mode) = ServeHot(c, Decode(m).value, found, mode)
      BY <1>5, <1>6, <1>7 DEF Handled
    <2>2. ServeHot(c, Decode(m).value, found, mode).served = FALSE
      BY Zenon, <1>7, <1>2 DEF ServeHot
    <2> QED BY <2>1, <2>2
  <1> QED BY <1>5, <1>6, <1>7

(* Nothing reaches a service past the decoder, the size limit, the written *)
(* allowlists and the rule about rooms, for every configuration, every set *)
(* of messages and every state of the limiters.                            *)
THEOREM ServedIsListed == IngressSpec => []ServedOnlyListed
  <1>1. CompiledFirst /\ open \subseteq Conns => ServedOnlyListed
    <2> SUFFICES ASSUME CompiledFirst, NEW c \in open, c \in Conns, NEW m \in Messages,
                        NEW found \in BOOLEAN, NEW mode \in Modes,
                        Handled(c, m, found, mode).served
                 PROVE  /\ BytesLen(m) <= MaxFrameBytes
                        /\ m.kind = "text" =>
                             \E raw \in ExtAllowlist :
                                raw[1] = m.json["svc"] /\ raw[2] \in {m.json["type"], "*"}
                        /\ m.kind = "binary" =>
                             /\ m.bytes[1] = 1
                             /\ \E raw \in HotAllowlist :
                                  /\ ParseU8[raw[1]] = m.bytes[2]
                                  /\ raw[2] = "*" \/ ParseU8[raw[2]] = m.bytes[3]
                             /\ mode.needs_room => active_room[c] # None
      BY DEF ServedOnlyListed
    <2>1. ExtCompiles(ExtAllowlist) /\ HotCompiles(HotAllowlist)
      BY DEF CompiledFirst, Compiles
    <2>2. /\ Decode(m).ok /\ m.kind \in {"text", "binary"} /\ Check(FrameOf(m)) = "pass"
          /\ m.kind = "binary" /\ mode.needs_room => active_room[c] # None
      BY ServedPassed
    <2>3. /\ ~TooLong(FrameOf(m))
          /\ IsAllowed(Rules(FrameOf(m).lane), FrameOf(m).svc, FrameOf(m).type)
      BY <2>2 DEF Check
    <2>4. ASSUME m.kind = "text"
          PROVE  /\ BytesLen(m) <= MaxFrameBytes
                 /\ \E raw \in ExtAllowlist :
                       raw[1] = m.json["svc"] /\ raw[2] \in {m.json["type"], "*"}
      <3>1. /\ FrameOf(m).svc = m.json["svc"] /\ FrameOf(m).type = m.json["type"]
            /\ FrameOf(m).lane = "text" /\ FrameOf(m).len = BytesLen(m)
        BY <2>2, <2>4, TextDecoded
      <3>2. BytesLen(m) <= MaxFrameBytes
        BY <2>3, <2>4, <3>1, FramesAssumption DEF TooLong
      <3>3. IsAllowed(Rules("text"), m.json["svc"], m.json["type"])
        BY <2>3, <3>1
      <3> QED BY <2>1, <3>2, <3>3, ExtListed
    <2>5. ASSUME m.kind = "binary"
          PROVE  /\ BytesLen(m) <= MaxFrameBytes /\ m.bytes[1] = 1
                 /\ \E raw \in HotAllowlist :
                      /\ ParseU8[raw[1]] = m.bytes[2]
                      /\ raw[2] = "*" \/ ParseU8[raw[2]] = m.bytes[3]
      <3>1. /\ m.bytes[1] = 1
            /\ FrameOf(m).svc = m.bytes[2] /\ FrameOf(m).type = m.bytes[3]
            /\ FrameOf(m).lane = "hot" /\ FrameOf(m).len = BytesLen(m)
        BY <2>2, <2>5, HotDecoded
      <3>2. BytesLen(m) <= MaxFrameBytes
        BY <2>3, <2>5, <3>1, FramesAssumption DEF TooLong
      <3>3. IsAllowed(Rules("hot"), m.bytes[2], m.bytes[3])
        BY <2>3, <3>1
      <3> QED BY <2>1, <3>1, <3>2, <3>3, HotListed
    <2> QED BY <2>2, <2>4, <2>5
  <1>2. TypeOK => open \subseteq Conns
    BY DEF TypeOK
  <1>3. Spec => []TypeOK
    BY PolicyTypeCorrect
  <1>4. Spec => []CompiledFirst
    BY OpenMeansCompiled
  <1>5. IngressSpec => Spec
    BY ImplementsPolicy DEF PolicyKept
  <1> QED BY <1>1, <1>2, <1>3, <1>4, <1>5, PTL

(* No frame of a lane vanishes, for every configuration, every set of      *)
(* messages and every state of the limiters.                               *)
THEOREM FramesAreAccounted == IngressSpec => []FramesAccounted
  <1>1. FramesAccounted
    <2> SUFFICES ASSUME NEW c \in open, NEW m \in Messages, NEW found \in BOOLEAN,
                        NEW mode \in Modes, m.kind \in {"text", "binary"},
                        ~(m.kind = "binary" /\ mode.silent /\ mode.needs_room
                            /\ active_room[c] = None)
                 PROVE  LET effect == Handled(c, m, found, mode)
                        IN  effect.served \/ effect.reply # None \/ effect.counted # {}
      BY DEF FramesAccounted
    <2> DEFINE Shown(effect) ==
                 effect.served \/ effect.reply # None \/ effect.counted # {}
    <2>1. \A decision, code : Shown(Turned(decision, code))
      BY DEF Turned, Effect
    <2>2. Shown(ConnDropped)
      BY <2>1 DEF ConnDropped
    <2>3. \A env : Shown(ServeText(env, found))
      BY DEF ServeText, Effect
    <2>4. ASSUME m.kind = "binary"
          PROVE  \A frame : Shown(ServeHot(c, frame, found, mode))
      BY <2>4, NoneAssumption DEF ServeHot, Effect
    <2>5. CASE ~Decode(m).ok
      BY <2>5 DEF Handled, Effect
    <2>6. CASE Decode(m).ok
      <3> SUFFICES Shown(Handled(c, m, found, mode))
        OBVIOUS
      <3> HIDE DEF Shown
      <3> QED BY Zenon, <2>1, <2>2, <2>3, <2>4, <2>6 DEF Handled
    <2> QED BY <2>5, <2>6
  <1> QED BY <1>1, PTL
=============================================================================
