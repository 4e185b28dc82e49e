------------------------- MODULE SessionLoopProofs -------------------------
(***************************************************************************)
(* Proofs about SessionLoop for every number of connections of a user and  *)
(* every setting.                                                          *)
(*                                                                         *)
(* That nothing is written to a client before sys.authed is a fact about   *)
(* the order of a queue that many tasks write to.  Its inductive form says *)
(* three things: in a queue every other message has sys.authed ahead of it *)
(* or the client has it already (Ahead); a session whose loop runs has     *)
(* been sent sys.authed (Greeted); and no publication picks a session      *)
(* whose loop does not run yet (InLoop).                                   *)
(***************************************************************************)
EXTENDS SessionLoop, SequenceTheorems, TLAPS

\* A sequence without repetitions.
Once(q) == \A i, j \in DOMAIN q : q[i] = q[j] => i = j

\* sys.authed is in the queue q; every other message of q comes after it unless
\* sys.authed has been taken out of q.
Has(q) == \E i \in DOMAIN q : q[i] = "authed"
Ahead(q, taken) ==
    \A i \in DOMAIN q : q[i] = "other" =>
        taken \/ \E j \in DOMAIN q : j < i /\ q[j] = "authed"

\* The loop of s runs: sys.authed has been queued.
InLoop(s) ==
    \/ pc[s] \in {"select", "writing", "publishing"}
    \/ pc[s] = "sending" /\ held[s] = "other"

AuthedTaken(s) == wire[s] # {} \/ (pc[s] = "writing" /\ held[s] = "authed")
Greeted(s) == AuthedTaken(s) \/ Has(out[s])

\* What the queue of s and the message that its task holds can be.
QueueInv(s) ==
    /\ Ahead(out[s], AuthedTaken(s))
    /\ InLoop(s) => Greeted(s)
    /\ pc[s] = "sending" => held[s] \in {"authed", "other"}
    /\ pc[s] = "writing" /\ held[s] = "other" => wire[s] # {}

\* Only sessions whose loop runs are in the room or picked by a publication.
ReachedInLoop ==
    \A s \in Sessions :
        /\ s \in in_room \cup active_room => InLoop(s)
        /\ \A t \in Sessions : s \in recips[t] => InLoop(s) \/ pc[s] = "ended"

\* A session is registered once, and only while its task runs.
RegisteredOnce ==
    /\ Once(registered)
    /\ \A s \in Registered : Started(s)

LInv == /\ TypeOK /\ RegisteredOnce /\ ReachedInLoop /\ ActiveRoomIsJoined
        /\ \A s \in Sessions : QueueInv(s)

-----------------------------------------------------------------------------
(* Sequences.                                                              *)

LEMMA SetOfSeq ==
    ASSUME NEW S, NEW q \in Seq(S)
    PROVE  /\ Range(q) \subseteq S
           /\ \A x : x \in Range(q) <=> \E i \in 1 .. Len(q) : q[i] = x
           /\ DOMAIN q = 1 .. Len(q) /\ Len(q) \in Nat
BY DEF Range

LEMMA AppendOnce ==
    ASSUME NEW S, NEW q \in Seq(S), NEW e \in S, Once(q), e \notin Range(q)
    PROVE  /\ Append(q, e) \in Seq(S) /\ Once(Append(q, e))
           /\ Range(Append(q, e)) = Range(q) \cup {e}
<1> DEFINE p == Append(q, e)
<1>1. /\ p \in Seq(S) /\ Len(p) = Len(q) + 1
      /\ \A i \in 1 .. Len(q) : p[i] = q[i]
      /\ p[Len(q) + 1] = e
  BY AppendProperties
<1> HIDE DEF p
<1>2. Len(q) \in Nat /\ Len(p) \in Nat
      /\ DOMAIN q = 1 .. Len(q) /\ DOMAIN p = 1 .. Len(p)
  BY <1>1, LenProperties
<1>3. \A i \in 1 .. Len(q) : q[i] # e
  BY <1>2 DEF Range
<1>4. Once(p)
  BY <1>1, <1>2, <1>3 DEF Once
<1>5. Range(p) = Range(q) \cup {e}
  <2>1. \A x \in Range(p) : x \in Range(q) \cup {e}
    BY <1>1, <1>2 DEF Range
  <2>2. \A x \in Range(q) \cup {e} : x \in Range(p)
    BY <1>1, <1>2 DEF Range
  <2> QED BY <2>1, <2>2
<1> QED BY <1>1, <1>4, <1>5 DEF p

LEMMA TailOnce ==
    ASSUME NEW S, NEW q \in Seq(S), q # <<>>, Once(q)
    PROVE  /\ Tail(q) \in Seq(S) /\ Once(Tail(q))
           /\ Head(q) \in Range(q)
           /\ Range(Tail(q)) = Range(q) \ {Head(q)}
<1> DEFINE p == Tail(q)
<1>1. /\ p \in Seq(S) /\ Len(p) = Len(q) - 1 /\ Head(q) = q[1]
      /\ \A i \in 1 .. Len(p) : p[i] = q[i + 1]
  BY HeadTailProperties
<1> HIDE DEF p
<1>2. Len(q) \in Nat /\ Len(p) \in Nat /\ Len(q) # 0
      /\ DOMAIN q = 1 .. Len(q) /\ DOMAIN p = 1 .. Len(p)
  BY <1>1, LenProperties, EmptySeq
<1>3. \A i, j \in 1 .. Len(q) : q[i] = q[j] => i = j
  BY <1>2 DEF Once
<1>4. Once(p)
  BY <1>1, <1>2, <1>3 DEF Once
<1>5. Range(p) = Range(q) \ {Head(q)} /\ Head(q) \in Range(q)
  <2>1. ASSUME NEW x \in Range(p) PROVE x \in Range(q) /\ x # q[1]
    <3>1. PICK i \in 1 .. Len(p) : x = p[i]
      BY Zenon, <1>2 DEF Range
    <3>2. /\ i + 1 \in 1 .. Len(q) /\ 1 \in 1 .. Len(q) /\ i + 1 # 1
          /\ x = q[i + 1]
      BY <3>1, <1>1, <1>2
    <3> QED BY Zenon, <3>2, <1>2, <1>3 DEF Range
  <2>2. ASSUME NEW x \in Range(q), x # q[1] PROVE x \in Range(p)
    <3>1. PICK i \in 1 .. Len(q) : x = q[i]
      BY <1>2 DEF Range
    <3>2. i # 1 /\ i - 1 \in 1 .. Len(p)
      BY <3>1, <2>2, <1>1, <1>2
    <3>3. p[i - 1] = x
      BY <3>1, <3>2, <1>1, <1>2
    <3> QED BY <3>2, <3>3, <1>2 DEF Range
  <2>3. q[1] \in Range(q)
    BY <1>2 DEF Range
  <2> QED BY <1>1, <2>1, <2>2, <2>3
<1> QED BY <1>1, <1>4, <1>5 DEF p

\* Two parts of a sequence leave out one element.
LEMMA LeaveOut ==
    ASSUME NEW S, NEW q \in Seq(S), NEW n \in 1 .. Len(q)
    PROVE  LET p == SubSeq(q, 1, n - 1) \o SubSeq(q, n + 1, Len(q))
           IN  /\ p \in Seq(S) /\ Len(p) = Len(q) - 1
               /\ \A i \in 1 .. Len(q) - 1 :
                    p[i] = IF i < n THEN q[i] ELSE q[i + 1]
<1> DEFINE a == SubSeq(q, 1, n - 1)
           b == SubSeq(q, n + 1, Len(q))
           N == Len(q)
<1>1. N \in Nat /\ \A i \in 1 .. N : q[i] \in S
  BY LenProperties, ElementOfSeq
<1>2. /\ a \in Seq(S) /\ Len(a) = IF 1 <= n - 1 THEN (n - 1) - 1 + 1 ELSE 0
      /\ \A i \in 1 .. (n - 1) - 1 + 1 : a[i] = q[1 + i - 1]
  <2>1. \A i \in 1 .. n - 1 : q[i] \in S
    BY <1>1
  <2> QED BY <2>1, SubSeqProperties
<1>3. /\ b \in Seq(S) /\ Len(b) = IF n + 1 <= N THEN N - (n + 1) + 1 ELSE 0
      /\ \A i \in 1 .. N - (n + 1) + 1 : b[i] = q[(n + 1) + i - 1]
  <2>1. \A i \in n + 1 .. N : q[i] \in S
    BY <1>1
  <2> QED BY <2>1, <1>1, SubSeqProperties
<1>4. /\ a \o b \in Seq(S) /\ Len(a \o b) = Len(a) + Len(b)
      /\ \A i \in 1 .. Len(a) + Len(b) :
           (a \o b)[i] = IF i <= Len(a) THEN a[i] ELSE b[i - Len(a)]
  BY Zenon, <1>2, <1>3, ConcatProperties
<1> HIDE DEF a, b, N
<1>5. n \in 1 .. N
  BY DEF N
<1>6. Len(a) = n - 1
  BY <1>2, <1>5
<1>7. Len(b) = N - n
  <2>1. CASE n + 1 <= N
    BY <1>1, <1>3, <1>5, <2>1
  <2>2. CASE ~(n + 1 <= N)
    <3>1. N = n
      BY <1>1, <1>5, <2>2
    <3>2. Len(b) = 0
      BY Zenon, <1>3, <2>2
    <3> QED BY <1>5, <3>1, <3>2
  <2> QED BY <2>1, <2>2
<1>8. Len(a) + Len(b) = N - 1
  BY <1>1, <1>5, <1>6, <1>7
<1>9. ASSUME NEW i \in 1 .. N - 1
       PROVE  (a \o b)[i] = IF i < n THEN q[i] ELSE q[i + 1]
  <2>1. CASE i < n
    <3>1. /\ i <= Len(a) /\ i \in 1 .. (n - 1) - 1 + 1 /\ 1 + i - 1 = i
          /\ i \in 1 .. Len(a) + Len(b)
      BY <1>5, <1>6, <1>8, <2>1
    <3>2. (a \o b)[i] = a[i] /\ a[i] = q[i]
      BY Zenon, <1>2, <1>4, <3>1
    <3> QED BY <2>1, <3>2
  <2>2. CASE ~(i < n)
    <3> DEFINE k == i - Len(a)
    <3>1. /\ ~(i <= Len(a)) /\ k \in 1 .. N - (n + 1) + 1 /\ (n + 1) + k - 1 = i + 1
          /\ i \in 1 .. Len(a) + Len(b)
      BY <1>1, <1>5, <1>6, <1>8, <2>2
    <3>2. (a \o b)[i] = b[k] /\ b[k] = q[i + 1]
      BY Zenon, <1>3, <1>4, <3>1
    <3> QED BY <2>2, <3>2
  <2> QED BY Zenon, <2>1, <2>2
<1> QED BY Zenon, <1>4, <1>8, <1>9 DEF N, a, b

\* In a sequence without repetitions an element has one place.
LEMMA WithoutIs ==
    ASSUME NEW S, NEW q \in Seq(S), Once(q), NEW n \in 1 .. Len(q)
    PROVE  Without(q, q[n]) = SubSeq(q, 1, n - 1) \o SubSeq(q, n + 1, Len(q))
<1>1. DOMAIN q = 1 .. Len(q)
  BY LenProperties
<1>2. (CHOOSE i \in DOMAIN q : q[i] = q[n]) = n
  BY <1>1 DEF Once
<1>3. q[n] \in Range(q)
  BY <1>1 DEF Range
<1> QED BY Zenon, <1>2, <1>3 DEF Without

LEMMA WithoutOnce ==
    ASSUME NEW S, NEW q \in Seq(S), NEW e, Once(q)
    PROVE  /\ Without(q, e) \in Seq(S) /\ Once(Without(q, e))
           /\ Range(Without(q, e)) = Range(q) \ {e}
<1>1. Len(q) \in Nat /\ DOMAIN q = 1 .. Len(q)
  BY LenProperties
<1>2. CASE e \notin Range(q)
  <2>1. Without(q, e) = q
    BY Zenon, <1>2 DEF Without
  <2> QED BY <1>2, <2>1
<1>3. CASE e \in Range(q)
  <2>1. PICK n \in 1 .. Len(q) : q[n] = e
    BY <1>1, <1>3 DEF Range
  <2> DEFINE p == Without(q, e)
             up(k) == IF k < n THEN k ELSE k + 1
  <2>2. /\ p \in Seq(S) /\ Len(p) = Len(q) - 1
        /\ \A i \in 1 .. Len(q) - 1 : p[i] = IF i < n THEN q[i] ELSE q[i + 1]
    <3>1. p = SubSeq(q, 1, n - 1) \o SubSeq(q, n + 1, Len(q))
      BY Zenon, <2>1, WithoutIs
    <3> HIDE DEF p
    <3> QED BY Zenon, <3>1, LeaveOut
  <2> HIDE DEF p
  <2>3. DOMAIN p = 1 .. Len(q) - 1
    BY <2>2, LenProperties
  <2>4. \A i, j \in 1 .. Len(q) : q[i] = q[j] => i = j
    BY <1>1 DEF Once
  <2>5. ASSUME NEW i \in 1 .. Len(q) - 1
        PROVE  p[i] = q[up(i)] /\ up(i) \in 1 .. Len(q) /\ up(i) # n
    BY <1>1, <2>1, <2>2
  <2>6. Once(p)
    <3> SUFFICES ASSUME NEW i \in 1 .. Len(q) - 1, NEW j \in 1 .. Len(q) - 1, p[i] = p[j]
                 PROVE  i = j
      BY <2>3 DEF Once
    <3>1. up(i) = up(j)
      BY Zenon, <2>4, <2>5
    <3> QED BY <1>1, <2>1, <3>1
  <2>7. ASSUME NEW x \in Range(p) PROVE x \in Range(q) /\ x # e
    <3>1. PICK i \in 1 .. Len(q) - 1 : x = p[i]
      BY <2>3 DEF Range
    <3> QED BY Zenon, <1>1, <2>1, <2>4, <2>5, <3>1 DEF Range
  <2>8. ASSUME NEW x \in Range(q), x # e PROVE x \in Range(p)
    <3>1. PICK i \in 1 .. Len(q) : x = q[i]
      BY <1>1 DEF Range
    <3>2. \E k \in 1 .. Len(q) - 1 : up(k) = i
      <4>1. i # n
        BY <2>1, <2>8, <3>1
      <4>2. CASE i < n
        BY <1>1, <2>1, <4>2
      <4>3. CASE n < i
        <5>1. i - 1 \in 1 .. Len(q) - 1 /\ up(i - 1) = i
          BY <1>1, <2>1, <4>3
        <5> QED BY <5>1
      <4> QED BY <2>1, <4>1, <4>2, <4>3
    <3> QED BY Zenon, <2>3, <2>5, <3>1, <3>2 DEF Range
  <2>9. Range(p) = Range(q) \ {e}
    BY Zenon, <2>7, <2>8
  <2> QED BY <2>2, <2>6, <2>9 DEF p
<1> QED BY <1>2, <1>3

-----------------------------------------------------------------------------
(* Queues.                                                                 *)

\* Putting a message at the end of a queue keeps the order, if it is not one
\* that needs sys.authed ahead of it or if sys.authed has been sent.
LEMMA AppendAhead ==
    ASSUME NEW q \in Seq(Msgs), NEW m \in Msgs, NEW taken \in BOOLEAN,
           Ahead(q, taken), m = "other" => taken \/ Has(q)
    PROVE  /\ Append(q, m) \in Seq(Msgs) /\ Len(Append(q, m)) = Len(q) + 1
           /\ Ahead(Append(q, m), taken)
           /\ Has(q) \/ m = "authed" => Has(Append(q, m))
<1> DEFINE p == Append(q, m)
<1>1. /\ p \in Seq(Msgs) /\ Len(p) = Len(q) + 1
      /\ \A i \in 1 .. Len(q) : p[i] = q[i]
      /\ p[Len(q) + 1] = m
  BY AppendProperties
<1> HIDE DEF p
<1>2. Len(q) \in Nat /\ DOMAIN q = 1 .. Len(q) /\ DOMAIN p = 1 .. Len(q) + 1
  BY <1>1, LenProperties
<1>3. Has(q) \/ m = "authed" => Has(p)
  BY <1>1, <1>2 DEF Has
<1>4. Ahead(p, taken)
  <2> SUFFICES ASSUME NEW i \in 1 .. Len(q) + 1, p[i] = "other", ~taken
               PROVE  \E j \in DOMAIN p : j < i /\ p[j] = "authed"
    BY <1>2 DEF Ahead
  <2>1. CASE i \in 1 .. Len(q)
    BY <2>1, <1>1, <1>2 DEF Ahead
  <2>2. CASE i = Len(q) + 1
    BY <2>2, <1>1, <1>2 DEF Has
  <2> QED BY <2>1, <2>2, <1>2
<1> QED BY <1>1, <1>3, <1>4 DEF p

\* Taking the first message out keeps the order.
LEMMA TailAhead ==
    ASSUME NEW q \in Seq(Msgs), q # <<>>, NEW taken \in BOOLEAN, Ahead(q, taken)
    PROVE  /\ Head(q) \in Msgs
           /\ Tail(q) \in Seq(Msgs) /\ Len(Tail(q)) = Len(q) - 1
           /\ Ahead(Tail(q), taken \/ Head(q) = "authed")
           /\ Has(q) => Head(q) = "authed" \/ Has(Tail(q))
           /\ Head(q) = "other" => taken
<1> DEFINE p == Tail(q)
<1>1. /\ Head(q) \in Msgs /\ p \in Seq(Msgs) /\ Len(p) = Len(q) - 1
      /\ Head(q) = q[1] /\ \A i \in 1 .. Len(p) : p[i] = q[i + 1]
  BY HeadTailProperties
<1> HIDE DEF p
<1>2. /\ Len(q) \in Nat /\ Len(q) # 0
      /\ DOMAIN q = 1 .. Len(q) /\ DOMAIN p = 1 .. Len(q) - 1
  BY <1>1, LenProperties, EmptySeq
<1>3. Has(q) => q[1] = "authed" \/ Has(p)
  <2> SUFFICES ASSUME NEW i \in 1 .. Len(q), q[i] = "authed", i # 1
               PROVE  Has(p)
    BY <1>2 DEF Has
  <2>1. i - 1 \in 1 .. Len(p) /\ p[i - 1] = "authed"
    BY <1>1, <1>2
  <2> QED BY <2>1, <1>1, <1>2 DEF Has
<1>4. Head(q) = "other" => taken
  BY <1>1, <1>2 DEF Ahead
<1>5. Ahead(p, taken \/ q[1] = "authed")
  <2> SUFFICES ASSUME NEW i \in 1 .. Len(q) - 1, p[i] = "other", ~taken,
                      q[1] # "authed"
               PROVE  \E j \in DOMAIN p : j < i /\ p[j] = "authed"
    BY <1>2 DEF Ahead
  <2>1. i + 1 \in 1 .. Len(q) /\ q[i + 1] = "other"
    BY <1>1, <1>2
  <2>2. PICK j \in 1 .. Len(q) : j < i + 1 /\ q[j] = "authed"
    BY <2>1, <1>2 DEF Ahead
  <2>3. j # 1 /\ j - 1 \in 1 .. Len(q) - 1 /\ j - 1 < i /\ p[j - 1] = "authed"
    BY <2>2, <1>1, <1>2
  <2> QED BY <2>3, <1>2
<1> QED BY <1>1, <1>3, <1>4, <1>5 DEF p

-----------------------------------------------------------------------------
(* Types.                                                                  *)

Places == {"new", "upgraded", "sending", "select", "writing", "publishing",
           "ended"}

LEMMA CapacityType == TypeOK => Capacity \in Nat \ {0}
BY SettingsAssumption DEF TypeOK, Capacity

LEMMA OfferType ==
    ASSUME TypeOK, NEW q \in Seq(Msgs), Len(q) <= Capacity, NEW m \in Msgs
    PROVE  Offer(q, m) \in Seq(Msgs) /\ Len(Offer(q, m)) <= Capacity
<1>1. /\ Append(q, m) \in Seq(Msgs) /\ Len(Append(q, m)) = Len(q) + 1
      /\ Len(q) \in Nat
  BY AppendProperties, LenProperties
<1>2. Capacity \in Nat
  BY CapacityType
<1>3. CASE Len(q) < Capacity
  BY <1>1, <1>2, <1>3 DEF Offer
<1>4. CASE ~(Len(q) < Capacity)
  BY Zenon, <1>4 DEF Offer
<1> QED BY <1>3, <1>4

LEMMA OfferToType ==
    ASSUME TypeOK, NEW S, NEW m \in Msgs
    PROVE  /\ OfferTo(S, m) \in [Sessions -> Seq(Msgs)]
           /\ \A s \in Sessions : Len(OfferTo(S, m)[s]) <= Capacity
<1>1. ASSUME NEW s \in Sessions
      PROVE  Offer(out[s], m) \in Seq(Msgs) /\ Len(Offer(out[s], m)) <= Capacity
  <2>1. out[s] \in Seq(Msgs) /\ Len(out[s]) <= Capacity
    BY Zenon DEF TypeOK
  <2> QED BY Zenon, <2>1, OfferType
<1>2. \A s \in Sessions : out[s] \in Seq(Msgs) /\ Len(out[s]) <= Capacity
  BY Zenon DEF TypeOK
<1> QED BY Zenon, <1>1, <1>2 DEF OfferTo

LEMMA TypeInit == Init => TypeOK
<1> SUFFICES ASSUME Init PROVE TypeOK
  OBVIOUS
<1>1. settings \in Settings /\ Capacity \in Nat
  BY SettingsAssumption DEF Init, Capacity
<1>2. Len(<<>>) = 0 /\ <<>> \in Seq(Msgs) /\ <<>> \in Seq(Sessions)
  BY EmptySeq
<1> QED BY <1>1, <1>2 DEF Init, TypeOK, Msgs

LEMMA SendType ==
    ASSUME TypeOK, NEW s \in Sessions, NEW m \in Msgs, NEW end, Send(s, m, end)
    PROVE  /\ pc' \in [Sessions -> Places]
           /\ held' \in [Sessions -> Msgs \cup {"none"}]
           /\ ends' \subseteq Sessions
BY Zenon DEF TypeOK, Send, Goto, Places

LEMMA BreakType ==
    ASSUME TypeOK, RegisteredOnce, NEW s \in Sessions, Break(s),
           UNCHANGED <<recips, draining, settings>>
    PROVE  TypeOK'
<1>1. registered' \in Seq(Sessions)
  BY Zenon, WithoutOnce DEF TypeOK, Break, RegisteredOnce
<1>2. Len(<<>>) = 0 /\ <<>> \in Seq(Msgs) /\ Capacity \in Nat /\ Capacity' = Capacity
  BY EmptySeq, CapacityType DEF Capacity
<1>3. pc' \in [Sessions -> Places] /\ held' \in [Sessions -> Msgs \cup {"none"}]
  BY Zenon DEF TypeOK, Break, Goto, Places
<1>4. out' \in [Sessions -> Seq(Msgs)]
  BY Zenon, <1>2 DEF TypeOK, Break
<1>5. \A x \in Sessions : Len(out'[x]) <= Capacity'
  BY <1>2 DEF TypeOK, Break
<1>6. wire' \in [Sessions -> SUBSET {"authed", "close"}]
  BY DEF TypeOK, Break
<1>7. ends' \cup active_room' \cup quiet' \cup in_room' \subseteq Sessions
  BY DEF TypeOK, Break
<1> QED BY Zenon, <1>1, <1>3, <1>4, <1>5, <1>6, <1>7 DEF TypeOK, Places

\* What the steps of the session s leave to a state that fits the types, when
\* they change neither the queues nor the registry.
LEMMA TypeSimple ==
    ASSUME TypeOK, UNCHANGED <<out, registered, wire, settings>>,
           pc' \in [Sessions -> Places], held' \in [Sessions -> Msgs \cup {"none"}],
           ends' \subseteq Sessions, recips' \in [Sessions -> SUBSET Sessions],
           active_room' \subseteq Sessions, quiet' \subseteq Sessions,
           in_room' \subseteq Sessions, draining' \in {"no", "yes", "told"}
    PROVE  TypeOK'
<1>1. \A s \in Sessions : Len(out'[s]) <= Capacity'
  BY Zenon DEF TypeOK, Capacity
<1>2. ends' \cup active_room' \cup quiet' \cup in_room' \subseteq Sessions
  BY Zenon
<1> QED BY Zenon, <1>1, <1>2 DEF TypeOK, Places

LEMMA TypeQueues ==
    ASSUME TypeOK, UNCHANGED <<recips, registered, wire, settings, active_room, in_room>>,
           out' \in [Sessions -> Seq(Msgs)],
           \A s \in Sessions : Len(out'[s]) <= Capacity,
           pc' \in [Sessions -> Places], held' \in [Sessions -> Msgs \cup {"none"}],
           ends' \subseteq Sessions, quiet' \subseteq Sessions,
           draining' \in {"no", "yes", "told"}
    PROVE  TypeOK'
<1>1. \A s \in Sessions : Len(out'[s]) <= Capacity'
  BY Zenon DEF Capacity
<1>2. ends' \cup active_room' \cup quiet' \cup in_room' \subseteq Sessions
  BY Zenon DEF TypeOK
<1> QED BY Zenon, <1>1, <1>2 DEF TypeOK, Places

LEMMA InsertType ==
    ASSUME TypeOK, NEW s \in Sessions, NEW others \in Seq(Sessions), Insert(s, others)
    PROVE  /\ pc' \in [Sessions -> Places]
           /\ held' \in [Sessions -> Msgs \cup {"none"}]
           /\ ends' \subseteq Sessions
           /\ registered' \in Seq(Sessions)
<1>1. Append(others, s) \in Seq(Sessions)
  BY AppendProperties
<1>2. CASE Send(s, "authed", FALSE) /\ registered' = Append(others, s)
  <2>1. "authed" \in Msgs
    BY DEF Msgs
  <2> QED BY Zenon, <1>1, <1>2, <2>1, SendType
<1>3. CASE registered' = others /\ Goto(s, "ended") /\ UNCHANGED <<held, ends>>
  BY Zenon, <1>3 DEF Goto, TypeOK, Places
<1> QED BY Zenon, <1>2, <1>3 DEF Insert

\* An eviction takes place only if somebody is registered.
LEMMA OverLimitNotEmpty ==
    ASSUME TypeOK, OverLimit
    PROVE  registered # <<>> /\ registered \in Seq(Sessions)
<1>1. settings.max_per_user \in Nat \ {0}
  BY SettingsAssumption DEF TypeOK
<1>2. registered = <<>> => Len(registered) = 0
  BY EmptySeq
<1>3. registered \in Seq(Sessions)
  BY Zenon DEF TypeOK
<1>4. Len(registered) >= settings.max_per_user
  BY Zenon DEF OverLimit
<1> QED BY <1>1, <1>2, <1>3, <1>4

LEMMA TypeAdmit ==
    ASSUME TypeOK, RegisteredOnce, NEW s \in Sessions, Admit(s) \/ AdmitKicking(s)
    PROVE  TypeOK'
<1>1. CASE Admit(s)
  <2>1. registered \in Seq(Sessions) /\ Insert(s, registered)
    BY Zenon, <1>1 DEF Admit, TypeOK
  <2>2. /\ pc' \in [Sessions -> Places] /\ held' \in [Sessions -> Msgs \cup {"none"}]
        /\ ends' \subseteq Sessions /\ registered' \in Seq(Sessions)
    BY Zenon, <2>1, InsertType
  <2>3. UNCHANGED <<recips, state, in_room, out, wire, draining, settings>>
    BY Zenon, <1>1 DEF Admit
  <2>4. \A x \in Sessions : Len(out'[x]) <= Capacity'
    BY Zenon, <2>3 DEF TypeOK, Capacity
  <2>5. ends' \cup active_room' \cup quiet' \cup in_room' \subseteq Sessions
    BY Zenon, <2>2, <2>3 DEF TypeOK, state
  <2> QED BY Zenon, <2>2, <2>3, <2>4, <2>5 DEF TypeOK, Places, state
<1>2. CASE AdmitKicking(s)
  <2> DEFINE v == Head(registered)
             q == Offer(Offer(out[v], "kicked"), "close")
  <2>1. registered # <<>> /\ registered \in Seq(Sessions)
    BY Zenon, <1>2, OverLimitNotEmpty DEF AdmitKicking
  <2>2. v \in Sessions /\ Tail(registered) \in Seq(Sessions)
    BY <2>1, HeadTailProperties
  <2>3. /\ Insert(s, Tail(registered)) /\ out' = [out EXCEPT ![v] = q]
        /\ in_room' = in_room \ {v}
        /\ UNCHANGED <<recips, state, wire, draining, settings>>
    BY Zenon, <1>2 DEF AdmitKicking
  <2>4. /\ pc' \in [Sessions -> Places] /\ held' \in [Sessions -> Msgs \cup {"none"}]
        /\ ends' \subseteq Sessions /\ registered' \in Seq(Sessions)
    BY Zenon, <2>2, <2>3, InsertType
  <2>5. q \in Seq(Msgs) /\ Len(q) <= Capacity
    <3>1. "kicked" \in Msgs /\ "close" \in Msgs
      BY DEF Msgs
    <3>2. out[v] \in Seq(Msgs) /\ Len(out[v]) <= Capacity
      BY Zenon, <2>2 DEF TypeOK
    <3> QED BY Zenon, <3>1, <3>2, OfferType
  <2> HIDE DEF q, v
  <2>6. out' \in [Sessions -> Seq(Msgs)] /\ \A x \in Sessions : Len(out'[x]) <= Capacity'
    BY Zenon, <2>2, <2>3, <2>5 DEF TypeOK, Capacity
  <2>7. ends' \cup active_room' \cup quiet' \cup in_room' \subseteq Sessions
    BY Zenon, <2>3, <2>4 DEF TypeOK, state
  <2> QED BY Zenon, <2>3, <2>4, <2>6, <2>7 DEF TypeOK, Places, state
<1> QED BY <1>1, <1>2

\* A message put in one queue that has room for it.
LEMMA AppendType ==
    ASSUME TypeOK, NEW r \in Sessions, NEW m \in Msgs, Len(out[r]) < Capacity,
           out' = [out EXCEPT ![r] = Append(@, m)]
    PROVE  /\ out' \in [Sessions -> Seq(Msgs)]
           /\ \A s \in Sessions : Len(out'[s]) <= Capacity
<1>1. out[r] \in Seq(Msgs) /\ Len(out[r]) <= Capacity
  BY Zenon DEF TypeOK
<1>2. Append(out[r], m) = Offer(out[r], m)
  BY Zenon DEF Offer
<1>3. Append(out[r], m) \in Seq(Msgs) /\ Len(Append(out[r], m)) <= Capacity
  BY Zenon, <1>1, <1>2, OfferType
<1> QED BY Zenon, <1>3 DEF TypeOK

LEMMA TypeLoop ==
    ASSUME LInv, NEW s \in Sessions,
           \/ SendCompletes(s) \/ RecvOut(s) \/ Write(s) \/ ReceiveClose(s)
           \/ Publish(s) \/ ReceiveHot(s)
    PROVE  TypeOK'
<1>0. /\ pc \in [Sessions -> Places] /\ held \in [Sessions -> Msgs \cup {"none"}]
      /\ ends \subseteq Sessions /\ recips \in [Sessions -> SUBSET Sessions]
      /\ active_room \subseteq Sessions /\ quiet \subseteq Sessions
      /\ in_room \subseteq Sessions /\ draining \in {"no", "yes", "told"}
      /\ out \in [Sessions -> Seq(Msgs)]
  BY Zenon DEF LInv, TypeOK, Places
<1>t. TypeOK /\ RegisteredOnce /\ QueueInv(s)
  BY Zenon DEF LInv
<1>m. "other" \in Msgs
  BY DEF Msgs
<1>b. ASSUME Break(s), UNCHANGED <<recips, draining, settings>> PROVE TypeOK'
  BY Zenon, <1>b, <1>t, BreakType
<1>1. CASE SendCompletes(s)
  <2>1. CASE s \in ends
    BY Zenon, <1>1, <1>b, <2>1 DEF SendCompletes
  <2>2. CASE s \notin ends
    <3>1. /\ pc[s] = "sending" /\ Len(out[s]) < Capacity
          /\ out' = [out EXCEPT ![s] = Append(@, held[s])]
          /\ held' = [held EXCEPT ![s] = "none"] /\ pc' = [pc EXCEPT ![s] = "select"]
          /\ UNCHANGED <<ends, state, core, wire, recips, draining, settings>>
      BY Zenon, <1>1, <2>2 DEF SendCompletes, Goto
    <3>2. held[s] \in Msgs
      BY <1>t, <3>1 DEF QueueInv, Msgs
    <3>3. /\ out' \in [Sessions -> Seq(Msgs)]
          /\ \A x \in Sessions : Len(out'[x]) <= Capacity
      BY Zenon, <1>t, <3>1, <3>2, AppendType
    <3>4. /\ pc' \in [Sessions -> Places]
          /\ held' \in [Sessions -> Msgs \cup {"none"}]
      BY Zenon, <1>0, <3>1 DEF Places
    <3>5. /\ UNCHANGED <<recips, registered, wire, settings, active_room, in_room>>
          /\ ends' \subseteq Sessions /\ quiet' \subseteq Sessions
          /\ draining' \in {"no", "yes", "told"}
      BY Zenon, <1>0, <3>1 DEF state, core
    <3> QED BY Zenon, <1>t, <3>3, <3>4, <3>5, TypeQueues
  <2> QED BY <2>1, <2>2
<1>2. CASE RecvOut(s)
  <2>1. /\ pc[s] = "select" /\ out[s] # <<>>
        /\ held' = [held EXCEPT ![s] = Head(out[s])]
        /\ out' = [out EXCEPT ![s] = Tail(@)] /\ pc' = [pc EXCEPT ![s] = "writing"]
        /\ UNCHANGED <<ends, recips, state, core, wire, draining, settings>>
    BY Zenon, <1>2 DEF RecvOut, Goto
  <2>2. out[s] \in Seq(Msgs) /\ Len(out[s]) <= Capacity /\ Capacity \in Nat
    BY <1>t, CapacityType DEF TypeOK
  <2>3. /\ Head(out[s]) \in Msgs /\ Tail(out[s]) \in Seq(Msgs)
        /\ Len(Tail(out[s])) = Len(out[s]) - 1 /\ Len(out[s]) \in Nat
    BY <2>1, <2>2, HeadTailProperties, LenProperties
  <2>4. Len(Tail(out[s])) <= Capacity
    BY <2>2, <2>3
  <2>5. /\ out' \in [Sessions -> Seq(Msgs)]
        /\ \A x \in Sessions : Len(out'[x]) <= Capacity
    BY Zenon, <1>t, <2>1, <2>3, <2>4 DEF TypeOK
  <2>6. pc' \in [Sessions -> Places] /\ held' \in [Sessions -> Msgs \cup {"none"}]
    BY Zenon, <1>0, <2>1, <2>3 DEF Places
  <2>7. /\ UNCHANGED <<recips, registered, wire, settings, active_room, in_room>>
        /\ ends' \subseteq Sessions /\ quiet' \subseteq Sessions
        /\ draining' \in {"no", "yes", "told"}
    BY Zenon, <1>0, <2>1 DEF state, core
  <2> QED BY Zenon, <1>t, <2>5, <2>6, <2>7, TypeQueues
<1>3. CASE Write(s)
  <2>1. CASE Break(s)
    BY Zenon, <1>3, <1>b, <2>1 DEF Write
  <2>2. CASE ~Break(s)
    <3>1. /\ wire' = IF "close" \in wire[s] THEN wire
                     ELSE [wire EXCEPT ![s] = @ \cup ({held[s]} \cap {"authed", "close"})]
          /\ held' = [held EXCEPT ![s] = "none"] /\ pc' = [pc EXCEPT ![s] = "select"]
          /\ UNCHANGED <<ends, state, core, out, recips, draining, settings>>
      BY Zenon, <1>3, <2>2 DEF Write, Goto
    <3>2. wire' \in [Sessions -> SUBSET {"authed", "close"}]
      BY <1>t, <3>1 DEF TypeOK
    <3>3. pc' \in [Sessions -> Places] /\ held' \in [Sessions -> Msgs \cup {"none"}]
      BY Zenon, <1>0, <3>1 DEF Places
    <3>4. \A x \in Sessions : Len(out'[x]) <= Capacity'
      BY Zenon, <1>t, <3>1 DEF TypeOK, Capacity
    <3> QED BY Zenon, <1>t, <3>1, <3>2, <3>3, <3>4 DEF TypeOK, Places, state, core
  <2> QED BY <2>1, <2>2
<1>4. CASE ReceiveClose(s)
  BY Zenon, <1>4, <1>b DEF ReceiveClose
<1>5. CASE Publish(s)
  <2>1. ASSUME NEW r \in Sessions, PublishTimeout(s, r) PROVE TypeOK'
    <3>1. recips' \in [Sessions -> SUBSET Sessions]
      BY Zenon, <1>0, <2>1 DEF PublishTimeout
    <3> QED BY Zenon, <1>0, <1>t, <2>1, <3>1, TypeSimple DEF PublishTimeout, state, core
  <2>2. ASSUME NEW r \in Sessions, PublishSend(s, r) PROVE TypeOK'
    <3>1. /\ out' \in [Sessions -> Seq(Msgs)]
          /\ \A x \in Sessions : Len(out'[x]) <= Capacity
      <4>1. CASE UNCHANGED out
        BY Zenon, <1>t, <4>1 DEF TypeOK
      <4>2. CASE Len(out[r]) < Capacity /\ out' = [out EXCEPT ![r] = Append(@, "other")]
        BY Zenon, <1>t, <1>m, <4>2, AppendType
      <4> QED BY Zenon, <2>2, <4>1, <4>2 DEF PublishSend
    <3>2. \A x \in Sessions : Len(out'[x]) <= Capacity'
      BY Zenon, <2>2, <3>1 DEF PublishSend, Capacity
    <3>3. recips' \in [Sessions -> SUBSET Sessions]
      BY Zenon, <1>0, <2>2 DEF PublishSend
    <3> QED BY Zenon, <1>t, <2>2, <3>1, <3>2, <3>3 DEF PublishSend, state, core, TypeOK
  <2>3. CASE PublishReturns(s)
    <3>1. pc' \in [Sessions -> Places]
      BY Zenon, <1>0, <2>3 DEF PublishReturns, Goto, Places
    <3> QED BY Zenon, <1>0, <1>t, <2>3, <3>1, TypeSimple DEF PublishReturns, state, core
  <2> QED BY Zenon, <1>5, <2>1, <2>2, <2>3 DEF Publish
<1>6. CASE ReceiveHot(s)
  <2>1. /\ quiet' = quiet \ {s}
        /\ UNCHANGED <<wire, draining, settings, recips, active_room, core>>
    BY Zenon, <1>6 DEF ReceiveHot, Receive
  <2>2. /\ pc' \in [Sessions -> Places] /\ held' \in [Sessions -> Msgs \cup {"none"}]
        /\ ends' \subseteq Sessions
    <3>1. Send(s, "other", FALSE) \/ UNCHANGED <<pc, held, ends>>
      BY Zenon, <1>6 DEF ReceiveHot, HotFails
    <3>2. CASE Send(s, "other", FALSE)
      BY Zenon, <1>t, <1>m, <3>2, SendType
    <3> QED BY Zenon, <1>0, <3>1, <3>2
  <2>3. /\ out' \in [Sessions -> Seq(Msgs)]
        /\ \A x \in Sessions : Len(out'[x]) <= Capacity
    <3>1. UNCHANGED out \/ \E S : out' = OfferTo(S, "other")
      BY Zenon, <1>6 DEF ReceiveHot
    <3>2. CASE UNCHANGED out
      BY Zenon, <1>t, <3>2 DEF TypeOK
    <3> QED BY Zenon, <1>t, <1>m, <3>1, <3>2, OfferToType
  <2>4. quiet' \subseteq Sessions
    BY <1>0, <2>1
  <2> QED BY Zenon, <1>0, <1>t, <2>1, <2>2, <2>3, <2>4, TypeQueues DEF core
<1> QED BY Zenon, <1>1, <1>2, <1>3, <1>4, <1>5, <1>6

\* The other steps.
LEMMA TypeTurns ==
    ASSUME TypeOK, NEW s \in Sessions,
           \/ Upgrade(s) \/ Refuse(s) \/ PingTick(s) \/ IdleTick(s) \/ TimePasses(s)
           \/ ReceiveIgnored(s) \/ ReceiveAnswered(s) \/ ReceiveFatal(s)
           \/ ReceiveJoin(s) \/ ReceiveLeave(s) \/ ReceiveChat(s)
    PROVE  TypeOK'
<1>0. /\ pc \in [Sessions -> Places] /\ held \in [Sessions -> Msgs \cup {"none"}]
      /\ ends \subseteq Sessions /\ recips \in [Sessions -> SUBSET Sessions]
      /\ active_room \subseteq Sessions /\ quiet \subseteq Sessions
      /\ in_room \subseteq Sessions /\ draining \in {"no", "yes", "told"}
  BY Zenon DEF TypeOK, Places
<1>m. "other" \in Msgs
  BY DEF Msgs
<1>s. ASSUME NEW end, Send(s, "other", end)
      PROVE  /\ pc' \in [Sessions -> Places]
             /\ held' \in [Sessions -> Msgs \cup {"none"}] /\ ends' \subseteq Sessions
  BY Zenon, <1>m, <1>s, SendType
<1>g. ASSUME NEW l \in Places, Goto(s, l) PROVE pc' \in [Sessions -> Places]
  BY Zenon, <1>0, <1>g DEF Goto
<1>p. "ended" \in Places /\ "upgraded" \in Places /\ "publishing" \in Places
  BY DEF Places
<1>1. CASE Upgrade(s)
  BY Zenon, <1>0, <1>1, <1>g, <1>p, TypeSimple DEF Upgrade, state, core
<1>2. CASE Refuse(s)
  BY Zenon, <1>0, <1>2, <1>g, <1>p, TypeSimple DEF Refuse, state, core
<1>3. CASE PingTick(s)
  BY Zenon, <1>0, <1>3, <1>s, TypeSimple DEF PingTick, state, core
<1>4. CASE IdleTick(s)
  BY Zenon, <1>0, <1>4, <1>s, TypeSimple DEF IdleTick, state, core
<1>5. CASE TimePasses(s)
  <2>1. quiet' \subseteq Sessions
    BY Zenon, <1>0, <1>5 DEF TimePasses
  <2> QED BY Zenon, <1>0, <1>5, <2>1, TypeSimple DEF TimePasses, task, core
<1>q. Receive(s) => quiet' \subseteq Sessions
  BY Zenon, <1>0 DEF Receive
<1>6. CASE ReceiveIgnored(s)
  BY Zenon, <1>0, <1>6, <1>q, TypeSimple DEF ReceiveIgnored, Receive, task, core
<1>7. CASE ReceiveAnswered(s)
  BY Zenon, <1>0, <1>7, <1>q, <1>s, TypeSimple DEF ReceiveAnswered, Receive, core
<1>8. CASE ReceiveFatal(s)
  BY Zenon, <1>0, <1>8, <1>q, <1>s, TypeSimple DEF ReceiveFatal, Receive, core
<1>9. CASE ReceiveJoin(s)
  <2>1. in_room' \subseteq Sessions /\ active_room' \subseteq Sessions
    BY Zenon, <1>0, <1>9 DEF ReceiveJoin
  <2>2. \E end : Send(s, "other", end)
    BY Zenon, <1>9 DEF ReceiveJoin
  <2> QED BY Zenon, <1>0, <1>9, <1>q, <1>s, <2>1, <2>2, TypeSimple DEF ReceiveJoin, Receive
<1>10. CASE ReceiveLeave(s)
  <2>1. in_room' \subseteq Sessions /\ active_room' \subseteq Sessions
    BY Zenon, <1>0, <1>10 DEF ReceiveLeave
  <2> QED BY Zenon, <1>0, <1>10, <1>q, <1>s, <2>1, TypeSimple DEF ReceiveLeave, Receive
<1>11. CASE ReceiveChat(s)
  <2>1. recips' \in [Sessions -> SUBSET Sessions]
    BY Zenon, <1>0, <1>11 DEF ReceiveChat, Recipients
  <2> QED BY Zenon, <1>0, <1>11, <1>q, <1>g, <1>p, <2>1, TypeSimple DEF ReceiveChat, Receive, core
<1> QED BY Zenon, <1>1, <1>2, <1>3, <1>4, <1>5, <1>6, <1>7, <1>8, <1>9, <1>10, <1>11

-----------------------------------------------------------------------------
(* Where a task can go.                                                    *)

\* The steps of the session s.
Step(s) ==
    \/ Upgrade(s) \/ Refuse(s) \/ Admit(s) \/ AdmitKicking(s)
    \/ SendCompletes(s) \/ RecvOut(s) \/ Write(s)
    \/ PingTick(s) \/ IdleTick(s) \/ TimePasses(s)
    \/ ReceiveIgnored(s) \/ ReceiveAnswered(s) \/ ReceiveFatal(s)
    \/ ReceiveClose(s) \/ ReceiveJoin(s) \/ ReceiveLeave(s)
    \/ ReceiveChat(s) \/ ReceiveHot(s) \/ Publish(s)

\* The task of s goes on in its loop, or stays where it is.
Turns(s) ==
    \/ pc'[s] = pc[s] /\ held'[s] = held[s]
    \/ pc[s] = "select" /\ pc'[s] \in {"writing", "publishing"}
    \/ pc[s] = "select" /\ pc'[s] = "sending" /\ held'[s] = "other"
    \/ pc[s] \in {"sending", "writing", "publishing"} /\ pc'[s] = "select"

Enters(s) ==
    \/ Upgrade(s) /\ pc[s] = "new" /\ pc'[s] \in {"upgraded", "ended"}
    \/ pc[s] = "upgraded" /\ pc'[s] = "ended"
    \/ pc[s] = "upgraded" /\ pc'[s] = "sending" /\ held'[s] = "authed"

LEMMA TaskFlow ==
    ASSUME TypeOK, NEW s \in Sessions, Step(s)
    PROVE  /\ \A x \in Sessions \ {s} : pc'[x] = pc[x] /\ held'[x] = held[x]
           /\ Break(s) \/ Turns(s) \/ Enters(s)
<1>0. pc \in [Sessions -> Places] /\ held \in [Sessions -> Msgs \cup {"none"}]
  BY Zenon DEF TypeOK, Places
<1> DEFINE Others == \A x \in Sessions \ {s} : pc'[x] = pc[x] /\ held'[x] = held[x]
<1>b. Break(s) => Others
  BY Zenon, <1>0 DEF Break, Goto
<1>s. ASSUME NEW m, NEW end, Send(s, m, end)
      PROVE  Others /\ pc'[s] = "sending" /\ held'[s] = m
  BY Zenon, <1>0, <1>s DEF Send, Goto
<1>g. ASSUME NEW l, Goto(s, l) PROVE pc'[s] = l /\ \A x \in Sessions \ {s} : pc'[x] = pc[x]
  BY Zenon, <1>0, <1>g DEF Goto
<1>h. ASSUME NEW m, held' = [held EXCEPT ![s] = m]
      PROVE  held'[s] = m /\ \A x \in Sessions \ {s} : held'[x] = held[x]
  BY Zenon, <1>0, <1>h
<1>1. CASE Upgrade(s) \/ Refuse(s)
  BY <1>1, <1>g DEF Upgrade, Refuse, Enters
<1>2. CASE Admit(s) \/ AdmitKicking(s)
  <2>1. pc[s] = "upgraded" /\ \E q : Insert(s, q)
    BY Zenon, <1>2 DEF Admit, AdmitKicking
  <2>2. \/ Send(s, "authed", FALSE)
        \/ Goto(s, "ended") /\ UNCHANGED held
    BY Zenon, <2>1 DEF Insert
  <2> QED BY Zenon, <2>1, <2>2, <1>g, <1>s DEF Enters
<1>3. CASE SendCompletes(s)
  BY SMTT(60), <1>3, <1>b, <1>g, <1>h DEF SendCompletes, Turns
<1>4. CASE RecvOut(s)
  BY <1>4, <1>g, <1>h DEF RecvOut, Turns
<1>5. CASE Write(s)
  BY <1>5, <1>b, <1>g, <1>h DEF Write, Turns
<1>6. CASE PingTick(s) \/ IdleTick(s)
  BY Zenon, <1>6, <1>s DEF PingTick, IdleTick, Turns
<1>7. CASE TimePasses(s) \/ ReceiveIgnored(s)
  BY <1>7 DEF TimePasses, ReceiveIgnored, task, Turns
<1>8. CASE ReceiveAnswered(s) \/ ReceiveFatal(s)
  BY Zenon, <1>8, <1>s DEF ReceiveAnswered, ReceiveFatal, Receive, Turns
<1>9. CASE ReceiveClose(s)
  BY Zenon, <1>9, <1>b DEF ReceiveClose
<1>10. CASE ReceiveJoin(s) \/ ReceiveLeave(s)
  <2>1. pc[s] = "select" /\ Send(s, "other", FALSE)
    BY Zenon, <1>10 DEF ReceiveJoin, ReceiveLeave, Receive
  <2> QED BY Zenon, <2>1, <1>s DEF Turns
<1>11. CASE ReceiveChat(s)
  BY <1>11, <1>g DEF ReceiveChat, Receive, Turns
<1>12. CASE ReceiveHot(s)
  <2>1. pc[s] = "select" /\ (Send(s, "other", FALSE) \/ UNCHANGED <<pc, held>>)
    BY Zenon, <1>12 DEF ReceiveHot, HotFails, Receive
  <2> QED BY Zenon, <2>1, <1>s DEF Turns
<1>13. CASE Publish(s)
  BY <1>13, <1>g DEF Publish, PublishSend, PublishTimeout, PublishReturns, Turns
<1> QED
  BY Zenon, <1>1, <1>2, <1>3, <1>4, <1>5, <1>6, <1>7, <1>8, <1>9, <1>10, <1>11,
     <1>12, <1>13 DEF Step

\* A loop that runs goes on until it is left, and a task that has ended stays so.
LEMMA LoopFlow ==
    ASSUME TypeOK, NEW s \in Sessions, Step(s), NEW x \in Sessions
    PROVE  /\ InLoop(x) => InLoop(x)' \/ (x = s /\ Break(s))
           /\ Started(x) => Started(x)' \/ (x = s /\ Break(s))
           /\ pc[x] = "ended" => pc'[x] = "ended"
<1>0. pc \in [Sessions -> Places]
  BY Zenon DEF TypeOK, Places
<1>1. CASE x # s
  <2>1. pc'[x] = pc[x] /\ held'[x] = held[x]
    BY Zenon, <1>1, TaskFlow
  <2> QED BY Zenon, <2>1 DEF InLoop, Started
<1>2. CASE x = s
  <2>1. CASE Break(s)
    <3>1. pc'[s] = "ended"
      BY Zenon, <1>0, <2>1 DEF Break, Goto
    <3> QED BY Zenon, <1>2, <2>1, <3>1
  <2>2. CASE Turns(s)
    BY <1>2, <2>2 DEF Turns, InLoop, Started
  <2>3. CASE Enters(s)
    BY <1>2, <2>3 DEF Enters, InLoop, Started
  <2> QED BY Zenon, <2>1, <2>2, <2>3, TaskFlow
<1> QED BY <1>1, <1>2

-----------------------------------------------------------------------------
(* The registry and the room.                                              *)

\* Which sessions a step adds to the registry and which it removes.
LEMMA RegistryFlow ==
    ASSUME LInv, NEW s \in Sessions, Step(s)
    PROVE  /\ Once(registered')
           /\ Registered' \subseteq Registered \cup {s}
           /\ s \in Registered' \ Registered => pc[s] = "upgraded" /\ pc'[s] = "sending"
           /\ Break(s) => s \notin Registered'
           /\ AdmitKicking(s) => Head(registered) \in Registered \ Registered'
<1>0. /\ TypeOK /\ Once(registered) /\ registered \in Seq(Sessions)
      /\ \A x \in Registered : Started(x)
  BY Zenon DEF LInv, TypeOK, RegisteredOnce
<1>b. Break(s) => Once(registered') /\ Registered' = Registered \ {s}
  <2> DEFINE q == Without(registered, s)
  <2>1. Once(q) /\ Range(q) = Range(registered) \ {s}
    BY Zenon, <1>0, WithoutOnce
  <2>2. Break(s) => registered' = q
    BY Zenon DEF Break
  <2> HIDE DEF q
  <2> QED BY Zenon, <2>1, <2>2 DEF Registered
<1>n. Started(s) => pc[s] # "upgraded"
  BY DEF Started
<1>i. ASSUME NEW others \in Seq(Sessions), Once(others), Insert(s, others),
             Range(others) \subseteq Registered, pc[s] = "upgraded"
      PROVE  /\ Once(registered') /\ Registered' \subseteq Range(others) \cup {s}
             /\ s \in Registered' => pc'[s] = "sending"
  <2>1. s \notin Range(others)
    BY Zenon, <1>0, <1>i, <1>n
  <2>2. CASE registered' = Append(others, s) /\ Send(s, "authed", FALSE)
    <3>1. Once(registered') /\ Registered' = Range(others) \cup {s}
      <4> DEFINE q == Append(others, s)
      <4>1. Once(q) /\ Range(q) = Range(others) \cup {s}
        BY <1>i, <2>1, AppendOnce
      <4>2. registered' = q
        BY Zenon, <2>2
      <4> HIDE DEF q
      <4> QED BY Zenon, <4>1, <4>2 DEF Registered
    <3>2. pc'[s] = "sending"
      BY <1>0, <2>2 DEF Send, Goto, TypeOK
    <3> QED BY Zenon, <3>1, <3>2
  <2>3. CASE registered' = others
    <3>1. Registered' = Range(others)
      BY Zenon, <2>3 DEF Registered
    <3> QED BY Zenon, <1>i, <2>1, <2>3, <3>1
  <2> QED BY Zenon, <1>i, <2>2, <2>3 DEF Insert
<1>1. CASE Admit(s)
  <2>1. pc[s] = "upgraded" /\ Insert(s, registered)
    BY Zenon, <1>1 DEF Admit
  <2>2. Range(registered) = Registered
    BY Zenon DEF Registered
  <2>3. ~AdmitKicking(s)
    BY Zenon, <1>1 DEF Admit, AdmitKicking
  <2> QED BY Zenon, <1>0, <1>b, <1>i, <2>1, <2>2, <2>3
<1>2. CASE AdmitKicking(s)
  <2>1. pc[s] = "upgraded" /\ Insert(s, Tail(registered)) /\ registered # <<>>
    BY Zenon, <1>0, <1>2, OverLimitNotEmpty DEF AdmitKicking
  <2>2. /\ Tail(registered) \in Seq(Sessions) /\ Once(Tail(registered))
        /\ Head(registered) \in Registered
        /\ Range(Tail(registered)) = Registered \ {Head(registered)}
    BY Zenon, <1>0, <2>1, TailOnce DEF Registered
  <2>3. Head(registered) # s
    BY Zenon, <1>0, <1>n, <2>1, <2>2
  <2>4. /\ Once(registered') /\ Registered' \subseteq Range(Tail(registered)) \cup {s}
        /\ s \in Registered' => pc'[s] = "sending"
    <3>1. Range(Tail(registered)) \subseteq Registered
      BY Zenon, <2>2
    <3> QED BY Zenon, <1>i, <2>1, <2>2, <3>1
  <2> QED BY Zenon, <1>b, <2>1, <2>2, <2>3, <2>4
<1>3. CASE Break(s)
  BY Zenon, <1>2, <1>3, <1>b
<1>4. CASE UNCHANGED registered /\ ~AdmitKicking(s)
  BY Zenon, <1>0, <1>4, <1>b DEF Registered
<1> QED
  BY Zenon, <1>1, <1>2, <1>3, <1>4 DEF Step, Upgrade, Refuse, SendCompletes, RecvOut,
     Write, PingTick, IdleTick, TimePasses, ReceiveIgnored, ReceiveAnswered,
     ReceiveFatal, ReceiveClose, ReceiveJoin, ReceiveLeave, ReceiveChat, ReceiveHot,
     Publish, PublishSend, PublishTimeout, PublishReturns, core

LEMMA RegisteredOnceNext ==
    ASSUME LInv, NEW s \in Sessions, Step(s)
    PROVE  RegisteredOnce'
<1>1. ASSUME NEW x \in Registered' PROVE Started(x)'
  <2>1. CASE x \in Registered
    <3>1. Started(x) /\ x \in Sessions /\ TypeOK
      BY Zenon, <2>1, SetOfSeq DEF LInv, RegisteredOnce, TypeOK, Registered
    <3> QED BY Zenon, <1>1, <3>1, LoopFlow, RegistryFlow
  <2>2. CASE x \notin Registered
    <3>1. pc'[x] = "sending"
      BY Zenon, <1>1, <2>2, RegistryFlow
    <3> QED BY <3>1 DEF Started
  <2> QED BY <2>1, <2>2
<1> QED BY Zenon, <1>1, RegistryFlow DEF RegisteredOnce

\* What a step does to the room and to what publications wait for.
LEMMA RoomFlow ==
    ASSUME LInv, NEW s \in Sessions, Step(s)
    PROVE  /\ \A x \in in_room' \cup active_room' :
                \/ x \in in_room \cup active_room
                \/ /\ x = s /\ pc[s] = "select"
                   /\ pc'[s] = "sending" /\ held'[s] = "other"
           /\ \A x, t \in Sessions : x \in recips'[t] =>
                x \in recips[t] \/ x \in in_room \cap Registered
           /\ Break(s) => s \notin in_room' \cup active_room'
<1>0. /\ pc \in [Sessions -> Places] /\ held \in [Sessions -> Msgs \cup {"none"}]
      /\ recips \in [Sessions -> SUBSET Sessions]
  BY Zenon DEF LInv, TypeOK, Places
<1>1. CASE ReceiveJoin(s)
  <2>1. pc[s] = "select" /\ pc'[s] = "sending" /\ held'[s] = "other"
    <3>1. pc[s] = "select" /\ Send(s, "other", FALSE)
      BY Zenon, <1>1 DEF ReceiveJoin, Receive
    <3> QED BY Zenon, <1>0, <3>1 DEF Send, Goto
  <2> QED BY Zenon, <1>1, <2>1 DEF ReceiveJoin, Break
<1>2. CASE ReceiveChat(s)
  BY Zenon, <1>0, <1>2 DEF ReceiveChat, Recipients, core, Break
<1>3. CASE Publish(s)
  BY Zenon, <1>0, <1>3 DEF Publish, PublishSend, PublishTimeout, PublishReturns, state,
     core, Break
<1>4. CASE UNCHANGED recips /\ in_room' \subseteq in_room /\ active_room' \subseteq active_room
  BY Zenon, <1>4 DEF Break
<1> QED
  <2>1. ASSUME Step(s), ~ReceiveJoin(s), ~ReceiveChat(s), ~Publish(s)
        PROVE  UNCHANGED recips /\ in_room' \subseteq in_room
               /\ active_room' \subseteq active_room
    BY Zenon, <2>1 DEF Step, Upgrade, Refuse, Admit, AdmitKicking, SendCompletes,
       RecvOut, Write, PingTick, IdleTick, TimePasses, ReceiveIgnored,
       ReceiveAnswered, ReceiveFatal, ReceiveClose, ReceiveLeave, ReceiveHot, Break,
       state, core, task
  <2> QED BY Zenon, <1>1, <1>2, <1>3, <1>4, <2>1

LEMMA ReachedNext ==
    ASSUME LInv, NEW s \in Sessions, Step(s)
    PROVE  ReachedInLoop'
<1>0. TypeOK /\ ReachedInLoop
  BY Zenon DEF LInv
<1>b. Break(s) => pc'[s] = "ended"
  BY <1>0 DEF Break, Goto, TypeOK
<1>1. ASSUME NEW x \in Sessions, x \in in_room' \cup active_room' PROVE InLoop(x)'
  <2>1. CASE x \in in_room \cup active_room
    BY Zenon, <1>0, <1>1, <2>1, RoomFlow, LoopFlow DEF ReachedInLoop
  <2>2. CASE x = s /\ pc'[s] = "sending" /\ held'[s] = "other"
    BY Zenon, <2>2 DEF InLoop
  <2> QED BY Zenon, <1>1, <2>1, <2>2, RoomFlow
<1>2. ASSUME NEW x \in Sessions, NEW t \in Sessions, x \in recips'[t]
      PROVE  InLoop(x)' \/ pc'[x] = "ended"
  <2>1. InLoop(x) \/ pc[x] = "ended"
    BY Zenon, <1>0, <1>2, RoomFlow DEF ReachedInLoop
  <2> QED BY Zenon, <1>0, <1>b, <2>1, LoopFlow
<1> QED BY Zenon, <1>1, <1>2 DEF ReachedInLoop

LEMMA ActiveRoomNext ==
    ASSUME LInv, NEW s \in Sessions, Step(s)
    PROVE  ActiveRoomIsJoined'
<1>0. TypeOK /\ ReachedInLoop /\ ActiveRoomIsJoined /\ active_room \cup in_room \subseteq Sessions
  BY Zenon DEF LInv, TypeOK
<1> SUFFICES ASSUME NEW x \in active_room', x \in Registered'
             PROVE  x \in in_room'
  BY Zenon DEF ActiveRoomIsJoined
<1>1. x \in Registered
  <2> SUFFICES ASSUME x \notin Registered PROVE FALSE
    OBVIOUS
  <2>1. x = s /\ pc[s] = "upgraded"
    BY Zenon, RegistryFlow
  <2>2. s \in in_room \cup active_room
    BY Zenon, <2>1, RoomFlow
  <2>3. InLoop(s)
    BY Zenon, <1>0, <2>2 DEF ReachedInLoop
  <2> QED BY Zenon, <2>1, <2>3 DEF InLoop
<1>2. x \in active_room => x \in in_room
  BY Zenon, <1>0, <1>1 DEF ActiveRoomIsJoined
<1>3. CASE ReceiveJoin(s)
  BY Zenon, <1>2, <1>3 DEF ReceiveJoin
<1>4. CASE ReceiveLeave(s)
  BY Zenon, <1>2, <1>4 DEF ReceiveLeave
<1>5. CASE AdmitKicking(s)
  <2>1. x # Head(registered)
    BY Zenon, <1>5, RegistryFlow
  <2> QED BY Zenon, <1>2, <1>5, <2>1 DEF AdmitKicking, state
<1>6. CASE Break(s)
  <2>1. x # s
    BY Zenon, <1>6, RegistryFlow
  <2> QED BY Zenon, <1>2, <1>6, <2>1 DEF Break
<1>7. CASE UNCHANGED <<in_room, active_room>>
  BY Zenon, <1>2, <1>7
<1> QED
  BY Zenon, <1>3, <1>4, <1>5, <1>6, <1>7 DEF Step, Upgrade, Refuse, Admit, SendCompletes,
     RecvOut, Write, PingTick, IdleTick, TimePasses, ReceiveIgnored, ReceiveAnswered,
     ReceiveFatal, ReceiveClose, ReceiveChat, ReceiveHot, Publish, PublishSend,
     PublishTimeout, PublishReturns, state, core

-----------------------------------------------------------------------------
(* The queues.                                                             *)

LEMMA OfferAhead ==
    ASSUME NEW q \in Seq(Msgs), NEW m \in Msgs, NEW taken \in BOOLEAN,
           Ahead(q, taken), m = "other" => taken \/ Has(q)
    PROVE  /\ Offer(q, m) \in Seq(Msgs) /\ Ahead(Offer(q, m), taken)
           /\ Has(q) => Has(Offer(q, m))
<1>1. Offer(q, m) = q \/ Offer(q, m) = Append(q, m)
  BY Zenon DEF Offer
<1>2. CASE Offer(q, m) = q
  BY Zenon, <1>2
<1>3. CASE Offer(q, m) = Append(q, m)
  <2>1. /\ Append(q, m) \in Seq(Msgs) /\ Ahead(Append(q, m), taken)
        /\ Has(q) => Has(Append(q, m))
    BY AppendAhead
  <2> QED BY <1>3, <2>1
<1> QED BY <1>1, <1>2, <1>3

\* Messages that other tasks put in the queue of x.
LEMMA QueueGrows ==
    ASSUME NEW x \in Sessions, QueueInv(x),
           pc'[x] = pc[x], held'[x] = held[x], wire'[x] = wire[x],
           Ahead(out'[x], AuthedTaken(x)), Has(out[x]) => Has(out'[x])
    PROVE  QueueInv(x)'
<1>1. AuthedTaken(x)' = AuthedTaken(x) /\ InLoop(x)' = InLoop(x)
  BY DEF AuthedTaken, InLoop
<1>2. Ahead(out[x], AuthedTaken(x))'
  BY <1>1
<1>3. InLoop(x)' => Greeted(x)'
  BY <1>1 DEF QueueInv, Greeted
<1> QED BY Zenon, <1>2, <1>3 DEF QueueInv

LEMMA QueueSame ==
    ASSUME NEW x \in Sessions, QueueInv(x),
           pc'[x] = pc[x], held'[x] = held[x], wire'[x] = wire[x], out'[x] = out[x]
    PROVE  QueueInv(x)'
<1>1. Ahead(out'[x], AuthedTaken(x)) /\ (Has(out[x]) => Has(out'[x]))
  BY DEF QueueInv
<1> QED BY Zenon, <1>1, QueueGrows

\* A turn of the task of s that neither starts nor ends a write and leaves its
\* queue alone.
LEMMA QueueTurn ==
    ASSUME NEW s \in Sessions, QueueInv(s), wire'[s] = wire[s], out'[s] = out[s],
           pc[s] # "writing", pc'[s] # "writing", InLoop(s)' => InLoop(s),
           pc'[s] = "sending" => held'[s] \in {"authed", "other"}
    PROVE  QueueInv(s)'
<1>1. AuthedTaken(s)' = AuthedTaken(s)
  BY DEF AuthedTaken
<1>2. Ahead(out[s], AuthedTaken(s))'
  BY <1>1 DEF QueueInv
<1>3. Greeted(s)' = Greeted(s)
  BY <1>1 DEF Greeted
<1> QED BY <1>2, <1>3 DEF QueueInv

LEMMA QueueBreak ==
    ASSUME TypeOK, NEW s \in Sessions, Break(s) PROVE QueueInv(s)'
<1>1. out'[s] = <<>> /\ pc'[s] = "ended"
  BY DEF Break, Goto, TypeOK
<1>2. DOMAIN <<>> = {}
  OBVIOUS
<1>3. Ahead(out[s], AuthedTaken(s))'
  BY <1>1, <1>2 DEF Ahead
<1> QED BY <1>1, <1>3 DEF QueueInv, InLoop

\* The steps of the task of s that are about its own queue.
LEMMA QueueOwn ==
    ASSUME LInv, NEW s \in Sessions, SendCompletes(s) \/ RecvOut(s) \/ Write(s)
    PROVE  QueueInv(s)'
<1>0. /\ TypeOK /\ QueueInv(s) /\ out[s] \in Seq(Msgs) /\ Ahead(out[s], AuthedTaken(s))
      /\ AuthedTaken(s) \in BOOLEAN
  BY Zenon DEF LInv, TypeOK, QueueInv, AuthedTaken
<1>t. /\ pc \in [Sessions -> Places] /\ held \in [Sessions -> Msgs \cup {"none"}]
      /\ wire \in [Sessions -> SUBSET {"authed", "close"}]
      /\ out \in [Sessions -> Seq(Msgs)]
  BY Zenon, <1>0 DEF TypeOK, Places
<1>b. Break(s) => QueueInv(s)'
  BY Zenon, <1>0, QueueBreak
<1>1. CASE SendCompletes(s) /\ ~Break(s)
  <2>1. /\ pc[s] = "sending" /\ pc'[s] = "select" /\ wire'[s] = wire[s]
        /\ out'[s] = Append(out[s], held[s])
    BY <1>1, <1>t DEF SendCompletes, Goto
  <2>2. held[s] \in {"authed", "other"} /\ held[s] \in Msgs
    BY <1>0, <2>1 DEF QueueInv, Msgs
  <2>3. held[s] = "other" => Greeted(s)
    BY Zenon, <1>0, <2>1 DEF QueueInv, InLoop
  <2>4. /\ Ahead(Append(out[s], held[s]), AuthedTaken(s))
        /\ Has(out[s]) \/ held[s] = "authed" => Has(Append(out[s], held[s]))
    BY <1>0, <2>2, <2>3, AppendAhead DEF Greeted
  <2>5. AuthedTaken(s)' = AuthedTaken(s)
    BY <2>1 DEF AuthedTaken
  <2>6. Ahead(out[s], AuthedTaken(s))'
    BY <2>1, <2>4, <2>5
  <2>7. Greeted(s)'
    BY <2>1, <2>2, <2>3, <2>4, <2>5 DEF Greeted
  <2> QED BY <2>1, <2>6, <2>7 DEF QueueInv
<1>2. CASE RecvOut(s)
  <2>1. /\ pc[s] = "select" /\ out[s] # <<>> /\ pc'[s] = "writing"
        /\ wire'[s] = wire[s] /\ out'[s] = Tail(out[s]) /\ held'[s] = Head(out[s])
    BY <1>2, <1>t DEF RecvOut, Goto
  <2>2. /\ Ahead(Tail(out[s]), AuthedTaken(s) \/ Head(out[s]) = "authed")
        /\ Has(out[s]) => Head(out[s]) = "authed" \/ Has(Tail(out[s]))
        /\ Head(out[s]) = "other" => AuthedTaken(s)
    BY <1>0, <2>1, TailAhead
  <2>3. /\ AuthedTaken(s)' = (AuthedTaken(s) \/ Head(out[s]) = "authed")
        /\ AuthedTaken(s) => wire'[s] # {}
    BY <2>1 DEF AuthedTaken
  <2>4. Ahead(out[s], AuthedTaken(s))'
    BY <2>1, <2>2, <2>3
  <2>5. Greeted(s)
    BY Zenon, <1>0, <2>1 DEF QueueInv, InLoop
  <2>6. Greeted(s)'
    BY Zenon, <2>1, <2>2, <2>3, <2>5 DEF Greeted
  <2> QED BY <2>1, <2>2, <2>3, <2>4, <2>6 DEF QueueInv
<1>3. CASE Write(s) /\ ~Break(s)
  <2>1. /\ pc[s] = "writing" /\ pc'[s] = "select" /\ out'[s] = out[s]
        /\ wire'[s] = IF "close" \in wire[s] THEN wire[s]
                      ELSE wire[s] \cup ({held[s]} \cap {"authed", "close"})
    BY <1>3, <1>t DEF Write, Goto
  <2>2. wire[s] # {} \/ held[s] = "authed" => wire'[s] # {}
    BY Zenon, <2>1
  <2>3. AuthedTaken(s) => AuthedTaken(s)'
    BY Zenon, <2>2 DEF AuthedTaken
  <2>4. Ahead(out[s], AuthedTaken(s))'
    <3>1. Ahead(out[s], AuthedTaken(s)) /\ out'[s] = out[s]
      BY Zenon, <1>0, <2>1
    <3> QED BY Zenon, <3>1, <2>3 DEF Ahead
  <2>5. Greeted(s)'
    BY <1>0, <2>1, <2>3 DEF QueueInv, InLoop, Greeted
  <2> QED BY <2>1, <2>4, <2>5 DEF QueueInv
<1> QED BY Zenon, <1>1, <1>2, <1>3, <1>b

\* A message for sessions that have been greeted already.
LEMMA QueueOffered ==
    ASSUME LInv, NEW x \in Sessions, NEW m \in Msgs, m = "other" => Greeted(x)
    PROVE  /\ Ahead(Offer(out[x], m), AuthedTaken(x))
           /\ Has(out[x]) => Has(Offer(out[x], m))
           /\ Offer(out[x], m) \in Seq(Msgs)
<1>1. /\ out[x] \in Seq(Msgs) /\ Ahead(out[x], AuthedTaken(x))
      /\ AuthedTaken(x) \in BOOLEAN
  BY Zenon DEF LInv, TypeOK, QueueInv, AuthedTaken
<1> QED BY Zenon, <1>1, OfferAhead DEF Greeted

\* Sessions that are in the room or picked by a publication have been greeted,
\* or have ended.
LEMMA ReachedAreGreeted ==
    ASSUME LInv, NEW x \in Sessions,
           \/ x \in in_room
           \/ pc[x] = "select"
           \/ Started(x) /\ \E t \in Sessions : x \in recips[t]
    PROVE  Greeted(x)
<1>1. ReachedInLoop /\ QueueInv(x)
  BY Zenon DEF LInv
<1>2. InLoop(x)
  BY <1>1 DEF ReachedInLoop, InLoop, Started
<1> QED BY Zenon, <1>1, <1>2 DEF QueueInv

LEMMA QueueNext ==
    ASSUME LInv, NEW s \in Sessions, Step(s), NEW x \in Sessions
    PROVE  QueueInv(x)'
<1>0. TypeOK /\ QueueInv(x)
  BY Zenon DEF LInv
<1>t. /\ pc \in [Sessions -> Places] /\ held \in [Sessions -> Msgs \cup {"none"}]
      /\ wire \in [Sessions -> SUBSET {"authed", "close"}]
      /\ out \in [Sessions -> Seq(Msgs)]
  BY Zenon, <1>0 DEF TypeOK, Places
<1>m. "other" \in Msgs /\ "kicked" \in Msgs /\ "close" \in Msgs
      /\ "kicked" # "other" /\ "close" # "other"
  BY DEF Msgs
<1>o. x # s => pc'[x] = pc[x] /\ held'[x] = held[x]
  BY Zenon, <1>0, TaskFlow
<1>b. Break(s) => QueueInv(x)'
  <2>1. CASE x = s
    BY Zenon, <1>0, <2>1, QueueBreak
  <2>2. CASE x # s
    BY Zenon, <1>0, <1>t, <1>o, <2>2, QueueSame DEF Break
  <2> QED BY <2>1, <2>2
<1>1. CASE SendCompletes(s) \/ RecvOut(s) \/ Write(s)
  <2>1. CASE x = s
    BY Zenon, <1>1, <2>1, QueueOwn
  <2>2. CASE x # s /\ ~Break(s)
    <3>1. wire'[x] = wire[x] /\ out'[x] = out[x]
      BY Zenon, <1>1, <1>t, <2>2 DEF SendCompletes, RecvOut, Write
    <3> QED BY Zenon, <1>0, <1>o, <2>2, <3>1, QueueSame
  <2> QED BY <1>b, <2>1, <2>2
<1>2. CASE AdmitKicking(s)
  <2> DEFINE v == Head(registered)
  <2>1. /\ pc[s] = "upgraded" /\ UNCHANGED wire
        /\ out' = [out EXCEPT ![v] = Offer(Offer(@, "kicked"), "close")]
    BY Zenon, <1>2 DEF AdmitKicking
  <2>2. v \in Sessions /\ v # s
    <3>1. v \in Registered /\ registered \in Seq(Sessions)
      BY Zenon, <1>0, <1>2, RegistryFlow DEF TypeOK
    <3>2. Started(v) /\ v \in Sessions
      BY Zenon, <3>1, SetOfSeq DEF LInv, RegisteredOnce, Registered
    <3> QED BY <2>1, <3>2 DEF Started
  <2> HIDE DEF v
  <2>3. CASE x = v
    <3>1. out'[x] = Offer(Offer(out[x], "kicked"), "close")
      BY Zenon, <1>t, <2>1, <2>3
    <3>2. /\ Ahead(Offer(out[x], "kicked"), AuthedTaken(x))
          /\ Has(out[x]) => Has(Offer(out[x], "kicked"))
          /\ Offer(out[x], "kicked") \in Seq(Msgs)
      BY Zenon, <1>m, QueueOffered
    <3>3. AuthedTaken(x) \in BOOLEAN
      BY Zenon DEF AuthedTaken
    <3>4. /\ Ahead(out'[x], AuthedTaken(x))
          /\ Has(out[x]) => Has(out'[x])
      BY Zenon, <1>m, <3>1, <3>2, <3>3, OfferAhead
    <3>5. pc'[x] = pc[x] /\ held'[x] = held[x] /\ wire'[x] = wire[x]
      BY Zenon, <1>o, <2>1, <2>2, <2>3
    <3> QED BY Zenon, <1>0, <3>4, <3>5, QueueGrows
  <2>4. CASE x # v /\ x # s
    BY Zenon, <1>0, <1>o, <1>t, <2>1, <2>4, QueueSame
  <2>5. CASE x = s
    <3>1. out'[s] = out[s] /\ wire'[s] = wire[s]
      BY Zenon, <1>t, <2>1, <2>2
    <3>2. pc'[s] = "ended" \/ (pc'[s] = "sending" /\ held'[s] = "authed")
      BY Zenon, <1>2, <1>t DEF AdmitKicking, Insert, Send, Goto
    <3>3. pc'[s] # "writing" /\ ~InLoop(s)' /\ pc[s] # "writing"
      BY <2>1, <3>2 DEF InLoop
    <3>4. pc'[s] = "sending" => held'[s] \in {"authed", "other"}
      BY <3>2
    <3> QED BY Zenon, <1>0, <2>5, <3>1, <3>3, <3>4, QueueTurn
  <2> QED BY <2>3, <2>4, <2>5
\* A turn of s that leaves the queues and the wire alone.
<1>q. ASSUME UNCHANGED <<out, wire>>, pc[s] # "writing", pc'[s] # "writing",
             InLoop(s)' => InLoop(s),
             pc'[s] = "sending" => held'[s] \in {"authed", "other"}
      PROVE  QueueInv(x)'
  <2>1. CASE x = s
    BY Zenon, <1>0, <1>q, <2>1, QueueTurn
  <2>2. CASE x # s
    BY Zenon, <1>0, <1>o, <1>q, <2>2, QueueSame
  <2> QED BY <2>1, <2>2
<1>s. ASSUME Send(s, "other", FALSE) \/ Send(s, "other", TRUE), UNCHANGED <<out, wire>>,
             pc[s] = "select"
      PROVE  QueueInv(x)'
  <2>1. pc'[s] = "sending" /\ held'[s] = "other"
    BY Zenon, <1>s, <1>t DEF Send, Goto
  <2>2. InLoop(s) /\ pc[s] # "writing" /\ pc'[s] # "writing"
    BY <1>s, <2>1 DEF InLoop
  <2> QED BY Zenon, <1>q, <1>s, <2>1, <2>2
<1>u. UNCHANGED <<pc, held, out, wire>> => QueueInv(x)'
  BY Zenon, <1>0, QueueSame
<1>3. CASE Upgrade(s) \/ Refuse(s) \/ Admit(s)
  <2>1. UNCHANGED <<out, wire>> /\ pc[s] \in {"new", "upgraded"}
    BY <1>3 DEF Upgrade, Refuse, Admit
  <2>2. \/ pc'[s] \in {"ended", "upgraded"}
        \/ pc'[s] = "sending" /\ held'[s] = "authed"
    BY <1>3, <1>t DEF Upgrade, Refuse, Admit, Insert, Send, Goto
  <2>3. ~InLoop(s)' /\ pc[s] # "writing" /\ pc'[s] # "writing"
    BY <2>1, <2>2 DEF InLoop
  <2>4. pc'[s] = "sending" => held'[s] \in {"authed", "other"}
    BY <2>2
  <2> QED BY Zenon, <1>q, <2>1, <2>3, <2>4
<1>4. CASE PingTick(s) \/ IdleTick(s)
  BY Zenon, <1>4, <1>s DEF PingTick, IdleTick
<1>5. CASE \/ ReceiveAnswered(s) \/ ReceiveFatal(s) \/ ReceiveJoin(s) \/ ReceiveLeave(s)
  BY Zenon, <1>5, <1>s DEF ReceiveAnswered, ReceiveFatal, ReceiveJoin, ReceiveLeave, Receive
<1>6. CASE TimePasses(s) \/ ReceiveIgnored(s)
  BY Zenon, <1>6, <1>u DEF TimePasses, ReceiveIgnored, Receive, task
<1>7. CASE ReceiveClose(s)
  BY Zenon, <1>7, <1>b DEF ReceiveClose
<1>8. CASE ReceiveChat(s) \/ PublishReturns(s)
  <2>1. /\ UNCHANGED <<out, wire>> /\ pc[s] \in {"select", "publishing"}
        /\ pc'[s] \in {"select", "publishing"}
    BY <1>8, <1>t DEF ReceiveChat, PublishReturns, Receive, Goto
  <2>2. InLoop(s) /\ pc[s] # "writing" /\ pc'[s] # "writing" /\ pc'[s] # "sending"
    BY <2>1 DEF InLoop
  <2> QED BY Zenon, <1>q, <2>1, <2>2
<1>9. ASSUME NEW r \in Sessions, PublishSend(s, r) \/ PublishTimeout(s, r)
      PROVE  QueueInv(x)'
  <2>1. CASE UNCHANGED out
    BY Zenon, <1>9, <1>u, <2>1 DEF PublishSend, PublishTimeout
  <2>2. CASE /\ Started(r) /\ r \in recips[s] /\ Len(out[r]) < Capacity
             /\ out' = [out EXCEPT ![r] = Append(@, "other")]
    <3>0. UNCHANGED <<pc, held, wire>>
      BY Zenon, <1>9 DEF PublishSend, PublishTimeout
    <3>1. CASE x = r
      <4>1. out'[x] = Offer(out[x], "other")
        BY Zenon, <1>t, <2>2, <3>1 DEF Offer
      <4>2. Greeted(x)
        BY Zenon, <2>2, <3>1, ReachedAreGreeted
      <4>3. /\ Ahead(out'[x], AuthedTaken(x))
            /\ Has(out[x]) => Has(out'[x])
        BY Zenon, <1>m, <4>1, <4>2, QueueOffered
      <4> QED BY Zenon, <1>0, <3>0, <4>3, QueueGrows
    <3>2. CASE x # r
      BY Zenon, <1>0, <1>t, <2>2, <3>0, <3>2, QueueSame
    <3> QED BY <3>1, <3>2
  <2> QED BY Zenon, <1>9, <2>1, <2>2 DEF PublishSend, PublishTimeout
<1>10. CASE ReceiveHot(s)
  <2>1. pc[s] = "select" /\ UNCHANGED wire
    BY Zenon, <1>10 DEF ReceiveHot, Receive
  <2>2. ASSUME NEW S, out' = OfferTo(S, "other"), UNCHANGED <<pc, held>>,
               x \in S => x \in in_room \/ x = s
        PROVE  QueueInv(x)'
    <3>1. CASE x \in S
      <4>1. out'[x] = Offer(out[x], "other")
        BY Zenon, <2>2, <3>1 DEF OfferTo
      <4>2. Greeted(x)
        BY Zenon, <2>1, <2>2, <3>1, ReachedAreGreeted
      <4>3. /\ Ahead(out'[x], AuthedTaken(x))
            /\ Has(out[x]) => Has(out'[x])
        BY Zenon, <1>m, <4>1, <4>2, QueueOffered
      <4> QED BY Zenon, <1>0, <2>1, <2>2, <4>3, QueueGrows
    <3>2. CASE x \notin S
      BY Zenon, <1>0, <2>1, <2>2, <3>2, QueueSame DEF OfferTo
    <3> QED BY <3>1, <3>2
  <2>3. ASSUME HotFails(s), \A y \in Sessions : out'[y] = out[y]
        PROVE  QueueInv(x)'
    <3>1. CASE UNCHANGED <<pc, held>>
      BY Zenon, <1>0, <2>1, <2>3, <3>1, QueueSame
    <3>2. CASE Send(s, "other", FALSE)
      <4>1. pc'[s] = "sending" /\ held'[s] = "other"
        BY Zenon, <3>2, <1>t DEF Send, Goto
      <4>2. InLoop(s) /\ pc[s] # "writing" /\ pc'[s] # "writing"
        BY <2>1, <4>1 DEF InLoop
      <4>3. CASE x = s
        BY Zenon, <1>0, <2>1, <2>3, <4>1, <4>2, <4>3, QueueTurn
      <4>4. CASE x # s
        BY Zenon, <1>0, <1>o, <2>1, <2>3, <4>4, QueueSame
      <4> QED BY <4>3, <4>4
    <3> QED BY Zenon, <2>3, <3>1, <3>2 DEF HotFails
  <2>4. CASE HotFails(s) /\ UNCHANGED out
    BY Zenon, <2>3, <2>4
  <2>5. CASE out' = OfferTo(Recipients, "other") /\ UNCHANGED <<pc, held>>
    BY Zenon, <2>2, <2>5 DEF Recipients
  <2>6. CASE out' = OfferTo({s} \cap Registered, "other") /\ UNCHANGED <<pc, held>>
    BY Zenon, <2>2, <2>6
  <2>7. CASE /\ out' = OfferTo({s} \cap Registered, "other")
             /\ s \notin Registered /\ HotFails(s)
    <3>1. \A y \in Sessions : out'[y] = out[y]
      BY Zenon, <2>7 DEF OfferTo
    <3> QED BY Zenon, <2>3, <2>7, <3>1
  <2> QED BY Zenon, <1>10, <2>4, <2>5, <2>6, <2>7 DEF ReceiveHot
<1> QED
  BY Zenon, <1>1, <1>2, <1>3, <1>4, <1>5, <1>6, <1>7, <1>8, <1>9, <1>10 DEF Step, Publish

-----------------------------------------------------------------------------
(* Results.                                                                *)

LEMMA LInvInit == Init => LInv
<1> SUFFICES ASSUME Init PROVE LInv
  OBVIOUS
<1>1. TypeOK
  BY Zenon, TypeInit
<1>2. DOMAIN registered = {} /\ Registered = {} /\ \A s \in Sessions : DOMAIN out[s] = {}
  BY DEF Init, Registered, Range
<1>3. \A s \in Sessions : pc[s] = "new" /\ recips[s] = {}
  BY Zenon DEF Init
<1>4. RegisteredOnce
  BY Zenon, <1>2 DEF RegisteredOnce, Once
<1>5. in_room = {} /\ active_room = {}
  BY Zenon DEF Init
<1>6. ReachedInLoop /\ ActiveRoomIsJoined
  BY Zenon, <1>3, <1>5 DEF ReachedInLoop, ActiveRoomIsJoined
<1>7. ASSUME NEW s \in Sessions PROVE QueueInv(s)
  <2>1. Ahead(out[s], AuthedTaken(s))
    BY Zenon, <1>2 DEF Ahead
  <2> QED BY <1>3, <2>1 DEF QueueInv, InLoop
<1> QED BY Zenon, <1>1, <1>4, <1>6, <1>7 DEF LInv

\* The steps of the signal handler: Close frames for whoever is registered.
LEMMA LInvDraining ==
    ASSUME LInv, EnterDraining \/ ShutdownAll
    PROVE  LInv'
<1>0. TypeOK /\ \A x \in Sessions : QueueInv(x)
  BY Zenon DEF LInv
<1>1. /\ UNCHANGED <<pc, held, ends, recips, active_room, quiet, in_room, registered, wire,
                     settings>>
      /\ draining' \in {"no", "yes", "told"}
  BY Zenon DEF EnterDraining, ShutdownAll, task, state, core
<1>2. UNCHANGED out \/ out' = OfferTo(Registered, "close")
  BY Zenon DEF EnterDraining, ShutdownAll
<1>m. "close" \in Msgs /\ "close" # "other"
  BY DEF Msgs
<1>3. TypeOK'
  <2>1. /\ out' \in [Sessions -> Seq(Msgs)]
        /\ \A s \in Sessions : Len(out'[s]) <= Capacity
    <3>1. CASE UNCHANGED out
      BY Zenon, <1>0, <3>1 DEF TypeOK
    <3> QED BY Zenon, <1>0, <1>2, <1>m, <3>1, OfferToType
  <2>2. /\ pc' \in [Sessions -> Places] /\ held' \in [Sessions -> Msgs \cup {"none"}]
        /\ ends' \subseteq Sessions /\ quiet' \subseteq Sessions
    BY Zenon, <1>0, <1>1 DEF TypeOK, Places
  <2> QED BY Zenon, <1>0, <1>1, <2>1, <2>2, TypeQueues
<1>4. RegisteredOnce' /\ ReachedInLoop' /\ ActiveRoomIsJoined'
  BY Zenon, <1>1 DEF LInv, RegisteredOnce, Registered, Started, ReachedInLoop, InLoop,
     ActiveRoomIsJoined
<1>5. ASSUME NEW x \in Sessions PROVE QueueInv(x)'
  <2>1. CASE out'[x] = out[x]
    BY Zenon, <1>0, <1>1, <2>1, QueueSame
  <2>2. CASE out'[x] = Offer(out[x], "close")
    <3>1. /\ Ahead(out'[x], AuthedTaken(x))
          /\ Has(out[x]) => Has(out'[x])
      BY Zenon, <1>m, <2>2, QueueOffered
    <3> QED BY Zenon, <1>0, <1>1, <3>1, QueueGrows
  <2> QED BY Zenon, <1>2, <2>1, <2>2 DEF OfferTo
<1> QED BY Zenon, <1>3, <1>4, <1>5 DEF LInv

LEMMA NextIsStep == Next <=> (\E s \in Sessions : Step(s)) \/ EnterDraining \/ ShutdownAll
BY Zenon DEF Next, Step

LEMMA LInvNext == LInv /\ [Next]_vars => LInv'
<1> SUFFICES ASSUME LInv, [Next]_vars PROVE LInv'
  OBVIOUS
<1>1. ASSUME NEW s \in Sessions, Step(s) PROVE LInv'
  <2>0. TypeOK /\ RegisteredOnce
    BY Zenon DEF LInv
  <2>1. TypeOK'
    BY Zenon, <1>1, <2>0, TypeAdmit, TypeLoop, TypeTurns DEF Step
  <2>2. RegisteredOnce' /\ ReachedInLoop' /\ ActiveRoomIsJoined'
    BY Zenon, <1>1, RegisteredOnceNext, ReachedNext, ActiveRoomNext
  <2>3. \A x \in Sessions : QueueInv(x)'
    BY Zenon, <1>1, QueueNext
  <2> QED BY Zenon, <2>1, <2>2, <2>3 DEF LInv
<1>2. CASE UNCHANGED vars
  BY Zenon, <1>2 DEF vars, task, state, core, LInv, TypeOK, Capacity, RegisteredOnce, Registered,
     Started, ReachedInLoop, InLoop, ActiveRoomIsJoined, QueueInv, Greeted, AuthedTaken
<1> QED BY Zenon, <1>1, <1>2, LInvDraining, NextIsStep

LEMMA Invariance == Spec => []LInv
BY LInvInit, LInvNext, PTL DEF Spec

\* No queue ever holds more than its capacity, whoever writes to it.
THEOREM QueuesBounded == Spec => []TypeOK
<1>1. LInv => TypeOK
  BY Zenon DEF LInv
<1> QED BY <1>1, Invariance, PTL

\* Nothing but sys.kicked and a Close frame is written to a client before
\* sys.authed, however many tasks write to the queue of the session while it is
\* set up.
THEOREM AuthedIsFirst == Spec => []AuthedFirst
<1>1. LInv => AuthedFirst
  BY Zenon DEF LInv, QueueInv, AuthedFirst
<1> QED BY <1>1, Invariance, PTL

\* A registered session sends hot frames only to a room that it is in.
THEOREM HotRoomIsJoined == Spec => []ActiveRoomIsJoined
<1>1. LInv => ActiveRoomIsJoined
  BY Zenon DEF LInv
<1> QED BY <1>1, Invariance, PTL

\* The step in EvictedHearsNothing.
HearsNothing ==
    \A s \in Sessions :
       (Started(s) /\ s \notin Registered /\ \A t \in Sessions : s \notin recips[t])
         => /\ \A t \in Sessions : s \notin recips'[t]
            /\ Len(out'[s]) > Len(out[s])
                 => pc[s] = "sending" /\ pc'[s] # "sending"

LEMMA StepHearsNothing ==
    ASSUME LInv, NEW s \in Sessions, Step(s), NEW x \in Sessions, Started(x),
           x \notin Registered, \A t \in Sessions : x \notin recips[t]
    PROVE  /\ \A t \in Sessions : x \notin recips'[t]
           /\ Len(out'[x]) > Len(out[x]) => pc[x] = "sending" /\ pc'[x] # "sending"
<1>0. TypeOK /\ out \in [Sessions -> Seq(Msgs)] /\ pc \in [Sessions -> Places]
  BY Zenon DEF LInv, TypeOK, Places
<1>1. \A t \in Sessions : x \notin recips'[t]
  BY Zenon, RoomFlow
<1>2. out[x] \in Seq(Msgs) /\ Len(out[x]) \in Nat
  BY <1>0, LenProperties
<1>s. out'[x] = out[x] => ~(Len(out'[x]) > Len(out[x]))
  BY <1>2
<1>b. Break(s) => ~(Len(out'[x]) > Len(out[x]))
  <2>1. CASE x = s
    <3>1. Break(s) => out'[x] = <<>>
      BY Zenon, <1>0, <2>1 DEF Break
    <3>2. Len(<<>>) = 0
      BY EmptySeq
    <3> QED BY <1>2, <3>1, <3>2
  <2>2. CASE x # s
    <3>1. Break(s) => out'[x] = out[x]
      BY Zenon, <1>0, <2>2 DEF Break
    <3> QED BY Zenon, <1>s, <3>1
  <2> QED BY <2>1, <2>2
<1>3. CASE SendCompletes(s)
  <2>1. CASE x # s /\ ~Break(s)
    <3>1. out'[x] = out[x]
      BY Zenon, <1>0, <1>3, <2>1 DEF SendCompletes
    <3> QED BY Zenon, <1>1, <1>s, <3>1
  <2>2. CASE x = s /\ ~Break(s)
    <3>1. pc[s] = "sending" /\ pc'[s] = "select"
      BY Zenon, <1>0, <1>3, <2>2 DEF SendCompletes, Goto
    <3> QED BY <1>1, <2>2, <3>1
  <2> QED BY Zenon, <1>1, <1>b, <2>1, <2>2
<1>4. CASE RecvOut(s)
  <2>1. CASE x # s
    <3>1. out'[x] = out[x]
      BY Zenon, <1>0, <1>4, <2>1 DEF RecvOut
    <3> QED BY Zenon, <1>1, <1>s, <3>1
  <2>2. CASE x = s
    <3>1. out[x] # <<>> /\ out'[x] = Tail(out[x])
      BY Zenon, <1>0, <1>4, <2>2 DEF RecvOut
    <3>2. Len(Tail(out[x])) = Len(out[x]) - 1
      BY <1>2, <3>1, HeadTailProperties
    <3>3. ~(Len(out'[x]) > Len(out[x]))
      BY <1>2, <3>1, <3>2
    <3> QED BY Zenon, <1>1, <3>3
  <2> QED BY <2>1, <2>2
<1>5. CASE AdmitKicking(s)
  <2>1. x # Head(registered)
    BY Zenon, <1>5, RegistryFlow
  <2>2. out'[x] = out[x]
    BY Zenon, <1>0, <1>5, <2>1 DEF AdmitKicking
  <2> QED BY Zenon, <1>1, <1>s, <2>2
<1>6. CASE Publish(s)
  <2>1. out'[x] = out[x]
    BY Zenon, <1>0, <1>6 DEF Publish, PublishSend, PublishTimeout, PublishReturns
  <2> QED BY Zenon, <1>1, <1>s, <2>1
<1>7. CASE ReceiveHot(s)
  <2>1. out'[x] = out[x]
    BY Zenon, <1>0, <1>7 DEF ReceiveHot, OfferTo, Recipients
  <2> QED BY Zenon, <1>1, <1>s, <2>1
<1>8. CASE UNCHANGED out
  BY Zenon, <1>1, <1>8, <1>s
<1>9. CASE Break(s)
  BY Zenon, <1>1, <1>b, <1>9
<1> QED
  BY Zenon, <1>3, <1>4, <1>5, <1>6, <1>7, <1>8, <1>9 DEF Step, Upgrade, Refuse, Admit, Write,
     PingTick, IdleTick, TimePasses, ReceiveIgnored, ReceiveAnswered, ReceiveFatal,
     ReceiveClose, ReceiveJoin, ReceiveLeave, ReceiveChat

\* Once a session is evicted and no publication that had picked it is under way,
\* nobody but its own task puts messages in its queue, whatever it does.
THEOREM EvictedIsLeftAlone == Spec => EvictedHearsNothing
<1>1. LInv /\ [Next]_vars => [HearsNothing]_vars
  <2> SUFFICES ASSUME LInv, Next PROVE HearsNothing
    BY Zenon
  <2>1. ASSUME NEW s \in Sessions, Step(s) PROVE HearsNothing
    BY Zenon, <2>1, StepHearsNothing DEF HearsNothing
  <2>2. CASE EnterDraining \/ ShutdownAll
    <3>1. UNCHANGED recips
      BY Zenon, <2>2 DEF EnterDraining, ShutdownAll, task
    <3>2. ASSUME NEW x \in Sessions, x \notin Registered PROVE ~(Len(out'[x]) > Len(out[x]))
      <4>1. out'[x] = out[x]
        BY Zenon, <2>2, <3>2 DEF EnterDraining, ShutdownAll, OfferTo
      <4>2. Len(out[x]) \in Nat
        <5>1. out[x] \in Seq(Msgs)
          BY Zenon DEF LInv, TypeOK
        <5> QED BY <5>1, LenProperties
      <4> QED BY <4>1, <4>2
    <3> QED BY Zenon, <3>1, <3>2 DEF HearsNothing
  <2> QED BY Zenon, <2>1, <2>2, NextIsStep
<1> QED BY <1>1, Invariance, PTL DEF Spec, EvictedHearsNothing, HearsNothing

\* The step in LatecomersRefused.
FewerAccepted == draining # "no" => Accepted' \subseteq Accepted

\* A gateway that drains takes no new connection on, although requests that were
\* upgraded before may still be registered.
THEOREM DrainingTakesNoneOn == Spec => LatecomersRefused
<1>1. LInv /\ [Next]_vars => [FewerAccepted]_vars
  <2> SUFFICES ASSUME LInv, Next, draining # "no" PROVE Accepted' \subseteq Accepted
    BY Zenon DEF FewerAccepted
  <2>0. TypeOK /\ pc \in [Sessions -> Places]
    BY Zenon DEF LInv, TypeOK, Places
  <2>1. ASSUME NEW s \in Sessions, Step(s) PROVE Accepted' \subseteq Accepted
    <3>1. \A x \in Registered' : x \in Registered \/ (x = s /\ pc[s] = "upgraded")
      BY Zenon, <2>1, RegistryFlow
    <3>2. ASSUME NEW x \in Sessions, pc'[x] = "upgraded" PROVE pc[x] = "upgraded"
      <4>1. CASE x # s
        BY Zenon, <2>0, <2>1, <3>2, <4>1, TaskFlow
      <4>2. CASE x = s
        <5>1. CASE Upgrade(s)
          <6>1. pc'[s] = "ended"
            BY Zenon, <2>0, <5>1 DEF Upgrade, Goto
          <6> QED BY <3>2, <4>2, <6>1
        <5>2. CASE ~Upgrade(s)
          <6>1. Break(s) \/ Turns(s) \/ Enters(s)
            BY Zenon, <2>0, <2>1, TaskFlow
          <6>2. Break(s) => pc'[s] = "ended"
            BY Zenon, <2>0 DEF Break, Goto
          <6> QED BY <3>2, <4>2, <5>2, <6>1, <6>2 DEF Turns, Enters
        <5> QED BY <5>1, <5>2
      <4> QED BY <4>1, <4>2
    <3> QED BY Zenon, <3>1, <3>2 DEF Accepted
  <2>2. CASE EnterDraining \/ ShutdownAll
    BY Zenon, <2>2 DEF EnterDraining, ShutdownAll, task, core, Accepted, Registered
  <2> QED BY Zenon, <2>1, <2>2, NextIsStep
<1> QED BY <1>1, Invariance, PTL DEF Spec, LatecomersRefused, FewerAccepted
=============================================================================
