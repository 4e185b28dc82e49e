----------------------- MODULE SessionRegistryProofs -----------------------
(***************************************************************************)
(* Proofs about SessionRegistry for every set of connections, every        *)
(* assignment of session keys and every limit.                             *)
(*                                                                         *)
(* The cap is inductive only together with the accounting of the counter:  *)
(* that fetch_sub does not wrap is what keeps the counter below the cap,   *)
(* and that holds because the counter covers the sessions still to be      *)
(* uncounted.  The accounting in turn needs that a task only removes       *)
(* sessions of its own tenant (OwnKeys).                                   *)
(*                                                                         *)
(* The second part shows that SessionRegistry implements Admission.        *)
(***************************************************************************)
EXTENDS SessionRegistry, FiniteSetTheorems, TLAPS

RemoveSteps == {"unindex", "check_empty", "drop_user", "take"}

\* The keys a task finds in the user index, and the victim it chooses, are its
\* own user's.
OwnKeys ==
    /\ \A u \in Users : user_index[u] # None =>
          \A k \in user_index[u] : UserOf[k] = u
    /\ \A c \in Conns : \A k \in keys[c] : UserOf[k] = UserOfConn(c)
    /\ \A c \in Conns : victim[c] # None => UserOf[victim[c].key] = UserOfConn(c)
    /\ \A c \in Conns : (step[c] \in RemoveSteps /\ c \notin dropping) =>
          victim[c] # None

\* A task that drops its SessionCleanup is inside remove_session or has ended.
DropSteps ==
    \A c \in dropping : step[c] \in RemoveSteps \cup {"uncount", "done"}

\* With a session key per connection nothing is stored under the key of a
\* connection before it stores its own entry.
FreshKeys ==
    DistinctKeys => \A c \in Conns : Waiting(c) => sessions[KeyOf[c]] = None

CountWithinCap ==
    \A t \in Tenants : MaxTotal[t] > 0 => tenant_counts[t] <= MaxTotal[t]

IInv == /\ TypeOK /\ OwnKeys /\ DropSteps /\ FreshKeys
        /\ CounterCovers /\ CounterExact /\ CountWithinCap

-----------------------------------------------------------------------------
LEMMA NamesType ==
    /\ \A c \in Conns : KeyOf[c] \in Keys /\ UserOfConn(c) \in Users
                        /\ TenantOfConn(c) \in Tenants
    /\ \A k \in Keys : UserOf[k] \in Users /\ TenantOfKey(k) \in Tenants
BY NamesAssumption DEF UserOfConn, TenantOfConn, TenantOfKey

LEMMA TargetType ==
    ASSUME TypeOK, OwnKeys, NEW c \in Conns, step[c] \in RemoveSteps
    PROVE  /\ Target(c) \in Keys
           /\ UserOf[Target(c)] = UserOfConn(c)
           /\ TenantOfKey(Target(c)) = TenantOfConn(c)
<1>1. CASE c \in dropping
  BY <1>1, NamesType DEF Target, UserOfConn, TenantOfConn, TenantOfKey
<1>2. CASE c \notin dropping
  <2>1. victim[c] \in Victim
    BY <1>2 DEF TypeOK, OwnKeys
  <2>2. victim[c].key \in Keys /\ UserOf[victim[c].key] = UserOfConn(c)
    BY <1>2, <2>1 DEF OwnKeys, Victim
  <2> QED
    BY <1>2, <2>2 DEF Target, UserOfConn, TenantOfConn, TenantOfKey
<1> QED
  BY <1>1, <1>2

LEMMA TypeInit == Init => TypeOK
BY SMTT(60), NoneAssumption DEF Init, TypeOK, Steps

\* Each step keeps the types.
LEMMA TypeNext ==
    ASSUME TypeOK, OwnKeys, NEW c \in Conns, TaskStep(c) \/ LoopEnds(c)
    PROVE  TypeOK'
<1> USE NamesType, LimitsAssumption, NoneAssumption DEF TypeOK, Goto, Steps
<1>1. CASE CountUserSessions(c)
  BY Zenon, <1>1 DEF CountUserSessions
<1>2. CASE EvictSnapshot(c)
  BY SMTT(60), <1>2 DEF EvictSnapshot
<1>3. CASE EvictScan(c)
  <2>1. PICK k \in keys[c] :
          /\ keys' = [keys EXCEPT ![c] = @ \ {k}]
          /\ victim' =
               IF sessions[k] # None /\ OlderThanVictim(c, sessions[k])
               THEN [victim EXCEPT ![c] =
                       [key |-> k, created_seq |-> sessions[k].created_seq]]
               ELSE victim
    BY Zenon, <1>3 DEF EvictScan
  <2>2. victim' \in [Conns -> {None} \cup Victim]
    <3>1. CASE sessions[k] = None \/ ~OlderThanVictim(c, sessions[k])
      BY Zenon, <2>1, <3>1
    <3>2. CASE sessions[k] # None /\ OlderThanVictim(c, sessions[k])
      <4>1. k \in Keys /\ sessions[k].created_seq \in Nat
        BY Zenon, <3>2 DEF Entry
      <4> QED
        BY <2>1, <3>2, <4>1 DEF Victim
    <3> QED
      BY <3>1, <3>2
  <2> QED
    BY <1>3, <2>1, <2>2 DEF EvictScan
<1>4. CASE EvictChosen(c)
  BY Zenon, <1>4 DEF EvictChosen
<1>5. CASE RemoveUnindex(c)
  BY <1>5 DEF RemoveUnindex
<1>6. CASE RemoveCheckEmpty(c)
  BY Zenon, <1>6 DEF RemoveCheckEmpty
<1>7. CASE RemoveDropUser(c)
  BY Zenon, <1>7 DEF RemoveDropUser
<1>8. CASE RemoveTake(c)
  BY <1>8 DEF RemoveTake, Removed
<1>9. CASE RemoveUncount(c)
  BY <1>9 DEF RemoveUncount, Removed, FetchSub
<1>10. CASE TryInsertReserve(c)
  BY <1>10 DEF TryInsertReserve
<1>11. CASE TryInsertIndex(c)
  BY <1>11 DEF TryInsertIndex
<1>12. CASE TryInsertPublish(c)
  BY <1>12 DEF TryInsertPublish, Entry
<1>13. CASE LoopEnds(c)
  BY <1>13 DEF LoopEnds
<1> QED
  BY ZenonT(60), <1>1, <1>2, <1>3, <1>4, <1>5, <1>6, <1>7, <1>8, <1>9, <1>10, <1>11, <1>12,
     <1>13 DEF TaskStep

-----------------------------------------------------------------------------
LEMMA OwnKeysInit == Init => OwnKeys
BY SMTT(60), NamesType DEF Init, OwnKeys, RemoveSteps

\* A task only finds and keeps keys of its own user.
LEMMA OwnKeysNext ==
    ASSUME TypeOK, OwnKeys, NEW c \in Conns, TaskStep(c) \/ LoopEnds(c)
    PROVE  OwnKeys'
<1> USE NamesType, NoneAssumption DEF TypeOK, OwnKeys, Goto, RemoveSteps
<1>1. CASE CountUserSessions(c)
  BY <1>1 DEF CountUserSessions
<1>2. CASE EvictSnapshot(c)
  BY SMTT(60), <1>2 DEF EvictSnapshot
<1>3. CASE EvictScan(c)
  BY <1>3 DEF EvictScan
<1>4. CASE EvictChosen(c)
  BY ZenonT(60), <1>4 DEF EvictChosen
<1>5. CASE RemoveUnindex(c)
  BY <1>5 DEF RemoveUnindex
<1>6. CASE RemoveCheckEmpty(c)
  BY ZenonT(60), <1>6 DEF RemoveCheckEmpty
<1>7. CASE RemoveDropUser(c)
  BY <1>7 DEF RemoveDropUser
<1>8. CASE RemoveTake(c)
  BY ZenonT(60), <1>8 DEF RemoveTake, Removed
<1>9. CASE RemoveUncount(c)
  BY ZenonT(60), <1>9 DEF RemoveUncount, Removed
<1>10. CASE TryInsertReserve(c)
  BY SMTT(60), <1>10 DEF TryInsertReserve
<1>11. CASE TryInsertIndex(c)
  BY SMTT(60), <1>11 DEF TryInsertIndex, UserOfConn
<1>12. CASE TryInsertPublish(c)
  BY ZenonT(60), <1>12 DEF TryInsertPublish
<1>13. CASE LoopEnds(c)
  BY <1>13 DEF LoopEnds
<1> QED
  BY ZenonT(60), <1>1, <1>2, <1>3, <1>4, <1>5, <1>6, <1>7, <1>8, <1>9, <1>10, <1>11, <1>12,
     <1>13 DEF TaskStep

-----------------------------------------------------------------------------
LEMMA DropStepsInit == Init => DropSteps
BY Zenon DEF Init, DropSteps

LEMMA DropStepsNext ==
    ASSUME TypeOK, DropSteps, NEW c \in Conns, TaskStep(c) \/ LoopEnds(c)
    PROVE  DropSteps'
BY ZenonT(60) DEF DropSteps, TypeOK, RemoveSteps, Goto, TaskStep, LoopEnds,
       CountUserSessions, EvictSnapshot, EvictScan, EvictChosen, RemoveUnindex,
       RemoveCheckEmpty, RemoveDropUser, RemoveTake, RemoveUncount, Removed,
       TryInsertReserve, TryInsertIndex, TryInsertPublish

-----------------------------------------------------------------------------
LEMMA FreshKeysInit == Init => FreshKeys
BY NamesType DEF Init, FreshKeys

\* Only TryInsertPublish stores, under the key of a task that then no longer
\* waits; no step makes a task wait again.
LEMMA FreshKeysNext ==
    ASSUME TypeOK, OwnKeys, FreshKeys, NEW c \in Conns,
           TaskStep(c) \/ LoopEnds(c)
    PROVE  FreshKeys'
<1> SUFFICES ASSUME DistinctKeys, NEW d \in Conns, Waiting(d)'
             PROVE  sessions'[KeyOf[d]] = None
  BY SMTT(60) DEF FreshKeys, DistinctKeys
<1> USE NamesType DEF TypeOK, Goto
<1>1. Waiting(d)
  BY ZenonT(60) DEF Waiting, TaskStep, LoopEnds, CountUserSessions, EvictSnapshot, EvictScan,
         EvictChosen, RemoveUnindex, RemoveCheckEmpty, RemoveDropUser,
         RemoveTake, RemoveUncount, Removed, TryInsertReserve, TryInsertIndex,
         TryInsertPublish
<1>2. sessions[KeyOf[d]] = None
  BY <1>1 DEF FreshKeys
<1>3. CASE RemoveTake(c)
  <2>1. Target(c) \in Keys
    BY Zenon, <1>3, TargetType DEF RemoveTake, RemoveSteps
  <2> QED
    BY Zenon, <1>2, <1>3, <2>1 DEF RemoveTake
<1>4. CASE TryInsertPublish(c)
  <2>1. c # d
    BY Zenon, <1>4 DEF TryInsertPublish, Waiting
  <2>2. KeyOf[c] # KeyOf[d]
    BY ZenonT(60), <2>1 DEF DistinctKeys
  <2> QED
    BY Zenon, <1>2, <1>4, <2>2 DEF TryInsertPublish
<1>5. CASE UNCHANGED sessions
  BY <1>2, <1>5
<1> QED
  BY ZenonT(60), <1>3, <1>4, <1>5 DEF TaskStep, LoopEnds, CountUserSessions, EvictSnapshot,
     EvictScan, EvictChosen, RemoveUnindex, RemoveCheckEmpty, RemoveDropUser,
     RemoveUncount, TryInsertReserve, TryInsertIndex

-----------------------------------------------------------------------------
\* One element more, one element less.
LEMMA OneMore ==
    ASSUME NEW S, NEW T, NEW x, IsFiniteSet(S), x \notin S, T = S \cup {x}
    PROVE  Cardinality(T) = Cardinality(S) + 1
BY FS_AddElement

LEMMA OneLess ==
    ASSUME NEW S, NEW T, NEW x, IsFiniteSet(S), x \in S, T = S \ {x}
    PROVE  Cardinality(T) = Cardinality(S) - 1
BY FS_RemoveElement

\* The sets that the counter of a tenant counts are finite.
LEMMA LoadType ==
    ASSUME NEW t \in Tenants
    PROVE  /\ IsFiniteSet(Registered(t)) /\ Cardinality(Registered(t)) \in Nat
           /\ IsFiniteSet(Inserting(t)) /\ Cardinality(Inserting(t)) \in Nat
           /\ IsFiniteSet(Uncounting(t)) /\ Cardinality(Uncounting(t)) \in Nat
           /\ Load(t) \in Nat
<1>1. /\ Registered(t) \in SUBSET Keys
      /\ Inserting(t) \in SUBSET Conns
      /\ Uncounting(t) \in SUBSET Conns
  BY DEF Registered, Inserting, Uncounting
<1>2. /\ IsFiniteSet(Registered(t))
      /\ IsFiniteSet(Inserting(t))
      /\ IsFiniteSet(Uncounting(t))
  BY SMTT(60), <1>1, FiniteAssumption, FS_Subset
<1> QED
  BY <1>2, FS_CardinalityType DEF Load

\* A step that does not enter or leave the counted part of a call, and stores
\* or removes nothing, leaves the load as it is.
LEMMA LoadUnchanged ==
    ASSUME TypeOK, NEW c \in Conns, NEW t \in Tenants, NEW s,
           UNCHANGED sessions, step' = [step EXCEPT ![c] = s],
           step[c] \in {"index", "publish"} <=> s \in {"index", "publish"},
           step[c] = "uncount" <=> s = "uncount"
    PROVE  Load(t)' = Load(t)
<1>1. Registered(t)' = Registered(t)
  BY DEF Registered
<1>2. Inserting(t)' = Inserting(t)
  BY DEF Inserting, TypeOK
<1>3. Uncounting(t)' = Uncounting(t)
  BY Zenon DEF Uncounting, TypeOK
<1> QED
  BY <1>1, <1>2, <1>3 DEF Load

\* What each step adds to the load it adds to the counter, except that an
\* overwritten entry stays counted.
LEMMA LoadNext ==
    ASSUME IInv, NEW c \in Conns, TaskStep(c) \/ LoopEnds(c),
           NEW t \in Tenants
    PROVE  /\ tenant_counts'[t] >= Load(t)'
           /\ DistinctKeys => tenant_counts'[t] = Load(t)'
<1> DEFINE tc == TenantOfConn(c)
           k == KeyOf[c]
<1>t. /\ TypeOK /\ OwnKeys /\ tc \in Tenants /\ k \in Keys
      /\ tenant_counts[t] \in Nat /\ tenant_counts[t] >= Load(t)
      /\ DistinctKeys => tenant_counts[t] = Load(t)
  BY NamesType DEF IInv, TypeOK, CounterCovers, CounterExact
<1>f. /\ IsFiniteSet(Registered(t)) /\ Cardinality(Registered(t)) \in Nat
      /\ IsFiniteSet(Inserting(t)) /\ Cardinality(Inserting(t)) \in Nat
      /\ IsFiniteSet(Uncounting(t)) /\ Cardinality(Uncounting(t)) \in Nat
      /\ Load(t) \in Nat
  BY LoadType
<1>n. /\ tenant_counts[t] \in Nat /\ Load(t) \in Nat
      /\ tenant_counts[t] >= Load(t)
      /\ DistinctKeys => tenant_counts[t] = Load(t)
  BY SMTT(60), <1>t, <1>f
<1> HIDE DEF tc, k
<1>q. ASSUME NEW s, UNCHANGED <<sessions, tenant_counts>>,
             step' = [step EXCEPT ![c] = s],
             step[c] \in {"index", "publish"} <=> s \in {"index", "publish"},
             step[c] = "uncount" <=> s = "uncount"
      PROVE  /\ tenant_counts'[t] >= Load(t)'
             /\ DistinctKeys => tenant_counts'[t] = Load(t)'
  <2>1. Load(t)' = Load(t)
    BY ZenonT(60), <1>t, <1>q, LoadUnchanged
  <2> QED
    BY <1>t, <1>q, <2>1
<1>1. CASE CountUserSessions(c)
  BY SMTT(60), <1>1, <1>q DEF CountUserSessions, Goto
<1>2. CASE EvictSnapshot(c)
  BY <1>2, <1>q DEF EvictSnapshot, Goto
<1>3. CASE EvictScan(c)
  <2>1. step' = [step EXCEPT ![c] = "scan"] /\ step[c] = "scan"
    BY <1>3, <1>t DEF EvictScan, TypeOK
  <2> QED
    BY ZenonT(60), <1>3, <1>q, <2>1 DEF EvictScan
<1>4. CASE EvictChosen(c)
  BY Zenon, <1>4, <1>q DEF EvictChosen, Goto
<1>5. CASE RemoveUnindex(c)
  BY Zenon, <1>5, <1>q DEF RemoveUnindex, Goto
<1>6. CASE RemoveCheckEmpty(c)
  BY <1>6, <1>q DEF RemoveCheckEmpty, Goto
<1>7. CASE RemoveDropUser(c)
  BY Zenon, <1>7, <1>q DEF RemoveDropUser, Goto
<1>8. CASE RemoveTake(c)
  <2>1. CASE sessions[Target(c)] = None
    BY SMTT(60), <1>8, <2>1, <1>q DEF RemoveTake, Removed, Goto
  <2>2. CASE sessions[Target(c)] # None
    <3>1. Target(c) \in Keys /\ TenantOfKey(Target(c)) = tc
      BY <1>8, <1>t, TargetType DEF RemoveTake, RemoveSteps, tc
    <3>2. /\ sessions' = [sessions EXCEPT ![Target(c)] = None]
          /\ step' = [step EXCEPT ![c] = "uncount"] /\ step[c] = "take"
          /\ UNCHANGED tenant_counts
      BY ZenonT(60), <1>8, <2>2 DEF RemoveTake, Goto
    <3>3. Inserting(t)' = Inserting(t)
      BY <3>2, <1>t DEF Inserting, TypeOK
    <3>4. CASE t = tc
      <4>1. /\ Registered(t)' = Registered(t) \ {Target(c)}
            /\ Target(c) \in Registered(t)
        BY ZenonT(60), <2>2, <3>1, <3>2, <3>4, <1>t DEF Registered, TypeOK
      <4>2. /\ Uncounting(t)' = Uncounting(t) \cup {c}
            /\ c \notin Uncounting(t)
        BY SMTT(60), <3>2, <3>4, <1>t DEF Uncounting, TypeOK, tc
      <4>3. Cardinality(Registered(t)') = Cardinality(Registered(t)) - 1
        BY SMTT(60), <4>1, <1>f, OneLess
      <4>4. Cardinality(Uncounting(t)') = Cardinality(Uncounting(t)) + 1
        BY <4>2, <1>f, OneMore
      <4>5. Load(t)' = Load(t)
        BY SMTT(60), <3>3, <4>3, <4>4, <1>f DEF Load
      <4> QED
        BY ZenonT(60), <1>t, <3>2, <4>5
    <3>5. CASE t # tc
      <4>1. Registered(t)' = Registered(t)
        BY ZenonT(60), <3>1, <3>2, <3>5, <1>t DEF Registered, TypeOK
      <4>2. Uncounting(t)' = Uncounting(t)
        BY SMTT(60), <3>2, <3>5, <1>t DEF Uncounting, TypeOK, tc
      <4>3. Load(t)' = Load(t)
        BY <3>3, <4>1, <4>2 DEF Load
      <4> QED
        BY <1>t, <3>2, <4>3
    <3> QED
      BY ZenonT(60), <3>4, <3>5
  <2> QED
    BY ZenonT(60), <2>1, <2>2
<1>9. CASE RemoveUncount(c)
  <2>1. /\ UNCHANGED sessions /\ step[c] = "uncount"
        /\ tenant_counts' = [tenant_counts EXCEPT ![tc] = FetchSub(@)]
        /\ \E s \in {"done", "reserve"} : step' = [step EXCEPT ![c] = s]
    BY Zenon, <1>9 DEF RemoveUncount, Removed, Goto, tc
  <2>2. Registered(t)' = Registered(t) /\ Inserting(t)' = Inserting(t)
    BY <2>1, <1>t DEF Registered, Inserting, TypeOK
  <2>3. CASE t = tc
    <3>1. Uncounting(t)' = Uncounting(t) \ {c} /\ c \in Uncounting(t)
      BY ZenonT(60), <2>1, <2>3, <1>t DEF Uncounting, TypeOK, tc
    <3>2. Cardinality(Uncounting(t)') = Cardinality(Uncounting(t)) - 1
      BY ZenonT(60), <3>1, <1>f, OneLess
    <3>3. Load(t)' = Load(t) - 1 /\ Load(t)' \in Nat
      <4>1. Uncounting(t) # {} /\ Cardinality(Uncounting(t)) # 0
        BY ZenonT(60), <3>1, <1>f, FS_EmptySet
      <4> QED
        BY <2>2, <3>2, <4>1, <1>f DEF Load
    <3>4. tenant_counts'[t] = tenant_counts[t] - 1
      BY SMTT(60), <2>1, <2>3, <3>3, <1>t, <1>f DEF FetchSub, TypeOK
    <3> QED
      <4>1. tenant_counts'[t] >= Load(t)'
        BY <1>n, <3>3, <3>4
      <4>2. DistinctKeys => tenant_counts'[t] = Load(t)'
        BY Zenon, <1>n, <3>3, <3>4
      <4> QED
        BY <4>1, <4>2
  <2>4. CASE t # tc
    <3>1. Uncounting(t)' = Uncounting(t)
      BY <2>1, <2>4, <1>t DEF Uncounting, TypeOK, tc
    <3>2. Load(t)' = Load(t)
      BY ZenonT(60), <2>2, <3>1 DEF Load
    <3>3. tenant_counts'[t] = tenant_counts[t]
      BY <2>1, <2>4, <1>t DEF TypeOK
    <3> QED
      BY ZenonT(60), <1>t, <3>2, <3>3
  <2> QED
    BY <2>3, <2>4
<1>10. CASE TryInsertReserve(c)
  <2>1. CASE ~HasCapacity(tc)
    BY SMTT(60), <1>10, <2>1, <1>q DEF TryInsertReserve, Goto, tc
  <2>2. CASE HasCapacity(tc)
    <3>1. /\ UNCHANGED sessions /\ step[c] = "reserve"
          /\ tenant_counts' = [tenant_counts EXCEPT ![tc] = @ + 1]
          /\ step' = [step EXCEPT ![c] = "index"]
      BY Zenon, <1>10, <2>2 DEF TryInsertReserve, Goto, tc
    <3>2. Registered(t)' = Registered(t) /\ Uncounting(t)' = Uncounting(t)
      BY ZenonT(60), <3>1, <1>t DEF Registered, Uncounting, TypeOK
    <3>3. CASE t = tc
      <4>1. Inserting(t)' = Inserting(t) \cup {c} /\ c \notin Inserting(t)
        BY <3>1, <3>3, <1>t DEF Inserting, TypeOK, tc
      <4>2. Cardinality(Inserting(t)') = Cardinality(Inserting(t)) + 1
        BY ZenonT(60), <4>1, <1>f, OneMore
      <4>3. Load(t)' = Load(t) + 1
        BY <3>2, <4>2, <1>f DEF Load
      <4>4. tenant_counts'[t] = tenant_counts[t] + 1
        BY ZenonT(60), <3>1, <3>3, <1>t DEF TypeOK
      <4> QED
        <5>1. tenant_counts'[t] >= Load(t)'
          BY <1>n, <4>3, <4>4
        <5>2. DistinctKeys => tenant_counts'[t] = Load(t)'
          BY ZenonT(60), <1>n, <4>3, <4>4
        <5> QED
          BY <5>1, <5>2
    <3>4. CASE t # tc
      <4>1. Inserting(t)' = Inserting(t)
        BY ZenonT(60), <3>1, <3>4, <1>t DEF Inserting, TypeOK, tc
      <4>2. Load(t)' = Load(t) /\ tenant_counts'[t] = tenant_counts[t]
        BY SMTT(60), <3>1, <3>2, <3>4, <4>1, <1>t DEF Load, TypeOK
      <4> QED
        BY Zenon, <1>t, <4>2
    <3> QED
      BY <3>3, <3>4
  <2> QED
    BY Zenon, <2>1, <2>2
<1>11. CASE TryInsertIndex(c)
  BY ZenonT(60), <1>11, <1>q DEF TryInsertIndex, Goto
<1>12. CASE TryInsertPublish(c)
  <2>1. /\ UNCHANGED tenant_counts /\ step[c] = "publish"
        /\ sessions' = [sessions EXCEPT ![k] = [conn |-> c, created_seq |-> seq]]
        /\ step' = [step EXCEPT ![c] = "serving"]
    BY <1>12 DEF TryInsertPublish, Goto, k
  <2>2. TenantOfKey(k) = tc
    BY ZenonT(60) DEF TenantOfConn, tc, k
  <2>3. [conn |-> c, created_seq |-> seq] # None
    BY SMTT(60), <1>t, NoneAssumption DEF TypeOK, Entry
  <2>4. Uncounting(t)' = Uncounting(t)
    BY SMTT(60), <2>1, <1>t DEF Uncounting, TypeOK
  <2>5. CASE t = tc
    <3>1. Inserting(t)' = Inserting(t) \ {c} /\ c \in Inserting(t)
      BY Zenon, <2>1, <2>5, <1>t DEF Inserting, TypeOK, tc
    <3>2. Cardinality(Inserting(t)') = Cardinality(Inserting(t)) - 1
      BY ZenonT(60), <3>1, <1>f, OneLess
    <3>3. Registered(t)' = Registered(t) \cup {k}
      BY SMTT(60), <2>1, <2>2, <2>3, <2>5, <1>t DEF Registered, TypeOK
    <3>4. Cardinality(Registered(t)')
            = IF k \in Registered(t) THEN Cardinality(Registered(t))
              ELSE Cardinality(Registered(t)) + 1
      <4>1. CASE k \in Registered(t)
        <5>1. Registered(t)' = Registered(t)
          BY <3>3, <4>1
        <5> QED
          BY <4>1, <5>1
      <4>2. CASE k \notin Registered(t)
        <5>1. Cardinality(Registered(t)') = Cardinality(Registered(t)) + 1
          BY ZenonT(60), <3>3, <4>2, <1>f, OneMore
        <5> QED
          BY ZenonT(60), <4>2, <5>1
      <4> QED
        BY <4>1, <4>2
    <3>5. Load(t)' = IF k \in Registered(t) THEN Load(t) - 1 ELSE Load(t)
      BY <2>4, <3>2, <3>4, <1>f DEF Load
    <3>6. ASSUME DistinctKeys PROVE k \notin Registered(t)
      <4>1. c \notin dropping
        BY Zenon, <2>1, <1>t DEF IInv, DropSteps, RemoveSteps
      <4> QED
        BY ZenonT(60), <3>6, <2>1, <4>1 DEF IInv, FreshKeys, Waiting, Registered, k
    <3> QED
      <4>1. tenant_counts'[t] = tenant_counts[t]
        BY Zenon, <2>1
      <4>2. tenant_counts'[t] >= Load(t)'
        BY <1>n, <3>5, <4>1
      <4>3. DistinctKeys => tenant_counts'[t] = Load(t)'
        BY ZenonT(60), <1>n, <3>5, <3>6, <4>1
      <4> QED
        BY <4>2, <4>3
  <2>6. CASE t # tc
    <3>1. Inserting(t)' = Inserting(t)
      BY ZenonT(60), <2>1, <2>6, <1>t DEF Inserting, TypeOK, tc
    <3>2. Registered(t)' = Registered(t)
      BY SMTT(60), <2>1, <2>2, <2>6, <1>t DEF Registered, TypeOK
    <3> QED
      BY ZenonT(60), <1>t, <2>1, <2>4, <3>1, <3>2 DEF Load
  <2> QED
    BY <2>5, <2>6
<1>13. CASE LoopEnds(c)
  BY ZenonT(60), <1>13, <1>q DEF LoopEnds, Goto
<1> QED
  BY ZenonT(60), <1>1, <1>2, <1>3, <1>4, <1>5, <1>6, <1>7, <1>8, <1>9, <1>10, <1>11, <1>12,
     <1>13 DEF TaskStep

-----------------------------------------------------------------------------
LEMMA CapNext ==
    ASSUME IInv, NEW c \in Conns, TaskStep(c) \/ LoopEnds(c)
    PROVE  CountWithinCap'
<1> SUFFICES ASSUME NEW t \in Tenants, MaxTotal[t] > 0
             PROVE  tenant_counts'[t] <= MaxTotal[t]
  BY Zenon DEF CountWithinCap
<1>1. /\ tenant_counts[t] <= MaxTotal[t] /\ tenant_counts \in [Tenants -> Nat]
      /\ MaxTotal[t] \in Nat
  BY Zenon, LimitsAssumption DEF IInv, CountWithinCap, TypeOK
<1>2. CASE RemoveUncount(c)
  <2>1. CASE t = TenantOfConn(c)
    <3>1. c \in Uncounting(t)
      BY <1>2, <2>1 DEF RemoveUncount, Uncounting
    <3>2. Cardinality(Uncounting(t)) # 0
      BY ZenonT(60), <3>1, LoadType, FS_EmptySet
    <3>3. tenant_counts[t] > 0
      BY <1>1, <3>2, LoadType DEF IInv, CounterCovers, Load
    <3> QED
      BY SMTT(60), <1>1, <1>2, <2>1, <3>3 DEF RemoveUncount, FetchSub
  <2>2. CASE t # TenantOfConn(c)
    BY ZenonT(60), <1>1, <1>2, <2>2 DEF RemoveUncount
  <2> QED
    BY <2>1, <2>2
<1>3. CASE TryInsertReserve(c)
  BY <1>1, <1>3 DEF TryInsertReserve, HasCapacity
<1>4. CASE UNCHANGED tenant_counts
  BY <1>1, <1>4
<1> QED
  BY ZenonT(60), <1>2, <1>3, <1>4 DEF TaskStep, LoopEnds, CountUserSessions, EvictSnapshot,
     EvictScan, EvictChosen, RemoveUnindex, RemoveCheckEmpty, RemoveDropUser,
     RemoveTake, TryInsertIndex, TryInsertPublish

LEMMA IInvInit == Init => IInv
<1> SUFFICES ASSUME Init PROVE IInv
  OBVIOUS
<1>1. TypeOK /\ OwnKeys /\ DropSteps /\ FreshKeys
  BY TypeInit, OwnKeysInit, DropStepsInit, FreshKeysInit
<1>2. ASSUME NEW t \in Tenants PROVE Load(t) = 0
  <2>1. Registered(t) = {} /\ Inserting(t) = {} /\ Uncounting(t) = {}
    BY DEF Init, Registered, Inserting, Uncounting
  <2> QED
    BY SMTT(60), <2>1, FS_EmptySet DEF Load
<1>3. CounterCovers /\ CounterExact
  BY <1>2 DEF Init, CounterCovers, CounterExact
<1>4. CountWithinCap
  BY LimitsAssumption DEF Init, CountWithinCap
<1> QED
  BY <1>1, <1>3, <1>4 DEF IInv

LEMMA IInvNext == IInv /\ [Next]_vars => IInv'
<1> SUFFICES ASSUME IInv, [Next]_vars PROVE IInv'
  OBVIOUS
<1>1. ASSUME NEW c \in Conns, TaskStep(c) \/ LoopEnds(c) PROVE IInv'
  <2>1. TypeOK' /\ OwnKeys' /\ DropSteps' /\ FreshKeys'
    BY SMTT(60), <1>1, TypeNext, OwnKeysNext, DropStepsNext, FreshKeysNext DEF IInv
  <2>2. CounterCovers' /\ CounterExact'
    <3>1. ASSUME NEW t \in Tenants
          PROVE  /\ tenant_counts'[t] >= Load(t)'
                 /\ DistinctKeys => tenant_counts'[t] = Load(t)'
      BY <1>1, LoadNext
    <3> QED
      BY <3>1 DEF CounterCovers, CounterExact, DistinctKeys
  <2>3. CountWithinCap'
    BY <1>1, CapNext
  <2> QED
    BY <2>1, <2>2, <2>3 DEF IInv
<1>2. CASE UNCHANGED vars
  <2>1. TypeOK'
    BY Zenon, <1>2 DEF vars, IInv, TypeOK
  <2>2. OwnKeys'
    BY Zenon, <1>2 DEF vars, IInv, OwnKeys
  <2>3. DropSteps' /\ FreshKeys' /\ CountWithinCap'
    BY <1>2 DEF vars, IInv, DropSteps, FreshKeys, Waiting, CountWithinCap,
       DistinctKeys
  <2>4. ASSUME NEW t \in Tenants PROVE Load(t)' = Load(t)
    <3>1. /\ Registered(t)' = Registered(t) /\ Inserting(t)' = Inserting(t)
          /\ Uncounting(t)' = Uncounting(t)
      BY Zenon, <1>2 DEF vars, Registered, Inserting, Uncounting
    <3> QED
      BY Zenon, <3>1 DEF Load
  <2>5. CounterCovers' /\ CounterExact'
    BY <1>2, <2>4 DEF vars, IInv, CounterCovers, CounterExact, DistinctKeys
  <2> QED
    BY Zenon, <2>1, <2>2, <2>3, <2>5 DEF IInv
<1> QED
  BY <1>1, <1>2 DEF Next

LEMMA Invariance == Spec => []IInv
BY IInvInit, IInvNext, PTL DEF Spec

\* Every variable of the registry and of its calls keeps its type.
THEOREM TypeCorrect == Spec => []TypeOK
<1>1. IInv => TypeOK
  BY DEF IInv
<1> QED
  BY <1>1, Invariance, PTL

\* The counter of a tenant covers its sessions in every interleaving of
\* try_insert, remove_session and evict_oldest, also when connections share a
\* session key: fetch_sub never wraps.
THEOREM CounterNeverWraps == Spec => []CounterCovers
<1>1. IInv => CounterCovers
  BY DEF IInv
<1> QED
  BY <1>1, Invariance, PTL

\* With a session key per connection the counter has no drift.
THEOREM CounterIsExact == Spec => []CounterExact
<1>1. IInv => CounterExact
  BY DEF IInv
<1> QED
  BY <1>1, Invariance, PTL

\* The tenant cap of try_insert is never exceeded, not even temporarily.
THEOREM TenantCapHolds == Spec => []SessionsWithinCap
<1>1. IInv => SessionsWithinCap
  <2> SUFFICES ASSUME IInv, NEW t \in Tenants, MaxTotal[t] > 0
               PROVE  Cardinality(Registered(t)) <= MaxTotal[t]
    BY DEF SessionsWithinCap
  <2> DEFINE r == Cardinality(Registered(t))
             i == Cardinality(Inserting(t))
             u == Cardinality(Uncounting(t))
  <2> SUFFICES r <= MaxTotal[t]
    BY Zenon
  <2>1. tenant_counts[t] >= r + i + u /\ tenant_counts[t] <= MaxTotal[t]
    BY DEF IInv, CounterCovers, CountWithinCap, Load
  <2>2. r \in Nat /\ i \in Nat /\ u \in Nat
    BY Zenon, LoadType
  <2>3. tenant_counts[t] \in Nat /\ MaxTotal[t] \in Nat
    BY LimitsAssumption DEF IInv, TypeOK
  <2> HIDE DEF r, i, u
  <2> QED
    BY <2>1, <2>2, <2>3
<1> QED
  BY <1>1, Invariance, PTL

-----------------------------------------------------------------------------
(***************************************************************************)
(* With a session key per connection every step of the registry is, seen   *)
(* through SlotStatus, a step of Admission or changes nothing.             *)
(*                                                                         *)
(* What has to be known besides the accounting is whose slot a call of     *)
(* remove_session gives back: the one of a connection that has stored its  *)
(* entry, that no other call is giving back, and that nobody has stored    *)
(* again (OneRemoval).  With that the counter is the number of connections *)
(* that hold a slot (CountsHolders), and the test of try_insert is the     *)
(* test for a free slot.                                                   *)
(***************************************************************************)

\* A key that a connection has stored an entry under, now or earlier.
Stored(k) == \E c \in Conns : KeyOf[c] = k /\ ~Waiting(c)

\* What try_insert has stored and what remove_session has taken.
OneRemoval ==
    /\ \A k \in Keys : sessions[k] # None => Stored(k)
    /\ \A d \in Conns : step[d] = "uncount" =>
          /\ Target(d) \in Keys /\ Stored(Target(d))
          /\ sessions[Target(d)] = None
          /\ TenantOfKey(Target(d)) = TenantOfConn(d)
    /\ \A d, e \in Conns :
          (step[d] = "uncount" /\ step[e] = "uncount"
             /\ Target(d) = Target(e)) => d = e

CountsHolders ==
    \A t \in Tenants : tenant_counts[t] = Cardinality(Slots!Holders(t))

SlotInv == IInv /\ OneRemoval /\ CountsHolders

-----------------------------------------------------------------------------
LEMMA OneRemovalInit == Init => OneRemoval
BY SMTT(60), NamesType DEF Init, OneRemoval

\* A step makes nobody wait that did not wait.
LEMMA WaitingNext ==
    ASSUME TypeOK, NEW c \in Conns, TaskStep(c) \/ LoopEnds(c),
           NEW d \in Conns, ~Waiting(d)
    PROVE  ~Waiting(d)'
BY ZenonT(60) DEF Waiting, TypeOK, Goto, TaskStep, LoopEnds, CountUserSessions,
       EvictSnapshot, EvictScan, EvictChosen, RemoveUnindex, RemoveCheckEmpty,
       RemoveDropUser, RemoveTake, RemoveUncount, Removed, TryInsertReserve,
       TryInsertIndex, TryInsertPublish

\* A step keeps what is stored.
LEMMA StoredNext ==
    ASSUME TypeOK, NEW c \in Conns, TaskStep(c) \/ LoopEnds(c),
           NEW k \in Keys, Stored(k)
    PROVE  Stored(k)'
BY ZenonT(60), WaitingNext DEF Stored

\* A call of remove_session does not change its mind.
LEMMA TargetNext ==
    ASSUME TypeOK, NEW c \in Conns, TaskStep(c) \/ LoopEnds(c),
           NEW d \in Conns, step[d] \in {"take", "uncount"}
    PROVE  Target(d)' = Target(d)
BY ZenonT(60) DEF Target, TypeOK, Goto, TaskStep, LoopEnds, CountUserSessions,
       EvictSnapshot, EvictScan, EvictChosen, RemoveUnindex, RemoveCheckEmpty,
       RemoveDropUser, RemoveTake, RemoveUncount, Removed, TryInsertReserve,
       TryInsertIndex, TryInsertPublish

LEMMA OneRemovalNext ==
    ASSUME IInv, DistinctKeys, OneRemoval, NEW c \in Conns,
           TaskStep(c) \/ LoopEnds(c)
    PROVE  OneRemoval'
<1> DEFINE Uncounts(d) == step[d] = "uncount"
<1>t. TypeOK /\ OwnKeys
  BY ZenonT(60) DEF IInv
<1>1. CASE RemoveTake(c) /\ sessions[Target(c)] # None
  <2> DEFINE k == Target(c)
  <2>1. k \in Keys /\ TenantOfKey(k) = TenantOfConn(c)
    BY <1>1, <1>t, TargetType DEF RemoveTake, RemoveSteps
  <2>2. /\ sessions' = [sessions EXCEPT ![k] = None]
        /\ step' = [step EXCEPT ![c] = "uncount"] /\ step[c] = "take"
    BY Zenon, <1>1 DEF RemoveTake, Goto
  <2>3. Stored(k)
    BY <1>1, <2>1 DEF OneRemoval
  <2>4. Target(c)' = k
    BY SMTT(60), <1>t, <2>2, TargetNext
  <2> HIDE DEF k
  <2>5. \A d \in Conns : Uncounts(d)' =>
            d = c \/ (Uncounts(d) /\ Target(d)' = Target(d))
    BY <1>t, <2>2, TargetNext DEF TypeOK
  <2>6. \A d \in Conns : Uncounts(d) => Target(d) # k
    BY Zenon, <1>1 DEF OneRemoval, k
  <2>7. \A x \in Keys : sessions'[x] # None => Stored(x)'
    BY <1>t, <2>1, <2>2, StoredNext DEF OneRemoval, TypeOK
  <2>8. ASSUME NEW d \in Conns, Uncounts(d)'
        PROVE  /\ Target(d)' \in Keys /\ Stored(Target(d))'
               /\ sessions'[Target(d)'] = None
               /\ TenantOfKey(Target(d)') = TenantOfConn(d)
    <3>1. CASE d = c
      <4>1. Stored(Target(c))'
        BY SMTT(60), <1>t, <2>1, <2>3, <2>4, StoredNext DEF Stored
      <4> QED
        BY SMTT(60), <1>t, <2>1, <2>2, <2>4, <3>1, <4>1 DEF TypeOK
    <3>2. CASE d # c
      <4>1. /\ Target(d)' = Target(d) /\ Target(d) \in Keys /\ Stored(Target(d))
            /\ sessions[Target(d)] = None
            /\ TenantOfKey(Target(d)) = TenantOfConn(d)
        BY SMTT(60), <2>5, <2>8, <3>2 DEF OneRemoval
      <4>2. Stored(Target(d))'
        BY SMTT(60), <1>t, <4>1, StoredNext DEF Stored
      <4> QED
        BY SMTT(60), <1>t, <2>1, <2>2, <4>1, <4>2 DEF TypeOK
    <3> QED
      BY <3>1, <3>2
  <2>9. ASSUME NEW d \in Conns, NEW e \in Conns, Uncounts(d)', Uncounts(e)',
               Target(d)' = Target(e)'
        PROVE  d = e
    BY ZenonT(60), <2>4, <2>5, <2>6, <2>9 DEF OneRemoval
  <2> QED
    BY <2>7, <2>8, <2>9 DEF OneRemoval, TenantOfKey, TenantOfConn
<1>2. CASE TryInsertPublish(c)
  <2> DEFINE k == KeyOf[c]
             e == [conn |-> c, created_seq |-> seq]
  <2>1. /\ sessions' = [sessions EXCEPT ![k] = e]
        /\ step' = [step EXCEPT ![c] = "serving"] /\ step[c] = "publish"
        /\ k \in Keys
    BY ZenonT(60), <1>2, NamesType DEF TryInsertPublish, Goto
  <2>2. Waiting(c) /\ ~Waiting(c)'
    BY <1>t, <2>1 DEF Waiting, IInv, DropSteps, RemoveSteps, TypeOK
  <2>3. Stored(k)' /\ ~Stored(k)
    BY ZenonT(60), <2>2 DEF Stored, DistinctKeys
  <2> HIDE DEF k, e
  <2>4. \A x \in Keys : sessions'[x] # None => Stored(x)'
    BY SMTT(60), <1>t, <2>1, <2>3, StoredNext DEF OneRemoval, TypeOK
  <2>5. ASSUME NEW d \in Conns, Uncounts(d)'
        PROVE  /\ Uncounts(d) /\ Target(d)' = Target(d) /\ Target(d) \in Keys
               /\ Stored(Target(d))' /\ sessions'[Target(d)] = None
               /\ TenantOfKey(Target(d)) = TenantOfConn(d)
    <3>1. Uncounts(d)
      BY <1>t, <2>1, <2>5 DEF TypeOK
    <3>2. /\ Target(d) \in Keys /\ Stored(Target(d))
          /\ sessions[Target(d)] = None
          /\ TenantOfKey(Target(d)) = TenantOfConn(d)
      BY <3>1 DEF OneRemoval
    <3>3. Target(d)' = Target(d)
      BY SMTT(60), <1>t, <3>1, TargetNext
    <3>4. Stored(Target(d))'
      BY <1>t, <3>2, <3>3, StoredNext DEF Stored
    <3>5. Target(d) # k
      BY SMTT(60), <2>3, <3>2
    <3> QED
      BY SMTT(60), <1>t, <2>1, <3>1, <3>2, <3>3, <3>4, <3>5 DEF TypeOK
  <2> QED
    BY <2>4, <2>5 DEF OneRemoval, TenantOfKey, TenantOfConn
<1>3. CASE UNCHANGED sessions /\ \A d \in Conns : Uncounts(d)' => Uncounts(d)
  <2>1. \A x \in Keys : sessions'[x] # None => Stored(x)'
    BY <1>t, <1>3, StoredNext DEF OneRemoval
  <2>2. ASSUME NEW d \in Conns, Uncounts(d)'
        PROVE  /\ Uncounts(d) /\ Target(d)' = Target(d) /\ Target(d) \in Keys
               /\ Stored(Target(d))' /\ sessions'[Target(d)] = None
               /\ TenantOfKey(Target(d)) = TenantOfConn(d)
    <3>1. /\ Uncounts(d) /\ Target(d) \in Keys /\ Stored(Target(d))
          /\ sessions'[Target(d)] = None
          /\ TenantOfKey(Target(d)) = TenantOfConn(d)
      BY <1>3, <2>2 DEF OneRemoval
    <3>2. Target(d)' = Target(d)
      BY <1>t, <3>1, TargetNext
    <3>3. Stored(Target(d))'
      BY ZenonT(60), <1>t, <3>1, <3>2, StoredNext DEF Stored
    <3> QED
      BY ZenonT(60), <3>1, <3>2, <3>3
  <2> QED
    BY <2>1, <2>2 DEF OneRemoval, TenantOfKey, TenantOfConn
<1>4. \/ RemoveTake(c) /\ sessions[Target(c)] # None
      \/ TryInsertPublish(c)
      \/ UNCHANGED sessions /\ \A d \in Conns : Uncounts(d)' => Uncounts(d)
  BY ZenonT(60), <1>t DEF TypeOK, Goto, TaskStep, LoopEnds, CountUserSessions,
     EvictSnapshot, EvictScan, EvictChosen, RemoveUnindex, RemoveCheckEmpty,
     RemoveDropUser, RemoveTake, RemoveUncount, Removed, TryInsertReserve,
     TryInsertIndex
<1> QED
  BY Zenon, <1>1, <1>2, <1>3, <1>4

-----------------------------------------------------------------------------
(* What a step does to who holds a slot and who waits.                     *)

\* Calls that give back a slot of the key k.
GivesBack(k) == \E d \in Conns : step[d] = "uncount" /\ Target(d) = k

\* A step that neither begins nor ends the uncounting of a session.
LEMMA GivesBackKept ==
    ASSUME TypeOK, NEW c \in Conns, TaskStep(c) \/ LoopEnds(c),
           \A d \in Conns : step'[d] = "uncount" <=> step[d] = "uncount",
           NEW k \in Keys
    PROVE  GivesBack(k)' <=> GivesBack(k)
BY TargetNext DEF GivesBack

\* Taking an entry out and storing one leave the holders as they are.
LEMMA TakeKeepsHolders ==
    ASSUME IInv, NEW c \in Conns, RemoveTake(c), NEW x \in Conns
    PROVE  HoldsSlot(x)' <=> HoldsSlot(x)
<1>t. TypeOK /\ OwnKeys /\ KeyOf[x] \in Keys /\ TaskStep(c)
  BY ZenonT(60), NamesType DEF IInv, TaskStep
<1>1. CASE sessions[Target(c)] = None
  <2>1. /\ UNCHANGED sessions
        /\ \E s \in {"done", "reserve"} : step' = [step EXCEPT ![c] = s]
        /\ step[c] = "take"
    BY <1>1 DEF RemoveTake, Removed, Goto
  <2>2. \A d \in Conns : /\ step'[d] = "uncount" <=> step[d] = "uncount"
                         /\ step'[d] \in {"index", "publish"}
                              <=> step[d] \in {"index", "publish"}
    BY Zenon, <1>t, <2>1 DEF TypeOK
  <2>3. GivesBack(KeyOf[x])' <=> GivesBack(KeyOf[x])
    BY ZenonT(60), <1>t, <2>2, GivesBackKept
  <2> QED
    BY SMTT(60), <2>1, <2>2, <2>3 DEF HoldsSlot, GivesBack
<1>2. CASE sessions[Target(c)] # None
  <2>1. /\ sessions' = [sessions EXCEPT ![Target(c)] = None]
        /\ step' = [step EXCEPT ![c] = "uncount"] /\ step[c] = "take"
        /\ Target(c) \in Keys
    BY Zenon, <1>2, <1>t, TargetType DEF RemoveTake, Goto, RemoveSteps
  <2>2. \A d \in Conns : step[d] \in {"take", "uncount"} =>
            Target(d)' = Target(d)
    BY ZenonT(60), <1>t, TargetNext
  <2>3. GivesBack(KeyOf[x])' <=> GivesBack(KeyOf[x]) \/ KeyOf[x] = Target(c)
    BY <1>t, <2>1, <2>2 DEF GivesBack, TypeOK
  <2>4. step'[x] \in {"index", "publish"} <=> step[x] \in {"index", "publish"}
    BY <1>t, <2>1 DEF TypeOK
  <2>5. sessions'[KeyOf[x]] # None
          <=> sessions[KeyOf[x]] # None /\ KeyOf[x] # Target(c)
    BY <1>t, <2>1 DEF TypeOK
  <2> QED
    BY <1>2, <2>3, <2>4, <2>5 DEF HoldsSlot, GivesBack
<1> QED
  BY Zenon, <1>1, <1>2

LEMMA PublishKeepsHolders ==
    ASSUME IInv, DistinctKeys, NEW c \in Conns, TryInsertPublish(c),
           NEW x \in Conns
    PROVE  HoldsSlot(x)' <=> HoldsSlot(x)
<1> DEFINE e == [conn |-> c, created_seq |-> seq]
<1>t. TypeOK /\ KeyOf[x] \in Keys /\ KeyOf[c] \in Keys /\ TaskStep(c)
  BY Zenon, NamesType DEF IInv, TaskStep
<1>1. /\ sessions' = [sessions EXCEPT ![KeyOf[c]] = e]
      /\ step' = [step EXCEPT ![c] = "serving"] /\ step[c] = "publish"
  BY ZenonT(60) DEF TryInsertPublish, Goto
<1>2. e # None
  BY <1>t, NoneAssumption DEF TypeOK, Entry
<1> HIDE DEF e
<1>3. \A d \in Conns : step'[d] = "uncount" <=> step[d] = "uncount"
  BY <1>t, <1>1 DEF TypeOK
<1>4. GivesBack(KeyOf[x])' <=> GivesBack(KeyOf[x])
  BY Zenon, <1>t, <1>3, GivesBackKept
<1>5. CASE x = c
  BY ZenonT(60), <1>t, <1>1, <1>2, <1>5 DEF HoldsSlot, TypeOK
<1>6. CASE x # c
  <2>1. KeyOf[x] # KeyOf[c]
    BY <1>6 DEF DistinctKeys
  <2>2. sessions'[KeyOf[x]] = sessions[KeyOf[x]] /\ step'[x] = step[x]
    BY SMTT(60), <1>t, <1>1, <1>6, <2>1 DEF TypeOK
  <2> QED
    BY <1>4, <2>2 DEF HoldsSlot, GivesBack
<1> QED
  BY Zenon, <1>5, <1>6

\* All other steps keep the holders and who waits, except that a call may be
\* refused, reserve a slot or give one back.
LEMMA OthersKeepStatus ==
    ASSUME IInv, NEW c \in Conns, NEW s, TaskStep(c) \/ LoopEnds(c),
           UNCHANGED sessions, step' = [step EXCEPT ![c] = s],
           step[c] # "uncount", s # "uncount",
           step[c] \in {"index", "publish"} <=> s \in {"index", "publish"},
           Waiting(c)' <=> Waiting(c), NEW x \in Conns
    PROVE  StatusOf(x)' = StatusOf(x)
<1>t. TypeOK /\ KeyOf[x] \in Keys
  BY NamesType DEF IInv
<1>1. \A d \in Conns : /\ step'[d] = "uncount" <=> step[d] = "uncount"
                       /\ step'[d] \in {"index", "publish"}
                            <=> step[d] \in {"index", "publish"}
  BY <1>t DEF TypeOK
<1>2. GivesBack(KeyOf[x])' <=> GivesBack(KeyOf[x])
  BY ZenonT(60), <1>t, <1>1, GivesBackKept
<1>3. HoldsSlot(x)' <=> HoldsSlot(x)
  BY <1>1, <1>2 DEF HoldsSlot, GivesBack
<1>4. Waiting(x)' <=> Waiting(x)
  <2>1. CASE x = c
    BY <2>1
  <2>2. CASE x # c
    <3>1. step'[x] = step[x] /\ (x \in dropping' <=> x \in dropping)
      BY ZenonT(60), <1>t, <2>2 DEF TypeOK, TaskStep, LoopEnds, CountUserSessions,
         EvictSnapshot, EvictScan, EvictChosen, RemoveUnindex,
         RemoveCheckEmpty, RemoveDropUser, RemoveTake, RemoveUncount,
         TryInsertReserve, TryInsertIndex, TryInsertPublish
    <3> QED
      BY ZenonT(60), <3>1 DEF Waiting
  <2> QED
    BY <2>1, <2>2
<1> QED
  BY ZenonT(60), <1>3, <1>4 DEF StatusOf

\* Nothing is stored under the key of a connection that waits, and no call
\* gives back a slot of it.
LEMMA WaitingIsOutside ==
    ASSUME IInv, DistinctKeys, OneRemoval, NEW c \in Conns, Waiting(c),
           step[c] \notin {"index", "publish"}
    PROVE  StatusOf(c) = "outside"
<1>1. ~Stored(KeyOf[c])
  BY ZenonT(60) DEF Stored, DistinctKeys
<1>2. sessions[KeyOf[c]] = None /\ ~GivesBack(KeyOf[c])
  BY <1>1, NamesType DEF OneRemoval, GivesBack
<1> QED
  BY Zenon, <1>2 DEF StatusOf, HoldsSlot, GivesBack

\* The slots and the counter of the tenant t after a step.
Kept == SlotStatus' = SlotStatus /\ UNCHANGED tenant_counts

Refused(c, t) ==
    /\ OnExceed[t] = "Deny" \/ ~HasCapacity(t)
    /\ Slots!Becomes(c, "outside", "gone")
    /\ UNCHANGED tenant_counts

Reserved(c, t) ==
    /\ HasCapacity(t)
    /\ Slots!Becomes(c, "outside", "inside")
    /\ tenant_counts' = [tenant_counts EXCEPT ![t] = @ + 1]

GivenBack(o, t) ==
    /\ TenantOfConn(o) = t
    /\ Slots!Becomes(o, "inside", "gone")
    /\ tenant_counts' = [tenant_counts EXCEPT ![t] = FetchSub(@)]

\* A call that returns without an entry.
LEMMA RefusalStatus ==
    ASSUME IInv, DistinctKeys, OneRemoval, NEW c \in Conns,
           CountUserSessions(c) \/ TryInsertReserve(c),
           step'[c] = "done"
    PROVE  Refused(c, TenantOfConn(c))
<1>t. TypeOK /\ TaskStep(c) /\ c \notin dropping
  BY Zenon DEF IInv, TaskStep, DropSteps, RemoveSteps, CountUserSessions,
     TryInsertReserve
<1>1. /\ step' = [step EXCEPT ![c] = "done"] /\ step[c] \in {"count", "reserve"}
      /\ UNCHANGED <<sessions, tenant_counts, dropping>>
      /\ OnExceed[TenantOfConn(c)] = "Deny" \/ ~HasCapacity(TenantOfConn(c))
  BY Zenon, <1>t DEF TypeOK, CountUserSessions, TryInsertReserve, Goto
<1>2. Waiting(c) /\ ~Waiting(c)'
  BY <1>t, <1>1 DEF Waiting, TypeOK
<1>3. StatusOf(c) = "outside"
  BY ZenonT(60), <1>1, <1>2, WaitingIsOutside
<1>4. \A d \in Conns : /\ step'[d] = "uncount" <=> step[d] = "uncount"
                       /\ step'[d] \in {"index", "publish"}
                            <=> step[d] \in {"index", "publish"}
  BY SMTT(60), <1>t, <1>1 DEF TypeOK
<1>5. \A x \in Conns : HoldsSlot(x)' <=> HoldsSlot(x)
  BY SMTT(60), <1>t, <1>1, <1>4, GivesBackKept, NamesType DEF HoldsSlot, GivesBack
<1>6. StatusOf(c)' = "gone"
  BY ZenonT(60), <1>2, <1>3, <1>5 DEF StatusOf
<1>7. \A x \in Conns \ {c} : Waiting(x)' <=> Waiting(x)
  BY <1>t, <1>1 DEF Waiting, TypeOK
<1>8. \A x \in Conns \ {c} : StatusOf(x)' = StatusOf(x)
  BY <1>5, <1>7 DEF StatusOf
<1>9. Slots!Becomes(c, "outside", "gone")
  BY ZenonT(60), <1>3, <1>6, <1>8 DEF Slots!Becomes, SlotStatus
<1> QED
  BY Zenon, <1>1, <1>9 DEF Refused

\* try_insert has raised the counter.
LEMMA ReservedStatus ==
    ASSUME IInv, DistinctKeys, OneRemoval, NEW c \in Conns,
           TryInsertReserve(c), HasCapacity(TenantOfConn(c))
    PROVE  Reserved(c, TenantOfConn(c))
<1>t. TypeOK /\ TaskStep(c) /\ c \notin dropping
  BY DEF IInv, TaskStep, DropSteps, RemoveSteps, TryInsertReserve
<1>1. /\ step' = [step EXCEPT ![c] = "index"] /\ step[c] = "reserve"
      /\ UNCHANGED <<sessions, dropping>>
      /\ tenant_counts' = [tenant_counts EXCEPT ![TenantOfConn(c)] = @ + 1]
  BY DEF TryInsertReserve, Goto
<1>2. StatusOf(c) = "outside"
  BY Zenon, <1>t, <1>1, WaitingIsOutside DEF Waiting
<1>3. StatusOf(c)' = "inside"
  BY Zenon, <1>t, <1>1 DEF StatusOf, HoldsSlot, TypeOK
<1>4. \A d \in Conns : step'[d] = "uncount" <=> step[d] = "uncount"
  BY ZenonT(60), <1>t, <1>1 DEF TypeOK
<1>5. \A k \in Keys : GivesBack(k)' <=> GivesBack(k)
  BY ZenonT(60), <1>t, <1>4, GivesBackKept
<1>6. \A x \in Conns \ {c} : step'[x] = step[x]
  BY ZenonT(60), <1>t, <1>1 DEF TypeOK
<1>7. \A x \in Conns \ {c} : StatusOf(x)' = StatusOf(x)
  BY SMTT(60), <1>1, <1>5, <1>6, NamesType DEF StatusOf, HoldsSlot, GivesBack, Waiting
<1>8. Slots!Becomes(c, "outside", "inside")
  BY ZenonT(60), <1>2, <1>3, <1>7 DEF Slots!Becomes, SlotStatus
<1> QED
  BY ZenonT(60), <1>1, <1>8 DEF Reserved

\* remove_session has lowered the counter: the owner of the entry it has taken
\* loses its slot.
LEMMA GivenBackStatus ==
    ASSUME IInv, DistinctKeys, OneRemoval, NEW c \in Conns, RemoveUncount(c)
    PROVE  \E o \in Conns : GivenBack(o, TenantOfConn(c))
<1>t. TypeOK /\ TaskStep(c)
  BY DEF IInv, TaskStep
<1>1. /\ step[c] = "uncount" /\ UNCHANGED <<sessions, dropping>>
      /\ step' = [step EXCEPT ![c] = IF c \in dropping THEN "done" ELSE "reserve"]
      /\ tenant_counts' =
           [tenant_counts EXCEPT ![TenantOfConn(c)] = FetchSub(@)]
  BY Zenon DEF RemoveUncount, Removed, Goto
<1>2. PICK o \in Conns : KeyOf[o] = Target(c) /\ ~Waiting(o)
  BY Zenon, <1>1 DEF OneRemoval, Stored
<1>3. /\ sessions[KeyOf[o]] = None
      /\ TenantOfConn(o) = TenantOfConn(c)
      /\ \A d \in Conns \ {c} : step[d] = "uncount" => Target(d) # KeyOf[o]
  BY ZenonT(60), <1>1, <1>2 DEF OneRemoval, TenantOfConn
<1>4. StatusOf(o) = "inside"
  BY <1>1, <1>2 DEF StatusOf, HoldsSlot
<1>5. \A d \in Conns : step[d] = "uncount" => Target(d)' = Target(d)
  BY Zenon, <1>t, TargetNext
<1>6. /\ \A d \in Conns : step'[d] = "uncount" <=> step[d] = "uncount" /\ d # c
      /\ \A d \in Conns : step'[d] \in {"index", "publish"}
                            <=> step[d] \in {"index", "publish"}
  BY ZenonT(60), <1>t, <1>1 DEF TypeOK
<1>7. ~GivesBack(KeyOf[o])'
  BY <1>3, <1>5, <1>6 DEF GivesBack
<1>8. ~Waiting(o)' /\ step[o] \notin {"index", "publish"}
  <2>1. ~Waiting(o)'
    BY <1>t, <1>2, WaitingNext
  <2>2. step[o] \notin {"index", "publish"}
    BY ZenonT(60), <1>2 DEF Waiting, IInv, DropSteps, RemoveSteps
  <2> QED
    BY <2>1, <2>2
<1>9. StatusOf(o)' = "gone"
  BY SMTT(60), <1>1, <1>3, <1>6, <1>7, <1>8 DEF StatusOf, HoldsSlot, GivesBack
<1>10. ASSUME NEW x \in Conns \ {o} PROVE StatusOf(x)' = StatusOf(x)
  <2>1. KeyOf[x] # Target(c)
    BY Zenon, <1>2 DEF DistinctKeys
  <2>2. GivesBack(KeyOf[x])' <=> GivesBack(KeyOf[x])
    BY ZenonT(60), <1>5, <1>6, <2>1 DEF GivesBack
  <2>3. HoldsSlot(x)' <=> HoldsSlot(x)
    BY ZenonT(60), <1>1, <1>6, <2>2 DEF HoldsSlot, GivesBack
  <2>4. Waiting(x)' <=> Waiting(x)
    BY <1>t, <1>1 DEF Waiting, TypeOK
  <2> QED
    BY <2>3, <2>4 DEF StatusOf
<1>11. Slots!Becomes(o, "inside", "gone")
  BY ZenonT(60), <1>4, <1>9, <1>10 DEF Slots!Becomes, SlotStatus
<1> QED
  BY <1>1, <1>3, <1>11 DEF GivenBack

\* What every step is, seen through SlotStatus.
LEMMA StatusNext ==
    ASSUME IInv, DistinctKeys, OneRemoval, NEW c \in Conns,
           TaskStep(c) \/ LoopEnds(c)
    PROVE  \/ Kept
           \/ Refused(c, TenantOfConn(c))
           \/ Reserved(c, TenantOfConn(c))
           \/ \E o \in Conns : GivenBack(o, TenantOfConn(c))
<1>t. TypeOK
  BY Zenon DEF IInv
<1>k. ASSUME UNCHANGED tenant_counts,
             \A x \in Conns : StatusOf(x)' = StatusOf(x)
      PROVE  Kept
  BY <1>k DEF Kept, SlotStatus
<1>q. ASSUME NEW s, UNCHANGED <<sessions, tenant_counts>>,
             step' = [step EXCEPT ![c] = s], step[c] # "uncount", s # "uncount",
             step[c] \in {"index", "publish"} <=> s \in {"index", "publish"},
             Waiting(c)' <=> Waiting(c)
      PROVE  Kept
  BY ZenonT(60), <1>q, <1>k, OthersKeepStatus
<1>1. CASE CountUserSessions(c)
  <2>1. CASE step'[c] = "done"
    BY <1>1, <2>1, RefusalStatus
  <2>2. CASE step'[c] # "done"
    <3>1. /\ \E s \in {"reserve", "snapshot"} : step' = [step EXCEPT ![c] = s]
          /\ UNCHANGED <<sessions, tenant_counts, dropping>>
          /\ step[c] = "count"
      BY ZenonT(60), <1>t, <1>1, <2>2 DEF CountUserSessions, Goto, TypeOK
    <3>2. Waiting(c)' <=> Waiting(c)
      BY <1>t, <3>1 DEF Waiting, TypeOK
    <3> QED
      BY Zenon, <1>q, <3>1, <3>2
  <2> QED
    BY SMTT(60), <2>1, <2>2
<1>2. CASE EvictSnapshot(c) \/ EvictScan(c) \/ EvictChosen(c)
  <2>1. /\ \E s \in {"reserve", "scan", "unindex"} : step' = [step EXCEPT ![c] = s]
        /\ UNCHANGED <<sessions, tenant_counts, dropping>>
        /\ step[c] \in {"snapshot", "scan"}
    BY ZenonT(60), <1>t, <1>2 DEF EvictSnapshot, EvictScan, EvictChosen, Goto, TypeOK
  <2>2. Waiting(c)' <=> Waiting(c)
    BY <1>t, <2>1 DEF Waiting, TypeOK
  <2> QED
    BY Zenon, <1>q, <2>1, <2>2
<1>3. CASE RemoveUnindex(c) \/ RemoveCheckEmpty(c) \/ RemoveDropUser(c)
  <2>1. /\ \E s \in {"check_empty", "drop_user", "take"} :
              step' = [step EXCEPT ![c] = s]
        /\ UNCHANGED <<sessions, tenant_counts, dropping>>
        /\ step[c] \in {"unindex", "check_empty", "drop_user"}
    BY Zenon, <1>t, <1>3 DEF RemoveUnindex, RemoveCheckEmpty, RemoveDropUser, Goto
  <2>2. Waiting(c)' <=> Waiting(c)
    BY Zenon, <1>t, <2>1 DEF Waiting, TypeOK
  <2> QED
    BY Zenon, <1>q, <2>1, <2>2
<1>4. CASE RemoveTake(c)
  <2>1. /\ \E s \in {"done", "reserve", "uncount"} :
              /\ step' = [step EXCEPT ![c] = s]
              /\ s = "done" <=> c \in dropping /\ s # "uncount"
        /\ UNCHANGED <<tenant_counts, dropping>> /\ step[c] = "take"
    BY ZenonT(60), <1>4 DEF RemoveTake, Removed, Goto
  <2>2. \A x \in Conns : Waiting(x)' <=> Waiting(x)
    BY <1>t, <2>1 DEF Waiting, TypeOK
  <2> QED
    BY ZenonT(60), <1>4, <1>k, <2>1, <2>2, TakeKeepsHolders DEF StatusOf
<1>5. CASE RemoveUncount(c)
  BY Zenon, <1>5, GivenBackStatus
<1>6. CASE TryInsertReserve(c)
  <2>1. CASE HasCapacity(TenantOfConn(c))
    BY <1>6, <2>1, ReservedStatus
  <2>2. CASE ~HasCapacity(TenantOfConn(c))
    <3>1. step'[c] = "done"
      BY <1>t, <1>6, <2>2 DEF TryInsertReserve, Goto, TypeOK
    <3> QED
      BY ZenonT(60), <1>6, <3>1, RefusalStatus
  <2> QED
    BY Zenon, <2>1, <2>2
<1>7. CASE TryInsertIndex(c)
  <2>1. /\ step' = [step EXCEPT ![c] = "publish"] /\ step[c] = "index"
        /\ UNCHANGED <<sessions, tenant_counts, dropping>>
    BY Zenon, <1>7 DEF TryInsertIndex, Goto
  <2>2. Waiting(c)' <=> Waiting(c)
    BY ZenonT(60), <1>t, <2>1 DEF Waiting, TypeOK
  <2> QED
    BY Zenon, <1>q, <2>1, <2>2
<1>8. CASE TryInsertPublish(c)
  <2>1. /\ step' = [step EXCEPT ![c] = "serving"] /\ step[c] = "publish"
        /\ UNCHANGED <<tenant_counts, dropping>>
    BY <1>8 DEF TryInsertPublish, Goto
  <2>2. \A x \in Conns : HoldsSlot(x)' <=> HoldsSlot(x)
    BY Zenon, <1>8, PublishKeepsHolders
  <2>3. HoldsSlot(c)
    BY ZenonT(60), <2>1 DEF HoldsSlot
  <2>4. \A x \in Conns \ {c} : Waiting(x)' <=> Waiting(x)
    BY <1>t, <2>1 DEF Waiting, TypeOK
  <2> QED
    BY ZenonT(60), <1>k, <2>1, <2>2, <2>3, <2>4 DEF StatusOf
<1>9. CASE LoopEnds(c)
  <2>1. /\ step' = [step EXCEPT ![c] = "unindex"] /\ step[c] = "serving"
        /\ UNCHANGED <<sessions, tenant_counts>> /\ c \in dropping'
    BY <1>9 DEF LoopEnds, Goto
  <2>2. Waiting(c)' <=> Waiting(c)
    BY <2>1 DEF Waiting
  <2> QED
    BY ZenonT(60), <1>q, <2>1, <2>2
<1> QED
  BY SMTT(60), <1>1, <1>2, <1>3, <1>4, <1>5, <1>6, <1>7, <1>8, <1>9 DEF TaskStep

-----------------------------------------------------------------------------
(* The counter is the number of holders.                                   *)

LEMMA HoldersType ==
    ASSUME NEW t
    PROVE  /\ IsFiniteSet(Slots!Holders(t))
           /\ Cardinality(Slots!Holders(t)) \in Nat
           /\ \A c \in Conns : c \in Slots!Holders(t)
                <=> SlotStatus[c] = "inside" /\ TenantOfConn(c) = t
<1>1. Slots!Holders(t) \in SUBSET Conns
  BY DEF Slots!Holders
<1>2. IsFiniteSet(Slots!Holders(t))
  BY ZenonT(60), <1>1, FiniteAssumption, FS_Subset
<1> QED
  BY Zenon, <1>2, FS_CardinalityType DEF Slots!Holders

LEMMA CountsHoldersNext ==
    ASSUME IInv, DistinctKeys, OneRemoval, CountsHolders, NEW c \in Conns,
           TaskStep(c) \/ LoopEnds(c)
    PROVE  CountsHolders'
<1> DEFINE tc == TenantOfConn(c)
<1> SUFFICES ASSUME NEW t \in Tenants
             PROVE  tenant_counts'[t] = Cardinality(Slots!Holders(t)')
  BY ZenonT(60) DEF CountsHolders
<1>1. /\ tenant_counts[t] = Cardinality(Slots!Holders(t))
      /\ tenant_counts \in [Tenants -> Nat] /\ tc \in Tenants
  BY NamesType DEF CountsHolders, IInv, TypeOK
<1>2. IsFiniteSet(Slots!Holders(t)) /\ Cardinality(Slots!Holders(t)) \in Nat
  BY HoldersType
<1> HIDE DEF tc
<1>3. CASE Kept
  BY <1>1, <1>3 DEF Kept, Slots!Holders
<1>4. CASE Refused(c, tc)
  <2>1. Slots!Holders(t)' = Slots!Holders(t)
    BY <1>4 DEF Refused, Slots!Becomes, Slots!Holders, SlotStatus
  <2> QED
    BY ZenonT(60), <1>1, <1>4, <2>1 DEF Refused
<1>5. CASE Reserved(c, tc)
  <2>1. CASE t = tc
    <3>1. /\ Slots!Holders(t)' = Slots!Holders(t) \cup {c}
          /\ c \notin Slots!Holders(t)
      BY Zenon, <1>5, <2>1 DEF Reserved, Slots!Becomes, Slots!Holders, SlotStatus, tc
    <3>2. Cardinality(Slots!Holders(t)') = Cardinality(Slots!Holders(t)) + 1
      BY Zenon, <1>2, <3>1, OneMore
    <3> QED
      BY ZenonT(60), <1>1, <1>5, <2>1, <3>2 DEF Reserved
  <2>2. CASE t # tc
    <3>1. Slots!Holders(t)' = Slots!Holders(t)
      BY <1>5, <2>2 DEF Reserved, Slots!Becomes, Slots!Holders, SlotStatus, tc
    <3> QED
      BY ZenonT(60), <1>1, <1>5, <2>2, <3>1 DEF Reserved
  <2> QED
    BY <2>1, <2>2
<1>6. ASSUME NEW o \in Conns, GivenBack(o, tc)
      PROVE  tenant_counts'[t] = Cardinality(Slots!Holders(t)')
  <2>1. CASE t = tc
    <3>1. /\ Slots!Holders(t)' = Slots!Holders(t) \ {o}
          /\ o \in Slots!Holders(t)
      BY SMTT(60), <1>6, <2>1 DEF GivenBack, Slots!Becomes, Slots!Holders, SlotStatus
    <3>2. Cardinality(Slots!Holders(t)') = Cardinality(Slots!Holders(t)) - 1
      BY <1>2, <3>1, OneLess
    <3>3. Cardinality(Slots!Holders(t)) # 0
      BY Zenon, <1>2, <3>1, FS_EmptySet
    <3> QED
      BY ZenonT(60), <1>1, <1>2, <1>6, <2>1, <3>2, <3>3 DEF GivenBack, FetchSub
  <2>2. CASE t # tc
    <3>1. Slots!Holders(t)' = Slots!Holders(t)
      BY <1>6, <2>2 DEF GivenBack, Slots!Becomes, Slots!Holders, SlotStatus
    <3> QED
      BY ZenonT(60), <1>1, <1>6, <2>2, <3>1 DEF GivenBack
  <2> QED
    BY Zenon, <2>1, <2>2
<1> QED
  BY <1>3, <1>4, <1>5, <1>6, StatusNext DEF tc

LEMMA SlotInvInit == Init => SlotInv
<1> SUFFICES ASSUME Init PROVE SlotInv
  OBVIOUS
<1>1. IInv /\ OneRemoval
  BY ZenonT(60), IInvInit, OneRemovalInit
<1>2. ASSUME NEW t \in Tenants
      PROVE  tenant_counts[t] = Cardinality(Slots!Holders(t))
  <2>1. Slots!Holders(t) = {}
    BY NamesType DEF Init, Slots!Holders, SlotStatus, StatusOf, HoldsSlot
  <2> QED
    BY SMTT(60), <2>1, FS_EmptySet DEF Init
<1> QED
  BY <1>1, <1>2 DEF SlotInv, CountsHolders

LEMMA SlotInvNext ==
    ASSUME DistinctKeys, SlotInv, [Next]_vars
    PROVE  SlotInv'
<1>1. ASSUME NEW c \in Conns, TaskStep(c) \/ LoopEnds(c)
      PROVE  SlotInv'
  <2>1. IInv'
    BY Zenon, <1>1, IInvNext DEF SlotInv, Next
  <2>2. OneRemoval'
    BY Zenon, <1>1, OneRemovalNext DEF SlotInv
  <2>3. CountsHolders'
    BY <1>1, CountsHoldersNext DEF SlotInv
  <2> QED
    BY <2>1, <2>2, <2>3 DEF SlotInv
<1>2. CASE UNCHANGED vars
  <2>1. IInv'
    BY SMTT(60), <1>2, IInvNext DEF SlotInv
  <2>2. OneRemoval'
    <3>1. UNCHANGED <<sessions, step>> /\ OneRemoval
      BY Zenon, <1>2 DEF vars, SlotInv
    <3>2. \A d \in Conns : Target(d)' = Target(d)
      BY Zenon, <1>2 DEF vars, Target
    <3>3. \A k : Stored(k)' <=> Stored(k)
      BY Zenon, <1>2 DEF vars, Stored, Waiting
    <3>4. \A d \in Conns : Stored(Target(d))' <=> Stored(Target(d))
      BY ZenonT(60), <1>2, <3>2 DEF vars, Stored, Waiting
    <3> QED
      BY <3>1, <3>2, <3>3, <3>4 DEF OneRemoval, TenantOfKey, TenantOfConn
  <2>3. SlotStatus' = SlotStatus
    BY <1>2 DEF vars, SlotStatus, StatusOf, HoldsSlot, Waiting, Target
  <2>4. CountsHolders'
    BY ZenonT(60), <1>2, <2>3 DEF SlotInv, CountsHolders, Slots!Holders, vars
  <2> QED
    BY <2>1, <2>2, <2>4 DEF SlotInv
<1> QED
  BY <1>1, <1>2 DEF Next

-----------------------------------------------------------------------------
\* The test of try_insert against the counter is the test for a free slot.
LEMMA CapacityIsFree ==
    ASSUME SlotInv, NEW t \in Tenants
    PROVE  HasCapacity(t) <=> Slots!Free(t)
<1>1. tenant_counts[t] = Cardinality(Slots!Holders(t)) /\ tenant_counts[t] \in Nat
  BY DEF SlotInv, CountsHolders, IInv, TypeOK
<1>2. Slots!Cardinality(Slots!Holders(t)) = Cardinality(Slots!Holders(t))
  BY ZenonT(60) DEF Cardinality, Slots!Cardinality
<1> QED
  BY SMTT(60), <1>1, <1>2, LimitsAssumption DEF HasCapacity, Slots!Free

LEMMA SlotsInit == Init => Slots!Init
BY SMTT(60), NamesType DEF Init, Slots!Init, SlotStatus, StatusOf, HoldsSlot, Waiting

LEMMA SlotsNext ==
    ASSUME DistinctKeys, SlotInv, [Next]_vars
    PROVE  [Slots!Next]_SlotStatus
<1> DEFINE Tenant == [x \in Conns |-> TenantOfConn(x)]
<1>1. ASSUME NEW c \in Conns, TaskStep(c) \/ LoopEnds(c)
      PROVE  [Slots!Next]_SlotStatus
  <2> DEFINE t == TenantOfConn(c)
  <2>1. t \in Tenants /\ Tenant[c] = t
    BY NamesType
  <2>2. HasCapacity(t) <=> Slots!Free(t)
    BY <2>1, CapacityIsFree
  <2> HIDE DEF t
  <2>3. CASE Kept
    BY Zenon, <2>3 DEF Kept
  <2>4. CASE Refused(c, t)
    BY ZenonT(60), <2>1, <2>2, <2>4 DEF Refused, Slots!TurnAway, Slots!Next
  <2>5. CASE Reserved(c, t)
    BY <2>1, <2>2, <2>5 DEF Reserved, Slots!Enter, Slots!Next
  <2>6. ASSUME NEW o \in Conns, GivenBack(o, t)
        PROVE  [Slots!Next]_SlotStatus
    BY ZenonT(60), <2>6 DEF GivenBack, Slots!Release, Slots!Next
  <2> QED
    BY ZenonT(60), <1>1, <2>3, <2>4, <2>5, <2>6, StatusNext DEF SlotInv, t
<1>2. CASE UNCHANGED vars
  BY <1>2 DEF vars, SlotStatus, StatusOf, HoldsSlot, Waiting, Target
<1> QED
  BY Zenon, <1>1, <1>2 DEF Next

\* With a session key per connection, try_insert, remove_session, evict_oldest
\* and the clean-up hand out the slots of every tenant as Admission does,
\* however the accesses to the three maps interleave.
THEOREM ImplementsAdmission == DistinctKeys => (Spec => AdmissionSpec)
<1> SUFFICES ASSUME DistinctKeys PROVE Spec => AdmissionSpec
  OBVIOUS
<1>1. Init => SlotInv
  BY SlotInvInit
<1>2. SlotInv /\ [Next]_vars => SlotInv'
  BY SlotInvNext
<1>3. Init => Slots!Init
  BY SlotsInit
<1>4. SlotInv /\ [Next]_vars => [Slots!Next]_SlotStatus
  BY SlotsNext
<1> QED
  BY <1>1, <1>2, <1>3, <1>4, PTL DEF Spec, AdmissionSpec, Slots!Spec
=============================================================================
