------------------------ MODULE RegistryIndexProofs ------------------------
(***************************************************************************)
(* Proofs about the user index of SessionRegistry, the order of eviction   *)
(* and the gauge, for every set of connections and every limit.            *)
(*                                                                         *)
(* With a session key per connection a key is put in the index once, by    *)
(* the try_insert of its connection, and taken out by remove_session       *)
(* before the entry is: no call puts it back (TargetUnindexed), because    *)
(* the victim of an eviction is a connection that has stored its entry     *)
(* (VictimPast).                                                           *)
(*                                                                         *)
(* evict_oldest looks at the entries of its snapshot one by one.  That it  *)
(* still removes the oldest one needs two facts about the time before it   *)
(* has found any entry (NoneFoundYet): what has come after the snapshot is *)
(* younger than what is still to be looked at, and as long as a key of the *)
(* snapshot waits for its entry nothing has come after it, since the       *)
(* try_insert of one connection of a tenant excludes that of another       *)
(* (OneInserts).                                                           *)
(***************************************************************************)
EXTENDS SessionRegistryProofs

InIndex(k) == user_index[UserOf[k]] # None /\ k \in user_index[UserOf[k]]

\* What is stored under a key belongs to a task that serves or that is dropping
\* its SessionCleanup.
EntryHasOwner ==
    \A k \in Keys : sessions[k] # None =>
        \E d \in Conns : /\ KeyOf[d] = k
                         /\ \/ step[d] = "serving"
                            \/ d \in dropping /\ step[d] \in RemoveSteps

\* The victim is a key whose task has stored its entry.
VictimPast ==
    \A c, d \in Conns :
        victim[c] # None /\ victim[c].key = KeyOf[d] => ~Waiting(d)

\* remove_session has taken the key out of the index before it removes the entry.
TargetUnindexed ==
    \A c \in Conns : step[c] \in {"check_empty", "drop_user", "take"} =>
        ~InIndex(Target(c))

Indexed ==
    \A k \in Keys : InIndex(k) =>
        sessions[k] # None \/ \E c \in Conns : KeyOf[c] = k /\ step[c] = "publish"

\* An empty set of a user is about to be removed.
EmptyAttended ==
    \A u \in Users : user_index[u] = {} =>
        \E c \in Conns : UserOfConn(c) = u /\ step[c] \in {"check_empty", "drop_user"}

\* try_insert of one tenant excludes another.
OneInserts ==
    \A c, d \in Conns :
        (/\ step[c] \in {"index", "publish"} /\ step[d] \in {"index", "publish"}
         /\ TenantOfConn(c) = TenantOfConn(d)) => c = d

\* created_seq numbers the entries in the order of their insertion, and the victim
\* keeps the number of its entry.
Numbers ==
    /\ \A k \in Keys : sessions[k] # None => sessions[k].created_seq < seq
    /\ \A j, k \in Keys :
         (sessions[j] # None /\ sessions[k] # None
            /\ sessions[j].created_seq = sessions[k].created_seq) => j = k
    /\ \A c \in Conns : victim[c] # None =>
         /\ victim[c].created_seq < seq
         /\ \A k \in Keys : sessions[k] # None =>
              (sessions[k].created_seq = victim[c].created_seq <=> k = victim[c].key)

\* evict_oldest works on a snapshot only while it scans it, starts without a
\* victim, has looked at the victim, and meets a connection that has not stored
\* its entry only after it has put its key in the index.
Snapshots ==
    /\ \A c \in Conns : step[c] # "scan" => keys[c] = {}
    /\ \A c \in Conns : step[c] \in {"count", "snapshot"} => victim[c] = None
    /\ \A c \in Conns : victim[c] # None => victim[c].key \notin keys[c]
    /\ \A c, d \in Conns :
         (KeyOf[d] \in keys[c] /\ Waiting(d)) => step[d] = "publish"

\* The indexed keys of the user that evict_oldest has looked at or that came
\* after its snapshot.
Seen(c) == {k \in Keys : UserOf[k] = UserOfConn(c) /\ InIndex(k) /\ k \notin keys[c]}

\* While evict_oldest has found nothing, what it still has to look at is older
\* than what came after its snapshot.
NoneFoundYet(c) ==
    (step[c] = "scan" /\ victim[c] = None) =>
        /\ \A p \in keys[c], k \in Seen(c) :
              (sessions[p] # None /\ sessions[k] # None) =>
                  sessions[p].created_seq < sessions[k].created_seq
        /\ (\E d \in Conns : KeyOf[d] \in keys[c] /\ step[d] = "publish") =>
              Seen(c) = {}

\* The victim is older than everything else that evict_oldest has looked at or
\* that came later.
VictimIsOldest(c) ==
    (c \notin dropping /\ step[c] \in {"scan"} \cup RemoveSteps /\ victim[c] # None) =>
        \A k \in Seen(c) : (sessions[k] # None /\ k # victim[c].key) =>
            victim[c].created_seq < sessions[k].created_seq

IndexInv ==
    DistinctKeys =>
        /\ EntryHasOwner /\ VictimPast /\ TargetUnindexed /\ Indexed /\ Numbers
        /\ Snapshots /\ \A c \in Conns : NoneFoundYet(c) /\ VictimIsOldest(c)

\* Without eviction only a task that drops its SessionCleanup removes a session.
NoEviction ==
    \A c \in Conns : OnExceed[TenantOfConn(c)] = "Deny" /\ c \notin dropping =>
        step[c] \in {"count", "reserve", "index", "publish", "serving", "done"}

-----------------------------------------------------------------------------
\* Where each step of a task leads.
Moves(c) ==
    \/ /\ CountUserSessions(c) /\ step[c] = "count"
       /\ step'[c] \in {"reserve", "done", "snapshot"}
       /\ step'[c] = "snapshot" => OnExceed[TenantOfConn(c)] = "KickOldest"
    \/ EvictSnapshot(c) /\ step[c] = "snapshot" /\ step'[c] \in {"reserve", "scan"}
    \/ EvictScan(c) /\ step[c] = "scan" /\ step'[c] = "scan"
    \/ EvictChosen(c) /\ step[c] = "scan" /\ step'[c] \in {"reserve", "unindex"}
    \/ RemoveUnindex(c) /\ step[c] = "unindex" /\ step'[c] \in {"check_empty", "take"}
    \/ RemoveCheckEmpty(c) /\ step[c] = "check_empty" /\ step'[c] \in {"drop_user", "take"}
    \/ RemoveDropUser(c) /\ step[c] = "drop_user" /\ step'[c] = "take"
    \/ /\ RemoveTake(c) /\ step[c] = "take"
       /\ \/ step'[c] = "uncount" /\ active' = active
          \/ step'[c] = IF c \in dropping THEN "done" ELSE "reserve"
    \/ /\ RemoveUncount(c) /\ step[c] = "uncount"
       /\ step'[c] = IF c \in dropping THEN "done" ELSE "reserve"
    \/ TryInsertReserve(c) /\ step[c] = "reserve" /\ step'[c] \in {"index", "done"}
    \/ TryInsertIndex(c) /\ step[c] = "index" /\ step'[c] = "publish"
    \/ TryInsertPublish(c) /\ step[c] = "publish" /\ step'[c] = "serving"
    \/ LoopEnds(c) /\ step[c] = "serving" /\ step'[c] = "unindex"

LEMMA MovesOf ==
    ASSUME TypeOK, NEW c \in Conns, TaskStep(c) \/ LoopEnds(c)
    PROVE  Moves(c)
<1> USE DEF TypeOK, Goto, Moves
<1>1. ASSUME CountUserSessions(c) PROVE Moves(c)
  BY <1>1 DEF CountUserSessions
<1>2. ASSUME EvictSnapshot(c) PROVE Moves(c)
  BY <1>2 DEF EvictSnapshot
<1>3. ASSUME EvictScan(c) PROVE Moves(c)
  BY Zenon, <1>3 DEF EvictScan
<1>4. ASSUME EvictChosen(c) PROVE Moves(c)
  BY <1>4 DEF EvictChosen
<1>5. ASSUME RemoveUnindex(c) PROVE Moves(c)
  BY <1>5 DEF RemoveUnindex
<1>6. ASSUME RemoveCheckEmpty(c) PROVE Moves(c)
  BY <1>6 DEF RemoveCheckEmpty
<1>7. ASSUME RemoveDropUser(c) PROVE Moves(c)
  BY <1>7 DEF RemoveDropUser
<1>8. ASSUME RemoveTake(c) PROVE Moves(c)
  BY <1>8 DEF RemoveTake, Removed
<1>9. ASSUME RemoveUncount(c) PROVE Moves(c)
  BY <1>9 DEF RemoveUncount, Removed
<1>10. ASSUME TryInsertReserve(c) PROVE Moves(c)
  BY <1>10 DEF TryInsertReserve
<1>11. ASSUME TryInsertIndex(c) PROVE Moves(c)
  BY SMTT(60), <1>11 DEF TryInsertIndex
<1>12. ASSUME TryInsertPublish(c) PROVE Moves(c)
  BY <1>12 DEF TryInsertPublish
<1>13. ASSUME LoopEnds(c) PROVE Moves(c)
  BY SMTT(60), <1>13 DEF LoopEnds
<1> HIDE DEF TypeOK, Goto, Moves
<1> QED
  BY ZenonT(60), <1>1, <1>2, <1>3, <1>4, <1>5, <1>6, <1>7, <1>8, <1>9, <1>10, <1>11, <1>12,
     <1>13 DEF TaskStep

\* What each variable is written by.
LEMMA Writes ==
    ASSUME NEW c \in Conns, TaskStep(c) \/ LoopEnds(c)
    PROVE  /\ sessions' = sessions \/ RemoveTake(c) \/ TryInsertPublish(c)
           /\ user_index' = user_index \/ RemoveUnindex(c) \/ RemoveDropUser(c)
                                       \/ TryInsertIndex(c)
           /\ seq' = seq \/ TryInsertPublish(c)
           /\ dropping' = dropping \/ LoopEnds(c)
           /\ keys' = keys \/ EvictSnapshot(c) \/ EvictScan(c)
           /\ victim' = victim \/ EvictScan(c)
           /\ active' = active \/ RemoveTake(c) \/ RemoveUncount(c) \/ TryInsertPublish(c)
BY ZenonT(60) DEF TaskStep, LoopEnds, CountUserSessions, EvictSnapshot, EvictScan,
   EvictChosen, RemoveUnindex, RemoveCheckEmpty, RemoveDropUser, RemoveTake,
   RemoveUncount, TryInsertReserve, TryInsertIndex, TryInsertPublish

LEMMA Others ==
    ASSUME TypeOK, NEW c \in Conns, TaskStep(c) \/ LoopEnds(c),
           NEW d \in Conns, d # c
    PROVE  /\ step'[d] = step[d] /\ victim'[d] = victim[d] /\ keys'[d] = keys[d]
           /\ d \in dropping' <=> d \in dropping
           /\ Target(d)' = Target(d)
<1>1. /\ step'[d] = step[d] /\ victim'[d] = victim[d] /\ keys'[d] = keys[d]
      /\ d \in dropping' <=> d \in dropping
  BY ZenonT(60) DEF TypeOK, Goto, TaskStep, LoopEnds, CountUserSessions, EvictSnapshot,
     EvictScan, EvictChosen, RemoveUnindex, RemoveCheckEmpty, RemoveDropUser, RemoveTake,
     RemoveUncount, Removed, TryInsertReserve, TryInsertIndex, TryInsertPublish
<1> QED
  BY ZenonT(60), <1>1 DEF Target

\* Only try_insert puts a key in the index, its own.
LEMMA IndexFlow ==
    ASSUME TypeOK, NEW c \in Conns, TaskStep(c) \/ LoopEnds(c), NEW k \in Keys,
           InIndex(k)'
    PROVE  InIndex(k) \/ (TryInsertIndex(c) /\ k = KeyOf[c])
<1> USE NamesType, NoneAssumption
<1>0. user_index \in [Users -> {None} \cup SUBSET Keys] /\ UserOf[k] \in Users
      /\ UserOfConn(c) \in Users
  BY Zenon DEF TypeOK
<1>1. CASE RemoveUnindex(c)
  BY SMTT(60), <1>0, <1>1 DEF RemoveUnindex, InIndex
<1>2. CASE RemoveDropUser(c)
  BY SMTT(60), <1>0, <1>2 DEF RemoveDropUser, InIndex
<1>3. CASE TryInsertIndex(c)
  BY SMTT(60), <1>0, <1>3 DEF TryInsertIndex, InIndex
<1>4. CASE UNCHANGED user_index
  BY Zenon, <1>4 DEF InIndex
<1> QED
  BY ZenonT(60), <1>1, <1>2, <1>3, <1>4, Writes

\* An entry is stored by try_insert under a free key and removed by
\* remove_session, and not changed otherwise.
LEMMA EntryFlow ==
    ASSUME IInv, DistinctKeys, NEW c \in Conns, TaskStep(c) \/ LoopEnds(c), NEW k \in Keys
    PROVE  \/ sessions'[k] = sessions[k]
           \/ RemoveTake(c) /\ k = Target(c) /\ sessions'[k] = None
           \/ /\ TryInsertPublish(c) /\ k = KeyOf[c] /\ sessions[k] = None
              /\ sessions'[k] # None /\ sessions'[k].created_seq = seq
<1>0. TypeOK /\ sessions \in [Keys -> {None} \cup Entry] /\ KeyOf[c] \in Keys
  BY Zenon, NamesType DEF IInv, TypeOK
<1>1. CASE RemoveTake(c)
  <2>1. Target(c) \in Keys
    BY Zenon, <1>1, TargetType DEF IInv, RemoveTake, RemoveSteps
  <2> QED
    BY Zenon, <1>0, <1>1, <2>1 DEF RemoveTake
<1>2. CASE TryInsertPublish(c)
  <2>1. Waiting(c)
    BY <1>2 DEF IInv, DropSteps, Waiting, TryInsertPublish, RemoveSteps
  <2>2. sessions[KeyOf[c]] = None
    BY Zenon, <2>1 DEF IInv, FreshKeys
  <2>3. sessions' = [sessions EXCEPT ![KeyOf[c]] = [conn |-> c, created_seq |-> seq]]
    BY Zenon, <1>2 DEF TryInsertPublish
  <2>4. [conn |-> c, created_seq |-> seq] \in Entry
    BY DEF IInv, TypeOK, Entry
  <2>5. [conn |-> c, created_seq |-> seq].created_seq = seq
    OBVIOUS
  <2> QED
    BY ZenonT(60), <1>0, <1>2, <2>2, <2>3, <2>4, <2>5, NoneAssumption
<1>3. CASE UNCHANGED sessions
  BY Zenon, <1>3
<1> QED
  BY Zenon, <1>1, <1>2, <1>3, Writes

-----------------------------------------------------------------------------
\* Only a task that drops its SessionCleanup leaves "serving", and its own
\* remove_session ends without an entry.
LEMMA EntryHasOwnerNext ==
    ASSUME IInv, DistinctKeys, EntryHasOwner, NEW c \in Conns, TaskStep(c) \/ LoopEnds(c)
    PROVE  EntryHasOwner'
<1> SUFFICES ASSUME NEW k \in Keys, sessions'[k] # None
             PROVE  \E d \in Conns :
                       /\ KeyOf[d] = k
                       /\ \/ step'[d] = "serving"
                          \/ d \in dropping' /\ step'[d] \in RemoveSteps
  BY Zenon DEF EntryHasOwner
<1>0. TypeOK /\ step \in [Conns -> Steps]
  BY Zenon DEF IInv, TypeOK
<1>1. CASE TryInsertPublish(c) /\ k = KeyOf[c]
  BY <1>0, <1>1 DEF TryInsertPublish, Goto
<1>2. CASE sessions'[k] = sessions[k]
  <2>1. PICK d \in Conns : /\ KeyOf[d] = k
                           /\ \/ step[d] = "serving"
                              \/ d \in dropping /\ step[d] \in RemoveSteps
    BY Zenon, <1>2 DEF EntryHasOwner
  <2>2. CASE d # c
    BY Zenon, <1>0, <2>1, <2>2, Others
  <2>3. CASE d = c /\ step[c] = "serving"
    <3>1. LoopEnds(c)
      BY <1>0, <2>3, MovesOf DEF Moves
    <3>2. c \in dropping' /\ step'[c] = "unindex"
      BY <1>0, <3>1 DEF LoopEnds, Goto
    <3> QED
      BY <2>1, <2>3, <3>2 DEF RemoveSteps
  <2>4. CASE d = c /\ c \in dropping /\ step[c] \in RemoveSteps
    <3>1. c \in dropping'
      BY Zenon, <2>4, Writes DEF LoopEnds
    <3>2. CASE RemoveTake(c)
      <4>1. Target(c) = k /\ k \in Keys
        BY Zenon, <2>1, <2>4 DEF Target
      <4>2. sessions'[k] = None
        BY Zenon, <3>2, <4>1 DEF RemoveTake, IInv, TypeOK
      <4> QED
        BY Zenon, <4>2
    <3>3. CASE ~RemoveTake(c)
      <4>1. step'[c] \in RemoveSteps
        BY <1>0, <2>4, <3>3, MovesOf DEF Moves, RemoveSteps
      <4> QED
        BY ZenonT(60), <2>1, <2>4, <3>1, <4>1
    <3> QED
      BY <3>2, <3>3
  <2> QED
    BY Zenon, <2>1, <2>2, <2>3, <2>4
<1> QED
  BY Zenon, <1>1, <1>2, EntryFlow

-----------------------------------------------------------------------------
\* try_insert stores the entry of a connection that waits.
LEMMA InsertingWaits ==
    ASSUME DropSteps, NEW c \in Conns, step[c] \in {"index", "publish"}
    PROVE  Waiting(c)
BY DEF DropSteps, Waiting, RemoveSteps

\* The victim changes only when evict_oldest looks at an older entry.
LEMMA VictimFlow ==
    ASSUME TypeOK, NEW c \in Conns, TaskStep(c) \/ LoopEnds(c), NEW b \in Conns
    PROVE  \/ victim'[b] = victim[b]
           \/ /\ EvictScan(c) /\ b = c
              /\ \E k \in keys[c] :
                   /\ sessions[k] # None
                   /\ victim'[c] = [key |-> k, created_seq |-> sessions[k].created_seq]
                   /\ keys'[c] = keys[c] \ {k}
                   /\ OlderThanVictim(c, sessions[k])
<1>1. CASE EvictScan(c)
  BY ZenonT(60), <1>1 DEF EvictScan, TypeOK
<1>2. CASE UNCHANGED victim
  BY Zenon, <1>2
<1> QED
  BY Zenon, <1>1, <1>2, Writes

LEMMA VictimPastNext ==
    ASSUME IInv, DistinctKeys, VictimPast, NEW c \in Conns, TaskStep(c) \/ LoopEnds(c)
    PROVE  VictimPast'
<1> SUFFICES ASSUME NEW b \in Conns, NEW d \in Conns,
                    victim'[b] # None, victim'[b].key = KeyOf[d], Waiting(d)'
             PROVE  FALSE
  BY Zenon DEF VictimPast
<1>0. TypeOK /\ FreshKeys /\ Waiting(d)
  BY Zenon, WaitingNext DEF IInv
<1>1. CASE victim'[b] = victim[b]
  BY Zenon, <1>0, <1>1 DEF VictimPast
<1>2. CASE victim'[b] # victim[b]
  <2>1. PICK k \in keys[c] :
            /\ b = c /\ sessions[k] # None
            /\ victim'[c] = [key |-> k, created_seq |-> sessions[k].created_seq]
    BY ZenonT(60), <1>0, <1>2, VictimFlow
  <2>2. victim'[b].key = k
    BY <2>1
  <2> QED
    BY Zenon, <1>0, <2>1, <2>2 DEF FreshKeys
<1> QED
  BY <1>1, <1>2

\* Nobody else puts the key back that remove_session has taken out.
LEMMA TargetUnindexedNext ==
    ASSUME IInv, DistinctKeys, VictimPast, TargetUnindexed,
           NEW c \in Conns, TaskStep(c) \/ LoopEnds(c)
    PROVE  TargetUnindexed'
<1> DEFINE S == {"check_empty", "drop_user", "take"}
<1> SUFFICES ASSUME NEW d \in Conns, step'[d] \in S, InIndex(Target(d))'
             PROVE  FALSE
  BY Zenon DEF TargetUnindexed
<1>0. TypeOK /\ OwnKeys /\ DropSteps /\ OwnKeys' /\ TypeOK'
  BY Zenon, TypeNext, OwnKeysNext DEF IInv
<1>1. CASE d # c
  <2>1. step[d] \in S /\ Target(d)' = Target(d)
    BY Zenon, <1>0, <1>1, Others
  <2>2. Target(d) \in Keys
    <3>1. step[d] \in RemoveSteps
      BY <2>1 DEF RemoveSteps
    <3> QED
      BY ZenonT(60), <1>0, <3>1, TargetType
  <2>3. InIndex(Target(d))' = (user_index'[UserOf[Target(d)]] # None
                                /\ Target(d) \in user_index'[UserOf[Target(d)]])
    BY Zenon, <2>1 DEF InIndex
  <2>4. ASSUME NEW k \in Keys, k = Target(d) PROVE InIndex(k)'
    BY Zenon, <2>3, <2>4 DEF InIndex
  <2>5. TryInsertIndex(c) /\ Target(d) = KeyOf[c]
    BY ZenonT(60), <1>0, <2>1, <2>2, <2>4, IndexFlow DEF TargetUnindexed
  <2>6. Waiting(c)
    BY Zenon, <1>0, <2>5, InsertingWaits DEF TryInsertIndex
  <2>7. CASE d \in dropping
    BY Zenon, <1>1, <2>5, <2>7 DEF Target, DistinctKeys
  <2>8. CASE d \notin dropping
    <3>1. victim[d] # None
      BY <1>0, <2>1, <2>8 DEF OwnKeys, RemoveSteps
    <3> QED
      BY ZenonT(60), <2>5, <2>6, <2>8, <3>1 DEF Target, VictimPast
  <2> QED
    BY <2>7, <2>8
<1>2. CASE d = c
  <2>1. /\ RemoveUnindex(c) \/ RemoveCheckEmpty(c) \/ RemoveDropUser(c)
        /\ UNCHANGED <<dropping, victim>>
    <3>1. RemoveUnindex(c) \/ RemoveCheckEmpty(c) \/ RemoveDropUser(c)
      BY <1>0, <1>2, MovesOf DEF Moves
    <3> QED
      BY ZenonT(60), <3>1 DEF RemoveUnindex, RemoveCheckEmpty, RemoveDropUser
  <2>2. Target(c)' = Target(c)
    BY ZenonT(60), <2>1 DEF Target
  <2>3. step[c] \in RemoveSteps
    BY <2>1 DEF RemoveUnindex, RemoveCheckEmpty, RemoveDropUser, RemoveSteps
  <2>4. PICK k \in Keys : k = Target(c) /\ UserOf[k] = UserOfConn(c)
    BY Zenon, <1>0, <2>3, TargetType
  <2>5. InIndex(k)'
    BY Zenon, <1>2, <2>2, <2>4 DEF InIndex
  <2>6. CASE RemoveUnindex(c)
    <3>1. UserOfConn(c) \in Users /\ user_index \in [Users -> {None} \cup SUBSET Keys]
      BY Zenon, <1>0, NamesType DEF TypeOK
    <3> QED
      BY ZenonT(60), <2>4, <2>5, <2>6, <3>1, NoneAssumption DEF RemoveUnindex, InIndex
  <2>7. CASE RemoveCheckEmpty(c) \/ RemoveDropUser(c)
    <3>1. step[c] \in S
      BY SMTT(60), <2>7 DEF RemoveCheckEmpty, RemoveDropUser
    <3>2. InIndex(k)
      BY <1>0, <2>1, <2>4, <2>5, <2>7, IndexFlow
         DEF TryInsertIndex, RemoveCheckEmpty, RemoveDropUser
    <3> QED
      BY ZenonT(60), <2>4, <3>1, <3>2 DEF TargetUnindexed
  <2> QED
    BY <2>1, <2>6, <2>7
<1> QED
  BY <1>1, <1>2

LEMMA IndexedNext ==
    ASSUME IInv, DistinctKeys, TargetUnindexed, Indexed,
           NEW c \in Conns, TaskStep(c) \/ LoopEnds(c)
    PROVE  Indexed'
<1> SUFFICES ASSUME NEW k \in Keys, InIndex(k)'
             PROVE  \/ sessions'[k] # None
                    \/ \E d \in Conns : KeyOf[d] = k /\ step'[d] = "publish"
  BY Zenon DEF Indexed
<1>0. TypeOK
  BY DEF IInv
<1>1. CASE TryInsertIndex(c) /\ k = KeyOf[c]
  BY <1>0, <1>1 DEF TryInsertIndex, Goto, TypeOK
<1>2. CASE InIndex(k) /\ sessions[k] # None
  <2>1. ~(RemoveTake(c) /\ k = Target(c))
    BY Zenon, <1>2 DEF RemoveTake, TargetUnindexed
  <2> QED
    BY Zenon, <1>2, <2>1, EntryFlow
<1>3. ASSUME NEW d \in Conns, KeyOf[d] = k, step[d] = "publish", sessions[k] = None
      PROVE  \/ sessions'[k] # None
             \/ \E e \in Conns : KeyOf[e] = k /\ step'[e] = "publish"
  <2>1. CASE d # c
    BY Zenon, <1>0, <1>3, <2>1, Others
  <2>2. CASE d = c
    <3>1. TryInsertPublish(c)
      BY <1>0, <1>3, <2>2, MovesOf DEF Moves
    <3>2. step[c] = "publish" /\ sessions'[k] # sessions[k]
      <4>1. [conn |-> c, created_seq |-> seq] \in Entry
        BY <1>0 DEF TypeOK, Entry
      <4> QED
        BY ZenonT(60), <1>0, <1>3, <2>2, <3>1, <4>1, NoneAssumption DEF TryInsertPublish, TypeOK
    <3> QED
      BY ZenonT(60), <1>3, <3>2
  <2> QED
    BY <2>1, <2>2
<1> QED
  BY ZenonT(60), <1>0, <1>1, <1>2, <1>3, IndexFlow DEF Indexed

\* CounterGuarded: try_insert of one connection excludes that of another.
LEMMA OneInsertsNext ==
    ASSUME TypeOK, OneInserts, NEW c \in Conns, TaskStep(c) \/ LoopEnds(c)
    PROVE  OneInserts'
<1> DEFINE S == {"index", "publish"}
<1>1. CASE TryInsertReserve(c)
  <2>1. \A d \in Conns : step[d] \in S => TenantOfConn(d) # TenantOfConn(c)
    BY Zenon, <1>1 DEF TryInsertReserve, CounterGuarded
  <2>2. \A d \in Conns : d # c => step'[d] = step[d]
    BY Zenon, Others
  <2> HIDE DEF S
  <2> QED
    BY Zenon, <2>1, <2>2 DEF OneInserts, S
<1>2. CASE ~TryInsertReserve(c)
  <2>1. step'[c] \in S => step[c] \in S
    BY <1>2, MovesOf DEF Moves
  <2>2. \A d \in Conns : d # c => step'[d] = step[d]
    BY Zenon, Others
  <2> HIDE DEF S
  <2> QED
    BY ZenonT(60), <2>1, <2>2 DEF OneInserts, S
<1> QED
  BY <1>1, <1>2

\* The set that remove_session empties is removed by the same call.
LEMMA EmptyAttendedNext ==
    ASSUME TypeOK, EmptyAttended, NEW c \in Conns, TaskStep(c) \/ LoopEnds(c)
    PROVE  EmptyAttended'
<1> DEFINE S == {"check_empty", "drop_user"}
<1> SUFFICES ASSUME NEW u \in Users, user_index'[u] = {}
             PROVE  \E d \in Conns : UserOfConn(d) = u /\ step'[d] \in S
  BY Zenon DEF EmptyAttended
<1>1. CASE user_index[u] = {}
  <2>1. PICK d \in Conns : UserOfConn(d) = u /\ step[d] \in S
    BY Zenon, <1>1 DEF EmptyAttended
  <2>2. CASE d # c
    BY Zenon, <2>1, <2>2, Others
  <2>3. CASE d = c
    <3>1. RemoveCheckEmpty(c) \/ RemoveDropUser(c)
      BY <2>1, <2>3, MovesOf DEF Moves
    <3>2. ~RemoveDropUser(c)
      BY <2>1, <2>3, NoneAssumption DEF RemoveDropUser, TypeOK
    <3>3. step'[c] = "drop_user"
      BY <1>1, <2>1, <2>3, <3>1, <3>2 DEF RemoveCheckEmpty, Goto, TypeOK
    <3> QED
      BY SMTT(60), <2>1, <2>3, <3>3
  <2> QED
    BY <2>2, <2>3
<1>2. CASE user_index[u] # {}
  <2>1. CASE RemoveUnindex(c)
    BY <1>2, <2>1 DEF RemoveUnindex, Goto, TypeOK
  <2>2. CASE RemoveDropUser(c)
    BY SMTT(60), <1>2, <2>2, NoneAssumption DEF RemoveDropUser, TypeOK
  <2>3. CASE TryInsertIndex(c)
    BY Zenon, <1>2, <2>3 DEF TryInsertIndex, TypeOK
  <2>4. CASE UNCHANGED user_index
    BY Zenon, <1>2, <2>4
  <2> QED
    BY ZenonT(60), <2>1, <2>2, <2>3, <2>4, Writes
<1> QED
  BY <1>1, <1>2

-----------------------------------------------------------------------------
LEMMA SeqFlow ==
    ASSUME TypeOK, NEW c \in Conns, TaskStep(c) \/ LoopEnds(c)
    PROVE  seq' >= seq /\ (TryInsertPublish(c) => seq' = seq + 1)
<1>1. CASE TryInsertPublish(c)
  BY SMTT(60), <1>1 DEF TryInsertPublish, TypeOK
<1>2. CASE UNCHANGED seq /\ ~TryInsertPublish(c)
  BY <1>2 DEF TypeOK
<1> QED
  BY ZenonT(60), <1>1, <1>2, Writes

\* The entry that try_insert stores has a number that no entry and no victim has.
LEMMA NumbersNext ==
    ASSUME IInv, DistinctKeys, VictimPast, Numbers,
           NEW c \in Conns, TaskStep(c) \/ LoopEnds(c)
    PROVE  Numbers'
<1> DEFINE N(k) == sessions[k].created_seq
           New(k) == /\ TryInsertPublish(c) /\ k = KeyOf[c] /\ sessions[k] = None
                     /\ sessions'[k] # None /\ sessions'[k].created_seq = seq
<1>0. TypeOK /\ TypeOK' /\ DropSteps
  BY Zenon, TypeNext DEF IInv
<1>1. seq \in Nat /\ seq' \in Nat /\ seq' >= seq /\ (TryInsertPublish(c) => seq' = seq + 1)
  BY SMTT(60), <1>0, SeqFlow DEF TypeOK
<1>2. \A k \in Keys : sessions[k] # None => N(k) \in Nat /\ N(k) < seq
  BY <1>0 DEF TypeOK, Entry, Numbers
<1>3. \A k \in Keys : sessions'[k] # None => sessions'[k] = sessions[k] \/ New(k)
  BY Zenon, EntryFlow
<1>4. \A k \in Keys : sessions'[k] # None =>
         \/ sessions[k] # None /\ sessions'[k].created_seq = N(k)
         \/ New(k)
  BY ZenonT(60), <1>3
<1> HIDE DEF N
<1>5. \A k \in Keys : sessions'[k] # None => sessions'[k].created_seq < seq'
  BY SMTT(60), <1>1, <1>2, <1>4
<1>6. \A j, k \in Keys :
         (sessions'[j] # None /\ sessions'[k] # None
            /\ sessions'[j].created_seq = sessions'[k].created_seq) => j = k
  <2> SUFFICES ASSUME NEW j \in Keys, NEW k \in Keys,
                      sessions'[j] # None, sessions'[k] # None,
                      sessions'[j].created_seq = sessions'[k].created_seq
               PROVE  j = k
    BY Zenon
  <2>1. CASE New(j) \/ New(k)
    BY <1>1, <1>2, <1>4, <2>1
  <2>2. CASE ~New(j) /\ ~New(k)
    BY ZenonT(60), <1>4, <2>2 DEF Numbers, N
  <2> QED
    BY <2>1, <2>2
<1>7. ASSUME NEW b \in Conns, victim'[b] # None, NEW k \in Keys
      PROVE  /\ victim'[b].created_seq < seq'
             /\ sessions'[k] # None =>
                 (sessions'[k].created_seq = victim'[b].created_seq <=> k = victim'[b].key)
  <2>1. CASE victim'[b] = victim[b]
    <3>1. victim[b].created_seq \in Nat /\ victim[b].created_seq < seq
      BY Zenon, <1>0, <1>7, <2>1 DEF TypeOK, Victim, Numbers
    <3>2. ASSUME New(k) PROVE k # victim[b].key
      <4>1. step[c] \in {"index", "publish"}
        BY <3>2 DEF TryInsertPublish
      <4> QED
        BY ZenonT(60), <1>0, <1>7, <2>1, <3>2, <4>1, InsertingWaits DEF VictimPast
    <3>3. sessions[k] # None => (N(k) = victim[b].created_seq <=> k = victim[b].key)
      BY Zenon, <1>7, <2>1 DEF Numbers, N
    <3> QED
      BY SMTT(60), <1>1, <1>4, <2>1, <3>1, <3>2, <3>3
  <2>2. CASE victim'[b] # victim[b]
    <3>1. PICK p \in keys[c] :
            /\ EvictScan(c) /\ sessions[p] # None /\ b = c
            /\ victim'[c] = [key |-> p, created_seq |-> sessions[p].created_seq]
      BY ZenonT(60), <1>0, <2>2, VictimFlow
    <3>2. p \in Keys /\ victim'[b].key = p /\ victim'[b].created_seq = N(p)
      BY <1>0, <3>1 DEF TypeOK, N
    <3>3. sessions' = sessions /\ seq' = seq
      BY Zenon, <3>1 DEF EvictScan
    <3>4. sessions[k] # None => (N(k) = N(p) <=> k = p)
      BY Zenon, <3>1, <3>2 DEF Numbers, N
    <3> QED
      BY ZenonT(60), <1>2, <3>1, <3>2, <3>3, <3>4 DEF N
  <2> QED
    BY <2>1, <2>2
<1>8. KeyOf[c] \in Keys
  BY Zenon, NamesType
<1> QED
  BY ZenonT(60), <1>5, <1>6, <1>7, <1>8 DEF Numbers

LEMMA SnapshotsNext ==
    ASSUME IInv, DistinctKeys, Indexed, Snapshots,
           NEW c \in Conns, TaskStep(c) \/ LoopEnds(c)
    PROVE  Snapshots'
<1>0. /\ TypeOK /\ OwnKeys /\ DropSteps /\ FreshKeys
      /\ keys \in [Conns -> SUBSET Keys] /\ UserOfConn(c) \in Users
  BY ZenonT(60), NamesType DEF IInv, TypeOK
<1>1. step'[c] # "scan" => keys'[c] = {}
  <2>1. CASE EvictSnapshot(c)
    BY SMTT(60), <1>0, <2>1 DEF EvictSnapshot, Goto, TypeOK, Snapshots
  <2>2. CASE EvictScan(c)
    BY SMTT(60), <2>2 DEF EvictScan
  <2>3. CASE EvictChosen(c)
    BY <2>3 DEF EvictChosen
  <2>4. CASE step[c] # "scan" /\ UNCHANGED keys
    BY Zenon, <2>4 DEF Snapshots
  <2> QED
    BY SMTT(60), <1>0, <2>1, <2>2, <2>3, <2>4, MovesOf, Writes DEF Moves
<1>2. step'[c] \in {"count", "snapshot"} => victim'[c] = None
  <2>1. ASSUME step'[c] \in {"count", "snapshot"}
        PROVE  step[c] \in {"count", "snapshot"} /\ ~EvictScan(c)
    BY <1>0, <2>1, MovesOf DEF Moves, EvictScan
  <2> QED
    BY ZenonT(60), <2>1, Writes DEF Snapshots
<1>3. \/ keys'[c] \subseteq keys[c]
      \/ EvictSnapshot(c) /\ keys'[c] = user_index[UserOfConn(c)]
                          /\ user_index[UserOfConn(c)] # None
  <2>1. CASE EvictSnapshot(c)
    BY Zenon, <1>0, <2>1 DEF EvictSnapshot
  <2>2. CASE EvictScan(c)
    BY ZenonT(60), <1>0, <2>2 DEF EvictScan
  <2> QED
    BY ZenonT(60), <2>1, <2>2, Writes
<1>4. victim'[c] # None => victim'[c].key \notin keys'[c]
  <2>1. CASE victim'[c] = victim[c] /\ keys'[c] \subseteq keys[c]
    BY Zenon, <2>1 DEF Snapshots
  <2>2. CASE victim'[c] # victim[c]
    <3>1. PICK k \in keys[c] :
            /\ victim'[c] = [key |-> k, created_seq |-> sessions[k].created_seq]
            /\ keys'[c] = keys[c] \ {k}
      BY ZenonT(60), <1>0, <2>2, VictimFlow
    <3> QED
      BY <3>1
  <2>3. CASE EvictSnapshot(c)
    BY <2>3 DEF EvictSnapshot, Snapshots
  <2> QED
    BY <1>3, <2>1, <2>2, <2>3
<1>5. ASSUME NEW d \in Conns, KeyOf[d] \in keys'[c], Waiting(d)
      PROVE  step[d] = "publish"
  <2>1. CASE KeyOf[d] \in keys[c]
    BY Zenon, <1>5, <2>1 DEF Snapshots
  <2>2. CASE KeyOf[d] \notin keys[c]
    <3>1. KeyOf[d] \in user_index[UserOfConn(c)] /\ user_index[UserOfConn(c)] # None
      BY ZenonT(60), <1>3, <1>5, <2>2
    <3>2. KeyOf[d] \in Keys /\ InIndex(KeyOf[d])
      BY ZenonT(60), <1>0, <3>1, NamesType DEF OwnKeys, InIndex
    <3>3. sessions[KeyOf[d]] = None
      BY Zenon, <1>0, <1>5 DEF FreshKeys
    <3> QED
      BY Zenon, <3>2, <3>3 DEF Indexed, DistinctKeys
  <2> QED
    BY <2>1, <2>2
<1>6. ASSUME NEW b \in Conns, NEW d \in Conns, KeyOf[d] \in keys'[b], Waiting(d)'
      PROVE  step'[d] = "publish"
  <2>1. Waiting(d)
    BY ZenonT(60), <1>0, <1>6, WaitingNext
  <2>2. step[d] = "publish"
    <3>1. CASE b = c
      BY ZenonT(60), <1>5, <1>6, <2>1, <3>1
    <3>2. CASE b # c
      BY ZenonT(60), <1>0, <1>6, <2>1, <3>2, Others DEF Snapshots
    <3> QED
      BY <3>1, <3>2
  <2>3. CASE d # c
    BY Zenon, <1>0, <2>2, <2>3, Others
  <2>4. CASE d = c
    <3>1. step'[c] \in {"publish", "serving"}
      BY <1>0, <2>2, <2>4, MovesOf DEF Moves
    <3> QED
      BY SMTT(60), <1>6, <2>4, <3>1 DEF Waiting
  <2> QED
    BY <2>3, <2>4
<1>7. \A b \in Conns : b # c => step'[b] = step[b] /\ victim'[b] = victim[b]
                                /\ keys'[b] = keys[b]
  BY Zenon, <1>0, Others
<1>8. /\ \A b \in Conns : step'[b] # "scan" => keys'[b] = {}
      /\ \A b \in Conns : step'[b] \in {"count", "snapshot"} => victim'[b] = None
      /\ \A b \in Conns : victim'[b] # None => victim'[b].key \notin keys'[b]
  BY ZenonT(60), <1>1, <1>2, <1>4, <1>7 DEF Snapshots
<1> QED
  BY Zenon, <1>6, <1>8 DEF Snapshots

-----------------------------------------------------------------------------
\* What a step does to the eviction of b that is neither its snapshot nor one of
\* its look-ups.
LEMMA EvictFlow ==
    ASSUME TypeOK, NEW c \in Conns, TaskStep(c) \/ LoopEnds(c), NEW b \in Conns
    PROVE  \/ b = c /\ EvictSnapshot(c)
           \/ b = c /\ EvictScan(c)
           \/ /\ keys'[b] = keys[b] /\ victim'[b] = victim[b]
              /\ step'[b] = "scan" => step[b] = "scan"
              /\ (b \notin dropping' /\ step'[b] \in {"scan"} \cup RemoveSteps) =>
                    b \notin dropping /\ step[b] \in {"scan"} \cup RemoveSteps
<1>1. CASE b # c
  BY Zenon, <1>1, Others
<1>2. CASE b = c /\ ~EvictSnapshot(c) /\ ~EvictScan(c)
  <2>1. UNCHANGED <<keys, victim>>
    BY ZenonT(60), <1>2, Writes
  <2>2. /\ step'[c] = "scan" => step[c] = "scan"
        /\ (c \notin dropping' /\ step'[c] \in {"scan"} \cup RemoveSteps) =>
              c \notin dropping /\ step[c] \in {"scan"} \cup RemoveSteps
    BY <1>2, MovesOf, Writes DEF Moves, RemoveSteps, LoopEnds
  <2> QED
    BY ZenonT(60), <1>2, <2>1, <2>2
<1> QED
  BY <1>1, <1>2

LEMMA SeenFlow ==
    ASSUME TypeOK, NEW c \in Conns, TaskStep(c) \/ LoopEnds(c), NEW b \in Conns,
           keys'[b] = keys[b], NEW k \in Seen(b)'
    PROVE  k \in Keys /\ (k \in Seen(b) \/ (TryInsertIndex(c) /\ k = KeyOf[c]))
<1>1. k \in Keys /\ UserOf[k] = UserOfConn(b) /\ InIndex(k)' /\ k \notin keys[b]
  BY Zenon DEF Seen, UserOfConn, InIndex
<1> QED
  BY Zenon, <1>1, IndexFlow DEF Seen

\* One look-up of evict_oldest.
LEMMA ScanFlow ==
    ASSUME TypeOK, NEW c \in Conns, EvictScan(c)
    PROVE  \E k \in keys[c] :
              /\ k \in Keys /\ keys'[c] = keys[c] \ {k}
              /\ Seen(c)' \subseteq Seen(c) \cup {k}
              /\ InIndex(k) \/ Seen(c)' \subseteq Seen(c)
              /\ IF sessions[k] # None /\ OlderThanVictim(c, sessions[k])
                 THEN /\ victim'[c] # None /\ victim'[c].key = k
                      /\ victim'[c].created_seq = sessions[k].created_seq
                 ELSE victim'[c] = victim[c]
<1>1. PICK k \in keys[c] :
        /\ keys' = [keys EXCEPT ![c] = @ \ {k}]
        /\ victim' =
             IF sessions[k] # None /\ OlderThanVictim(c, sessions[k])
             THEN [victim EXCEPT ![c] =
                     [key |-> k, created_seq |-> sessions[k].created_seq]]
             ELSE victim
  BY Zenon DEF EvictScan
<1>2. k \in Keys /\ keys'[c] = keys[c] \ {k}
  BY Zenon, <1>1 DEF TypeOK
<1>3. user_index' = user_index
  BY Zenon DEF EvictScan
<1>4. \A j \in Seen(c)' : j \in Seen(c) \/ (j = k /\ InIndex(k))
  BY ZenonT(60), <1>2, <1>3 DEF Seen, UserOfConn, InIndex
<1>5. IF sessions[k] # None /\ OlderThanVictim(c, sessions[k])
      THEN /\ victim'[c] # None /\ victim'[c].key = k
           /\ victim'[c].created_seq = sessions[k].created_seq
      ELSE victim'[c] = victim[c]
  <2>1. CASE sessions[k] # None /\ OlderThanVictim(c, sessions[k])
    <3> DEFINE v == [key |-> k, created_seq |-> sessions[k].created_seq]
    <3>1. sessions[k].created_seq \in Nat
      BY ZenonT(60), <1>2, <2>1 DEF TypeOK, Entry
    <3>2. v \in Victim /\ v.key = k /\ v.created_seq = sessions[k].created_seq
      BY <1>2, <3>1 DEF Victim
    <3>3. victim'[c] = v
      BY ZenonT(60), <1>1, <2>1 DEF TypeOK
    <3> QED
      BY ZenonT(60), <2>1, <3>2, <3>3, NoneAssumption
  <2>2. CASE ~(sessions[k] # None /\ OlderThanVictim(c, sessions[k]))
    BY Zenon, <1>1, <2>2
  <2> QED
    BY <2>1, <2>2
<1> QED
  BY ZenonT(60), <1>1, <1>2, <1>4, <1>5

\* A key that has just been put in the index has no entry yet.
LEMMA FreshlyIndexed ==
    ASSUME IInv, DistinctKeys, NEW c \in Conns, TryInsertIndex(c)
    PROVE  sessions'[KeyOf[c]] = None /\ Waiting(c) /\ step[c] = "index"
<1>1. step[c] = "index" /\ sessions' = sessions
  BY Zenon DEF TryInsertIndex
<1>2. Waiting(c)
  BY <1>1, InsertingWaits DEF IInv
<1> QED
  BY Zenon, <1>1, <1>2 DEF IInv, FreshKeys

LEMMA NoneFoundYetNext ==
    ASSUME IInv, DistinctKeys, Indexed, OneInserts, Numbers, Snapshots,
           NEW c \in Conns, TaskStep(c) \/ LoopEnds(c),
           NEW b \in Conns, NoneFoundYet(b)
    PROVE  NoneFoundYet(b)'
<1> SUFFICES ASSUME step'[b] = "scan", victim'[b] = None
             PROVE  /\ \A p \in keys'[b], q \in Seen(b)' :
                          (sessions'[p] # None /\ sessions'[q] # None) =>
                              sessions'[p].created_seq < sessions'[q].created_seq
                    /\ (\E d \in Conns : KeyOf[d] \in keys'[b] /\ step'[d] = "publish") =>
                          Seen(b)' = {}
  BY Zenon DEF NoneFoundYet
<1>0. /\ TypeOK /\ OwnKeys /\ keys \in [Conns -> SUBSET Keys]
      /\ UserOfConn(c) \in Users
  BY Zenon, NamesType DEF IInv, TypeOK
<1>s. ASSUME NEW d \in Conns, NEW e \in Conns,
             step[d] \in {"index", "publish"}, step[e] \in {"index", "publish"},
             UserOf[KeyOf[d]] = UserOf[KeyOf[e]]
      PROVE  d = e
  BY Zenon, <1>s DEF OneInserts, TenantOfConn, TenantOfKey
<1>1. CASE b = c /\ EvictSnapshot(c)
  <2>1. keys'[c] = user_index[UserOfConn(c)] /\ user_index' = user_index
    BY <1>0, <1>1 DEF EvictSnapshot, Goto, TypeOK
  <2>2. Seen(c)' = {}
    BY Zenon, <2>1 DEF Seen, InIndex, UserOfConn
  <2> QED
    BY ZenonT(60), <1>1, <2>2
<1>2. CASE b = c /\ EvictScan(c)
  <2>1. PICK k \in keys[c] :
              /\ k \in Keys /\ keys'[c] = keys[c] \ {k}
              /\ Seen(c)' \subseteq Seen(c) \cup {k}
              /\ InIndex(k) \/ Seen(c)' \subseteq Seen(c)
              /\ IF sessions[k] # None /\ OlderThanVictim(c, sessions[k])
                 THEN victim'[c] # None
                 ELSE victim'[c] = victim[c]
    BY ZenonT(60), <1>0, <1>2, ScanFlow
  <2>2. step[c] = "scan" /\ sessions' = sessions /\ step' = step
    BY Zenon, <1>2 DEF EvictScan
  <2>3. victim[c] = None /\ sessions[k] = None
    BY ZenonT(60), <1>2, <2>1 DEF OlderThanVictim
  <2>4. ASSUME NEW p \in keys'[c], NEW q \in Seen(c)', sessions'[p] # None,
               sessions'[q] # None
        PROVE  sessions'[p].created_seq < sessions'[q].created_seq
    BY ZenonT(60), <1>2, <2>1, <2>2, <2>3, <2>4 DEF NoneFoundYet
  <2>5. ASSUME NEW d \in Conns, KeyOf[d] \in keys'[c], step'[d] = "publish",
               NEW q \in Seen(c)'
        PROVE  FALSE
    <3>1. Seen(c) = {}
      BY ZenonT(60), <1>2, <2>1, <2>2, <2>3, <2>5 DEF NoneFoundYet
    <3>2. q = k /\ InIndex(k)
      BY ZenonT(60), <2>1, <2>5, <3>1
    <3>3. PICK e \in Conns : KeyOf[e] = k /\ step[e] = "publish"
      BY ZenonT(60), <2>1, <2>3, <3>2 DEF Indexed
    <3>4. UserOf[KeyOf[d]] = UserOf[KeyOf[e]]
      <4>1. KeyOf[d] \in keys[c] /\ KeyOf[e] \in keys[c]
        BY <2>1, <2>5, <3>3
      <4>2. \A j \in keys[c] : UserOf[j] = UserOfConn(c)
        BY ZenonT(60), <1>0 DEF OwnKeys
      <4> QED
        BY SMTT(60), <4>1, <4>2
    <3>5. step[d] \in {"index", "publish"} /\ step[e] \in {"index", "publish"}
      BY <2>2, <2>5, <3>3
    <3> QED
      BY ZenonT(60), <1>s, <2>1, <2>5, <3>3, <3>4, <3>5
  <2> QED
    BY ZenonT(60), <1>2, <2>4, <2>5
<1>3. CASE /\ keys'[b] = keys[b] /\ victim'[b] = victim[b]
           /\ step[b] = "scan"
  <2>1. /\ \A p \in keys[b], q \in Seen(b) :
             (sessions[p] # None /\ sessions[q] # None) =>
                 sessions[p].created_seq < sessions[q].created_seq
        /\ (\E d \in Conns : KeyOf[d] \in keys[b] /\ step[d] = "publish") =>
             Seen(b) = {}
    BY Zenon, <1>3 DEF NoneFoundYet
  <2>2. ASSUME NEW p \in keys'[b], NEW q \in Seen(b)', sessions'[p] # None,
               sessions'[q] # None
        PROVE  sessions'[p].created_seq < sessions'[q].created_seq
    <3>1. q \in Seen(b) /\ q \in Keys /\ p \in keys[b] /\ p \in Keys
      BY ZenonT(60), <1>0, <1>3, <2>2, SeenFlow, FreshlyIndexed
    <3>2. sessions'[p] = sessions[p]
      <4>1. ASSUME TryInsertPublish(c), p = KeyOf[c] PROVE FALSE
        <5>1. step[c] = "publish"
          BY Zenon, <4>1 DEF TryInsertPublish
        <5> QED
          BY ZenonT(60), <2>1, <3>1, <4>1, <5>1
      <4> QED
        BY ZenonT(60), <2>2, <3>1, <4>1, EntryFlow
    <3>3. CASE sessions'[q] = sessions[q]
      BY ZenonT(60), <2>1, <2>2, <3>1, <3>2, <3>3
    <3>4. CASE sessions'[q].created_seq = seq
      BY ZenonT(60), <2>2, <3>1, <3>2, <3>4 DEF Numbers
    <3> QED
      BY ZenonT(60), <2>2, <3>1, <3>3, <3>4, EntryFlow
  <2>3. ASSUME NEW d \in Conns, KeyOf[d] \in keys'[b], step'[d] = "publish",
               NEW q \in Seen(b)'
        PROVE  FALSE
    <3>1. KeyOf[d] \in keys[b]
      BY Zenon, <1>3, <2>3
    <3>2. CASE step[d] = "publish"
      <4>1. TryInsertIndex(c) /\ q = KeyOf[c]
        BY ZenonT(60), <1>0, <1>3, <2>1, <2>3, <3>1, <3>2, SeenFlow
      <4>2. step[c] = "index"
        BY Zenon, <4>1 DEF TryInsertIndex
      <4>3. UserOf[KeyOf[d]] = UserOf[KeyOf[c]]
        BY ZenonT(60), <1>0, <2>3, <3>1, <4>1 DEF Seen, OwnKeys, UserOfConn
      <4>4. step[d] \in {"index", "publish"} /\ step[c] \in {"index", "publish"} /\ d # c
        BY <3>2, <4>2
      <4> QED
        BY ZenonT(60), <1>s, <4>3, <4>4
    <3>3. CASE step[d] # "publish"
      <4>1. d = c
        BY ZenonT(60), <1>0, <2>3, <3>3, Others
      <4>2. TryInsertIndex(c)
        BY <1>0, <2>3, <3>3, <4>1, MovesOf DEF Moves
      <4> QED
        BY ZenonT(60), <3>1, <3>3, <4>1, <4>2, FreshlyIndexed DEF Snapshots
    <3> QED
      BY <3>2, <3>3
  <2> QED
    BY Zenon, <2>2, <2>3
<1> QED
  BY ZenonT(60), <1>0, <1>1, <1>2, <1>3, EvictFlow

LEMMA VictimIsOldestNext ==
    ASSUME IInv, DistinctKeys, Numbers, Snapshots,
           NEW c \in Conns, TaskStep(c) \/ LoopEnds(c),
           NEW b \in Conns, NoneFoundYet(b), VictimIsOldest(b)
    PROVE  VictimIsOldest(b)'
<1> DEFINE S == {"scan"} \cup RemoveSteps
           N(k) == sessions[k].created_seq
<1> SUFFICES ASSUME b \notin dropping', step'[b] \in S, victim'[b] # None,
                    NEW q \in Seen(b)', sessions'[q] # None, q # victim'[b].key
             PROVE  victim'[b].created_seq < sessions'[q].created_seq
  BY Zenon DEF VictimIsOldest
<1>0. TypeOK /\ DropSteps /\ q \in Keys
  BY ZenonT(60) DEF IInv, Seen
<1>1. CASE b = c /\ EvictSnapshot(c)
  BY SMTT(60), <1>1 DEF EvictSnapshot, Snapshots
<1>2. CASE b = c /\ EvictScan(c)
  <2>1. PICK k \in keys[c] :
              /\ k \in Keys /\ keys'[c] = keys[c] \ {k}
              /\ Seen(c)' \subseteq Seen(c) \cup {k}
              /\ IF sessions[k] # None /\ OlderThanVictim(c, sessions[k])
                 THEN /\ victim'[c] # None /\ victim'[c].key = k
                      /\ victim'[c].created_seq = N(k)
                 ELSE victim'[c] = victim[c]
    BY ZenonT(60), <1>0, <1>2, ScanFlow
  <2>2. step[c] = "scan" /\ sessions' = sessions /\ dropping' = dropping
    BY Zenon, <1>2 DEF EvictScan
  <2>3. sessions[q] # None /\ (q \in Seen(c) \/ q = k)
    BY ZenonT(60), <1>2, <2>1, <2>2
  <2>4. \A j \in Keys : sessions[j] # None => N(j) \in Nat
    BY SMTT(60), <1>0 DEF TypeOK, Entry
  <2>5. CASE sessions[k] # None /\ OlderThanVictim(c, sessions[k])
    <3>1. q \in Seen(c) /\ q # k /\ victim'[c].created_seq = N(k)
      BY ZenonT(60), <1>2, <2>1, <2>3, <2>5
    <3>2. CASE victim[c] = None
      BY ZenonT(60), <1>2, <2>1, <2>2, <2>3, <2>5, <3>1, <3>2 DEF NoneFoundYet
    <3>3. CASE victim[c] # None
      <4>1. N(k) < victim[c].created_seq
        BY ZenonT(60), <2>5, <3>3 DEF OlderThanVictim
      <4>2. victim[c].created_seq <= N(q)
        <5>1. CASE q = victim[c].key
          <6>1. N(q) = victim[c].created_seq
            BY ZenonT(60), <1>0, <2>3, <3>3, <5>1 DEF Numbers
          <6> QED
            BY <1>0, <2>3, <2>4, <6>1
        <5>2. CASE q # victim[c].key
          <6>1. victim[c].created_seq < N(q)
            BY <1>0, <1>2, <2>2, <2>3, <3>1, <3>3, <5>2 DEF VictimIsOldest
          <6> QED
            BY SMTT(60), <1>0, <2>3, <2>4, <3>3, <6>1 DEF TypeOK, Victim
        <5> QED
          BY SMTT(60), <5>1, <5>2
      <4>3. victim[c].created_seq \in Nat
        BY ZenonT(60), <1>0, <3>3 DEF TypeOK, Victim
      <4>4. N(k) \in Nat /\ N(q) \in Nat
        BY ZenonT(60), <1>0, <2>1, <2>3, <2>4, <2>5
      <4> HIDE DEF N
      <4>5. N(k) < N(q)
        BY SMTT(60), <4>1, <4>2, <4>3, <4>4
      <4> QED
        BY ZenonT(60), <1>2, <2>2, <3>1, <4>5 DEF N
    <3> QED
      BY <3>2, <3>3
  <2>6. CASE ~(sessions[k] # None /\ OlderThanVictim(c, sessions[k]))
    <3>1. victim'[c] = victim[c] /\ victim[c] # None
      BY ZenonT(60), <1>2, <2>1, <2>6
    <3>2. CASE q = k
      <4>1. ~(N(k) < victim[c].created_seq)
        BY ZenonT(60), <2>3, <2>6, <3>1, <3>2 DEF OlderThanVictim
      <4>2. k # victim[c].key
        BY ZenonT(60), <1>2, <3>1, <3>2
      <4>3. N(k) # victim[c].created_seq
        BY ZenonT(60), <2>1, <2>3, <3>1, <3>2, <4>2 DEF Numbers
      <4>4. N(k) \in Nat /\ victim[c].created_seq \in Nat
        BY ZenonT(60), <1>0, <2>1, <2>3, <2>4, <3>1, <3>2 DEF TypeOK, Victim
      <4> HIDE DEF N
      <4>5. victim[c].created_seq < N(k)
        BY SMTT(60), <4>1, <4>3, <4>4
      <4> QED
        BY ZenonT(60), <1>2, <2>2, <3>1, <3>2, <4>5 DEF N
    <3>3. CASE q # k
      BY <1>2, <2>2, <2>3, <3>1, <3>3 DEF VictimIsOldest
    <3> QED
      BY <3>2, <3>3
  <2> QED
    BY <2>5, <2>6
<1>3. CASE /\ keys'[b] = keys[b] /\ victim'[b] = victim[b]
           /\ b \notin dropping /\ step[b] \in S
  <2>1. q \in Seen(b)
    BY ZenonT(60), <1>0, <1>3, SeenFlow, FreshlyIndexed
  <2>2. CASE sessions'[q] = sessions[q]
    BY Zenon, <1>3, <2>1, <2>2 DEF VictimIsOldest
  <2>3. CASE sessions'[q].created_seq = seq
    BY Zenon, <1>3, <2>3 DEF Numbers
  <2> QED
    BY ZenonT(60), <1>0, <2>2, <2>3, EntryFlow
<1> QED
  BY ZenonT(60), <1>0, <1>1, <1>2, <1>3, EvictFlow

-----------------------------------------------------------------------------
\* The index and the order of eviction, with a session key per connection.
LEMMA IndexInvNext ==
    ASSUME IInv, OneInserts, IndexInv, NEW c \in Conns, TaskStep(c) \/ LoopEnds(c)
    PROVE  IndexInv'
<1> SUFFICES ASSUME DistinctKeys
             PROVE  /\ EntryHasOwner' /\ VictimPast' /\ TargetUnindexed' /\ Indexed'
                    /\ Numbers' /\ Snapshots'
                    /\ \A b \in Conns : NoneFoundYet(b)' /\ VictimIsOldest(b)'
  BY Zenon DEF IndexInv, DistinctKeys
<1>1. /\ EntryHasOwner /\ VictimPast /\ TargetUnindexed /\ Indexed /\ Numbers
      /\ Snapshots /\ \A b \in Conns : NoneFoundYet(b) /\ VictimIsOldest(b)
  BY Zenon DEF IndexInv
<1>2. EntryHasOwner' /\ VictimPast' /\ TargetUnindexed'
  BY Zenon, <1>1, EntryHasOwnerNext, VictimPastNext, TargetUnindexedNext
<1>3. Indexed' /\ Numbers' /\ Snapshots'
  BY ZenonT(60), <1>1, IndexedNext, NumbersNext, SnapshotsNext
<1>4. ASSUME NEW b \in Conns PROVE NoneFoundYet(b)' /\ VictimIsOldest(b)'
  BY Zenon, <1>1, NoneFoundYetNext, VictimIsOldestNext
<1> QED
  BY Zenon, <1>2, <1>3, <1>4

LEMMA NoEvictionNext ==
    ASSUME TypeOK, NoEviction, NEW c \in Conns, TaskStep(c) \/ LoopEnds(c)
    PROVE  NoEviction'
<1> DEFINE S == {"count", "reserve", "index", "publish", "serving", "done"}
<1> SUFFICES ASSUME NEW d \in Conns, OnExceed[TenantOfConn(d)] = "Deny", d \notin dropping'
             PROVE  step'[d] \in S
  BY Zenon DEF NoEviction
<1>1. CASE d # c
  BY ZenonT(60), <1>1, Others DEF NoEviction
<1>2. CASE d = c
  <2>1. c \notin dropping => step[c] \in S
    BY Zenon, <1>2 DEF NoEviction
  <2> QED
    BY <1>2, <2>1, MovesOf, Writes DEF Moves, LoopEnds
<1> QED
  BY <1>1, <1>2

\* The connections of a tenant that the gauge counts.
Live(t) == {c \in Conns : /\ step[c] = "serving" \/ (c \in dropping /\ step[c] # "done")
                          /\ TenantOfConn(c) = t}

\* The gauge goes up when a task starts to serve and down when it has cleaned up.
LEMMA GaugeNext ==
    ASSUME TypeOK, DropSteps, NoEviction, NEW c \in Conns, TaskStep(c) \/ LoopEnds(c),
           NEW t \in Tenants, OnExceed[t] = "Deny", active[t] = Cardinality(Live(t))
    PROVE  active'[t] = Cardinality(Live(t)')
<1>1. IsFiniteSet(Live(t)) /\ active[t] \in Int /\ TenantOfConn(c) \in Tenants
  <2>1. Live(t) \subseteq Conns
    BY Zenon DEF Live
  <2> QED
    BY ZenonT(60), <2>1, FS_Subset, FiniteAssumption, NamesType DEF TypeOK
<1>2. \A d : d # c => (d \in Live(t)' <=> d \in Live(t))
  <2>1. \A d \in Conns : d # c => (d \in Live(t)' <=> d \in Live(t))
    BY ZenonT(60), Others DEF Live, TenantOfConn, TenantOfKey
  <2> QED
    BY Zenon, <2>1 DEF Live
<1>3. CASE TryInsertPublish(c) /\ TenantOfConn(c) = t
  <2>1. step[c] = "publish" /\ step'[c] = "serving" /\ active'[t] = active[t] + 1
    BY SMTT(60), <1>1, <1>3 DEF TryInsertPublish, Goto, TypeOK
  <2>2. c \notin dropping
    BY SMTT(60), <2>1 DEF DropSteps, RemoveSteps
  <2>3. c \notin Live(t) /\ c \in Live(t)'
    BY <1>3, <2>1, <2>2 DEF Live, TenantOfConn, TenantOfKey
  <2>4. Live(t)' = Live(t) \cup {c}
    BY Zenon, <1>2, <2>3
  <2>5. Cardinality(Live(t)') = Cardinality(Live(t)) + 1
    BY ZenonT(60), <1>1, <2>3, <2>4, OneMore
  <2> QED
    BY SMTT(60), <2>1, <2>5
<1>4. CASE /\ TenantOfConn(c) = t /\ c \in dropping
           /\ step[c] \in {"take", "uncount"} /\ step'[c] = "done"
  <2>1. active'[t] = active[t] - 1
    <3>1. RemoveTake(c) \/ RemoveUncount(c)
      BY ZenonT(60), <1>4, MovesOf DEF Moves
    <3> QED
      BY <1>1, <1>4, <3>1 DEF RemoveTake, RemoveUncount, Removed, Goto, TypeOK
  <2>2. c \in Live(t) /\ c \notin Live(t)'
    BY <1>4 DEF Live, TenantOfConn, TenantOfKey
  <2>3. Live(t)' = Live(t) \ {c}
    BY Zenon, <1>2, <2>2
  <2>4. Cardinality(Live(t)') = Cardinality(Live(t)) - 1
    BY ZenonT(60), <1>1, <2>2, <2>3, OneLess
  <2> QED
    BY SMTT(60), <2>1, <2>4
<1>5. CASE active'[t] = active[t] /\ (c \in Live(t)' <=> c \in Live(t))
  <2>1. \A d : d \in Live(t)' <=> d \in Live(t)
    BY Zenon, <1>2, <1>5
  <2>2. Live(t)' = Live(t)
    BY Zenon, <2>1
  <2> QED
    BY Zenon, <1>5, <2>2
<1>6. CASE TenantOfConn(c) # t
  <2>1. active'[t] = active[t]
    <3>1. CASE RemoveTake(c) \/ RemoveUncount(c) \/ TryInsertPublish(c)
      BY ZenonT(60), <1>1, <1>6, <3>1 DEF RemoveTake, RemoveUncount, Removed, TryInsertPublish,
         TypeOK
    <3> QED
      BY ZenonT(60), <3>1, Writes
  <2>2. c \notin Live(t)' /\ c \notin Live(t)
    BY Zenon, <1>6 DEF Live, TenantOfConn, TenantOfKey
  <2> QED
    BY ZenonT(60), <1>5, <2>1, <2>2
<1>7. CASE TenantOfConn(c) = t
  <2> DEFINE live == step[c] = "serving" \/ (c \in dropping /\ step[c] # "done")
  <2>1. /\ c \in Live(t) <=> live
        /\ c \in Live(t)' <=> live'
    BY Zenon, <1>7 DEF Live, TenantOfConn, TenantOfKey
  <2>2. c \notin dropping =>
          step[c] \in {"count", "reserve", "index", "publish", "serving", "done"}
    BY Zenon, <1>7 DEF NoEviction
  <2>3. \A d \in dropping : step[d] \in RemoveSteps \cup {"uncount", "done"}
    BY Zenon DEF DropSteps
  <2>4. \/ TryInsertPublish(c)
        \/ c \in dropping /\ step[c] \in {"take", "uncount"} /\ step'[c] = "done"
        \/ active' = active /\ (live <=> live')
    <3>1. /\ active' = active \/ RemoveTake(c) \/ RemoveUncount(c) \/ TryInsertPublish(c)
          /\ dropping' = dropping \/ (LoopEnds(c) /\ c \in dropping')
      BY ZenonT(60), Writes DEF LoopEnds
    <3>2. CASE RemoveTake(c) \/ RemoveUncount(c)
      <4>1. dropping' = dropping /\ step[c] \in {"take", "uncount"}
        BY ZenonT(60), <3>2 DEF RemoveTake, RemoveUncount
      <4>2. c \in dropping
        BY <2>2, <4>1
      <4>3. step'[c] = "done" \/ (step'[c] = "uncount" /\ active' = active)
        BY ZenonT(60), <3>2, <4>1, <4>2, MovesOf DEF Moves
      <4> QED
        BY <4>1, <4>2, <4>3
    <3>3. CASE ~RemoveTake(c) /\ ~RemoveUncount(c) /\ ~TryInsertPublish(c)
      <4>1. CASE LoopEnds(c)
        BY ZenonT(60), <3>1, <4>1, MovesOf DEF Moves, LoopEnds
      <4>2. CASE ~LoopEnds(c)
        <5>1. dropping' = dropping /\ active' = active
          BY ZenonT(60), <3>1, <3>3, <4>2
        <5>2. step[c] # "done" /\ step[c] # "serving" /\ step'[c] # "serving"
          BY ZenonT(60), <3>3, <4>2, MovesOf DEF Moves
        <5>3. c \in dropping => step'[c] # "done"
          BY <2>3, <3>3, <4>2, MovesOf DEF Moves, RemoveSteps
        <5> QED
          BY ZenonT(60), <5>1, <5>2, <5>3
      <4> QED
        BY ZenonT(60), <4>1, <4>2
    <3> QED
      BY ZenonT(60), <3>2, <3>3
  <2> QED
    BY ZenonT(60), <1>3, <1>4, <1>5, <1>7, <2>1, <2>4
<1> QED
  BY <1>6, <1>7

-----------------------------------------------------------------------------
RInv == /\ IInv /\ OneInserts /\ EmptyAttended /\ NoEviction
        /\ GaugeCountsSessions /\ IndexInv

LEMMA RInvInit == Init => RInv
<1> SUFFICES ASSUME Init PROVE RInv
  OBVIOUS
<1>1. OneInserts /\ NoEviction
  BY DEF Init, OneInserts, NoEviction
<1>2. EmptyAttended
  BY NoneAssumption DEF Init, EmptyAttended
<1>3. \A k \in Keys : ~InIndex(k) /\ sessions[k] = None
  BY Zenon, NamesType DEF Init, InIndex
<1>4. \A c \in Conns : step[c] = "count" /\ victim[c] = None /\ keys[c] = {}
  BY Zenon DEF Init
<1>5. /\ EntryHasOwner /\ VictimPast /\ Indexed /\ Numbers
  BY ZenonT(60), <1>3, <1>4 DEF EntryHasOwner, VictimPast, Indexed, Numbers
<1>6. TargetUnindexed /\ Snapshots
  BY SMTT(60), <1>4 DEF TargetUnindexed, Snapshots
<1>7. \A c \in Conns : NoneFoundYet(c) /\ VictimIsOldest(c)
  BY <1>4 DEF NoneFoundYet, VictimIsOldest
<1>8. GaugeCountsSessions
  <2> SUFFICES ASSUME NEW t \in Tenants PROVE active[t] = Cardinality(Live(t))
    BY Zenon DEF GaugeCountsSessions, Live
  <2>1. Live(t) = {}
    BY DEF Init, Live
  <2> QED
    BY <2>1, FS_EmptySet DEF Init
<1> QED
  BY ZenonT(60), <1>1, <1>2, <1>5, <1>6, <1>7, <1>8, IInvInit DEF RInv, IndexInv

LEMMA RInvNext == RInv /\ [Next]_vars => RInv'
<1> SUFFICES ASSUME RInv, [Next]_vars PROVE RInv'
  OBVIOUS
<1>0. IInv' /\ IInv /\ TypeOK /\ DropSteps /\ NoEviction
  BY Zenon, IInvNext DEF RInv, IInv
<1>1. ASSUME NEW c \in Conns, TaskStep(c) \/ LoopEnds(c) PROVE RInv'
  <2>1. OneInserts' /\ EmptyAttended' /\ NoEviction'
    BY ZenonT(60), <1>0, <1>1, OneInsertsNext, EmptyAttendedNext, NoEvictionNext DEF RInv
  <2>2. IndexInv'
    BY ZenonT(60), <1>0, <1>1, IndexInvNext DEF RInv
  <2>3. GaugeCountsSessions'
    <3> SUFFICES ASSUME NEW t \in Tenants, OnExceed[t] = "Deny"
                 PROVE  active'[t] = Cardinality(Live(t)')
      BY Zenon DEF GaugeCountsSessions, Live
    <3>1. active[t] = Cardinality(Live(t))
      BY Zenon DEF RInv, GaugeCountsSessions, Live
    <3> QED
      BY ZenonT(60), <1>0, <1>1, <3>1, GaugeNext
  <2> QED
    BY ZenonT(60), <1>0, <2>1, <2>2, <2>3 DEF RInv
<1>2. CASE UNCHANGED vars
  <2> USE <1>2 DEF vars
  <2>1. OneInserts' /\ EmptyAttended' /\ NoEviction' /\ GaugeCountsSessions'
    BY Zenon DEF RInv, OneInserts, EmptyAttended, NoEviction, GaugeCountsSessions
  <2>2. \A k \in Keys : InIndex(k)' <=> InIndex(k)
    BY Zenon DEF InIndex
  <2>3. \A c \in Conns : /\ Target(c)' = Target(c) /\ (Waiting(c)' <=> Waiting(c))
                         /\ Seen(c)' = Seen(c)
    BY Zenon DEF Target, Waiting, Seen, InIndex
  <2>4. /\ EntryHasOwner' <=> EntryHasOwner
        /\ VictimPast' <=> VictimPast
        /\ Numbers' <=> Numbers
        /\ Snapshots' <=> Snapshots
    BY ZenonT(60), <2>3 DEF EntryHasOwner, VictimPast, Numbers, Snapshots
  <2>5. Indexed' <=> Indexed
    BY Zenon, <2>2 DEF Indexed
  <2>6. \A c \in Conns : /\ NoneFoundYet(c)' <=> NoneFoundYet(c)
                         /\ VictimIsOldest(c)' <=> VictimIsOldest(c)
    BY ZenonT(60), <2>3 DEF NoneFoundYet, VictimIsOldest
  <2>7. TargetUnindexed' <=> TargetUnindexed
    BY Zenon DEF TargetUnindexed, InIndex, Target
  <2>8. IndexInv'
    BY ZenonT(60), <2>4, <2>5, <2>6, <2>7 DEF RInv, IndexInv, DistinctKeys
  <2> QED
    BY ZenonT(60), <1>0, <2>1, <2>8 DEF RInv
<1> QED
  BY ZenonT(60), <1>1, <1>2 DEF Next

LEMMA RegistryInvariance == Spec => []RInv
BY RInvInit, RInvNext, PTL DEF Spec

\* With a session key per connection, count_user_sessions never counts a session
\* that is gone: remove_session takes the key out of the user index before the
\* entry, and no try_insert puts it back.
THEOREM IndexHasNoGhosts == Spec => []IndexedAreRegistered
<1>1. RInv => IndexedAreRegistered
  <2> SUFFICES ASSUME RInv, DistinctKeys, NEW u \in Users, user_index[u] # None,
                      NEW k \in user_index[u]
               PROVE  \/ sessions[k] # None
                      \/ \E c \in Conns : KeyOf[c] = k /\ step[c] = "publish"
    BY Zenon DEF IndexedAreRegistered
  <2>1. k \in Keys /\ UserOf[k] = u
    BY ZenonT(60) DEF RInv, IInv, TypeOK, OwnKeys
  <2> QED
    BY Zenon, <2>1 DEF RInv, IndexInv, Indexed, InIndex
<1> QED
  BY <1>1, RegistryInvariance, PTL

\* Whatever the order of the calls, connections that come with a session key
\* each leave an empty registry behind: SessionCleanup removes what its own
\* try_insert stored, and an emptied set of a user is removed too.
THEOREM RegistryEmptiesItself == Spec => []NothingLeftBehind
<1>1. RInv => NothingLeftBehind
  <2> SUFFICES ASSUME RInv, DistinctKeys, \A c \in Conns : step[c] = "done"
               PROVE  /\ sessions = [k \in Keys |-> None]
                      /\ user_index = [u \in Users |-> None]
                      /\ tenant_counts = [t \in Tenants |-> 0]
    BY Zenon DEF NothingLeftBehind
  <2>0. TypeOK /\ OwnKeys /\ CounterExact
    BY DEF RInv, IInv
  <2>1. \A k \in Keys : sessions[k] = None
    BY SMTT(60) DEF RInv, IndexInv, EntryHasOwner, RemoveSteps
  <2>2. \A u \in Users : user_index[u] = None
    <3> SUFFICES ASSUME NEW u \in Users, user_index[u] # None PROVE FALSE
      BY Zenon
    <3>1. user_index[u] # {}
      BY DEF RInv, EmptyAttended
    <3>2. PICK k \in user_index[u] : k \in Keys /\ UserOf[k] = u
      BY ZenonT(60), <2>0, <3>1 DEF TypeOK, OwnKeys
    <3>3. InIndex(k)
      BY Zenon, <3>2 DEF InIndex
    <3> QED
      BY <2>1, <3>2, <3>3 DEF RInv, IndexInv, Indexed
  <2>3. ASSUME NEW t \in Tenants PROVE tenant_counts[t] = 0
    <3>1. Registered(t) = {} /\ Inserting(t) = {} /\ Uncounting(t) = {}
      BY <2>1 DEF Registered, Inserting, Uncounting
    <3>2. Load(t) = 0
      BY SMTT(60), <3>1, FS_EmptySet DEF Load
    <3> QED
      BY Zenon, <2>0, <3>2 DEF CounterExact
  <2> QED
    BY ZenonT(60), <2>0, <2>1, <2>2, <2>3 DEF TypeOK
<1> QED
  BY <1>1, RegistryInvariance, PTL

\* Where the policy is to deny, the gauge is the number of admitted connections
\* not yet cleaned up, in every interleaving and with any session keys.
THEOREM GaugeIsExact == Spec => []GaugeCountsSessions
<1>1. RInv => GaugeCountsSessions
  BY DEF RInv
<1> QED
  BY <1>1, RegistryInvariance, PTL

\* evict_oldest removes the oldest session of the user although it looks at the
\* entries one by one: what is inserted meanwhile is younger than what it still
\* has to look at.
THEOREM OldestIsEvicted == Spec => EvictsOldest
<1> DEFINE Evicts == DistinctKeys =>
        \A c \in Conns :
            (c \notin dropping /\ step[c] = "take" /\ step'[c] = "uncount") =>
                LET u == UserOfConn(c) IN
                user_index[u] # None =>
                    \A k \in user_index[u] :
                        sessions[k] # None =>
                            sessions[victim[c].key].created_seq
                                < sessions[k].created_seq
<1>1. ASSUME RInv, [Next]_vars PROVE [Evicts]_vars
  <2> SUFFICES ASSUME Next, DistinctKeys, NEW c \in Conns, c \notin dropping,
                      step[c] = "take", step'[c] = "uncount",
                      user_index[UserOfConn(c)] # None,
                      NEW k \in user_index[UserOfConn(c)], sessions[k] # None
               PROVE  sessions[victim[c].key].created_seq < sessions[k].created_seq
    BY Zenon, <1>1
  <2>0. /\ IInv /\ TypeOK /\ OwnKeys /\ TargetUnindexed /\ Numbers /\ Snapshots
        /\ VictimIsOldest(c)
    BY Zenon, <1>1 DEF RInv, IInv, IndexInv
  <2>1. /\ k \in Keys /\ UserOf[k] = UserOfConn(c) /\ InIndex(k)
    BY ZenonT(60), <2>0, NamesType DEF TypeOK, OwnKeys, InIndex
  <2>2. PICK d \in Conns : TaskStep(d) \/ LoopEnds(d)
    BY Zenon DEF Next
  <2>3. d = c
    <3>1. step'[c] # step[c]
      OBVIOUS
    <3> QED
      BY ZenonT(60), <2>0, <2>2, <3>1, Others
  <2>4. RemoveTake(c)
    BY ZenonT(60), <2>0, <2>2, <2>3, MovesOf DEF Moves
  <2>5. Target(c) = victim[c].key /\ step[c] \in RemoveSteps /\ victim[c] # None
    BY <2>0 DEF Target, RemoveSteps, OwnKeys
  <2>6. sessions[victim[c].key] # None
    <3>1. CASE sessions[Target(c)] = None
      <4>1. step'[c] # "uncount"
        BY <2>0, <2>4, <3>1 DEF RemoveTake, Removed, Goto, TypeOK
      <4> QED
        BY SMTT(60), <4>1
    <3> QED
      BY ZenonT(60), <2>5, <3>1
  <2>7. victim[c].key \in Keys
    BY ZenonT(60), <2>0, <2>5, TargetType
  <2>8. sessions[victim[c].key].created_seq = victim[c].created_seq
    BY ZenonT(60), <2>0, <2>5, <2>6, <2>7 DEF Numbers
  <2>9. k # victim[c].key
    <3>1. ~InIndex(Target(c))
      BY <2>0 DEF TargetUnindexed
    <3> QED
      BY ZenonT(60), <2>1, <2>5, <3>1
  <2>10. k \in Seen(c)
    <3>1. keys[c] = {}
      BY <2>0 DEF Snapshots
    <3> QED
      BY ZenonT(60), <2>1, <3>1 DEF Seen
  <2>11. step[c] \in {"scan"} \cup RemoveSteps
    BY Zenon, <2>5
  <2>12. victim[c].created_seq < sessions[k].created_seq
    BY ZenonT(60), <2>0, <2>5, <2>9, <2>10, <2>11 DEF VictimIsOldest
  <2> QED
    BY ZenonT(60), <2>8, <2>12
<1> QED
  BY <1>1, RegistryInvariance, PTL DEF Spec, EvictsOldest
=============================================================================
