-------------------------- MODULE SessionRegistry --------------------------
(***************************************************************************)
(* The session registry (realtime/core/session_registry.rs) under the      *)
(* calls that connection tasks make on it: the admission part of           *)
(* run_session (transport/ws.rs) and the drop of SessionCleanup.           *)
(*                                                                         *)
(* The maps are DashMaps.  Each access to a map is one step, and a guard   *)
(* that the code keeps alive over several accesses excludes, for that      *)
(* long, the accesses that need the same lock:                             *)
(*  - try_insert holds the write guard of its tenant's counter from its    *)
(*    first line to its return (CounterGuarded);                           *)
(*  - remove_session holds a read guard of the user's set between          *)
(*    removing the key and testing for emptiness (IndexReadGuarded), and   *)
(*    gives it up before it removes the user's set.                        *)
(***************************************************************************)
EXTENDS Integers, FiniteSets

CONSTANTS
    Conns,       \* connection tasks, one per upgraded socket
    Keys,        \* session keys  "tenant::user::sid"
    Users,       \* user keys  "tenant::user"
    Tenants,     \* tenant ids
    KeyOf,       \* the session key of a connection; a client may reuse its sid
    UserOf,      \* the user key a session key starts with
    TenantOf,    \* the tenant a user key starts with
    MaxTotal,    \* limits.max_sessions_total of a tenant, 0 = unlimited
    MaxPerUser,  \* session_policy.max_sessions_per_user of a tenant
    OnExceed,    \* session_policy.on_exceed of a tenant
    U64Max,      \* the largest value of the counter's type
    None         \* an absent map entry or Option

Entry == [conn : Conns, created_seq : Nat \ {0}]
Victim == [key : Keys, created_seq : Nat]

ASSUME FiniteAssumption == IsFiniteSet(Conns) /\ IsFiniteSet(Keys)
ASSUME NamesAssumption ==
    /\ KeyOf \in [Conns -> Keys]
    /\ UserOf \in [Keys -> Users]
    /\ TenantOf \in [Users -> Tenants]
ASSUME LimitsAssumption ==
    /\ MaxTotal \in [Tenants -> Nat]
    /\ MaxPerUser \in [Tenants -> Nat \ {0}]
    /\ OnExceed \in [Tenants -> {"Deny", "KickOldest"}]
    /\ U64Max \in Nat
ASSUME NoneAssumption ==
    /\ None \notin Keys /\ None \notin Entry /\ None \notin Victim
    /\ \A S \in SUBSET Keys : None # S

VARIABLES
    sessions,       \* session_key -> SessionEntry
    user_index,     \* user_key -> {session_key...}
    tenant_counts,  \* tenant_id -> count
    seq,            \* the next created_seq
    step,           \* where each connection task is
    dropping,       \* tasks that run the drop of their SessionCleanup
    keys,           \* evict_oldest: the snapshot keys not looked at yet
    victim,         \* evict_oldest: the oldest entry seen so far
    active          \* the gauge metrics.ws_active_sessions

vars == <<sessions, user_index, tenant_counts, seq, step, dropping, keys,
          victim, active>>

Steps == {"count", "snapshot", "scan", "unindex", "check_empty", "drop_user",
          "take", "uncount", "reserve", "index", "publish", "serving", "done"}

UserOfConn(c) == UserOf[KeyOf[c]]
TenantOfKey(k) == TenantOf[UserOf[k]]
TenantOfConn(c) == TenantOfKey(KeyOf[c])

Init ==
    /\ sessions = [k \in Keys |-> None]
    /\ user_index = [u \in Users |-> None]
    /\ tenant_counts = [t \in Tenants |-> 0]
    /\ seq = 1
    /\ step = [c \in Conns |-> "count"]
    /\ dropping = {}
    /\ keys = [c \in Conns |-> {}]
    /\ victim = [c \in Conns |-> None]
    /\ active = [t \in Tenants |-> 0]

Goto(c, s) == step' = [step EXCEPT ![c] = s]

\* An AtomicU64 wraps below zero.
FetchSub(n) == IF n = 0 THEN U64Max ELSE n - 1

\* Mutant: remove_session takes the counter's guard and then asks for it again.
CounterGuardedTwice(t) ==
    \E c \in Conns : /\ step[c] \in {"index", "publish", "uncount"}
                     /\ TenantOfConn(c) = t

\* A try_insert holds the write guard of the tenant's counter.
CounterGuarded(t) ==
    \E c \in Conns : step[c] \in {"index", "publish"} /\ TenantOfConn(c) = t

\* A remove_session holds a read guard of the user's set.  Eviction works on a
\* session of the evicting task's own user.
IndexReadGuarded(u) ==
    \E c \in Conns : step[c] = "check_empty" /\ UserOfConn(c) = u

-----------------------------------------------------------------------------
(* run_session, before try_insert: the limit on sessions of one user.      *)

CountUserSessions(c) ==
    LET t == TenantOfConn(c)
        set == user_index[UserOfConn(c)]
        over == /\ set # None
                /\ Cardinality(set) >= MaxPerUser[t]
    IN  /\ step[c] = "count"
        /\ \/ /\ ~over
              /\ Goto(c, "reserve")
           \/ /\ over /\ OnExceed[t] = "Deny"
              /\ Goto(c, "done")
           \/ /\ over /\ OnExceed[t] = "KickOldest"
              /\ Goto(c, "snapshot")
        /\ UNCHANGED <<sessions, user_index, tenant_counts, seq, dropping,
                       keys, victim, active>>

-----------------------------------------------------------------------------
(* evict_oldest: a snapshot of the user's keys, one look-up per key, then  *)
(* remove_session of the oldest one that was found.                        *)

EvictSnapshot(c) ==
    LET set == user_index[UserOfConn(c)] IN
    /\ step[c] = "snapshot"
    /\ IF set = None
       THEN Goto(c, "reserve") /\ UNCHANGED keys
       ELSE Goto(c, "scan") /\ keys' = [keys EXCEPT ![c] = set]
    /\ UNCHANGED <<sessions, user_index, tenant_counts, seq, dropping, victim,
                   active>>

\* Mutant: the comparison of created_seq is the wrong way round.
NewerThanVictim(c, e) ==
    victim[c] = None \/ e.created_seq > victim[c].created_seq

\* created_seq < victim_seq, where victim_seq starts at u64::MAX
OlderThanVictim(c, e) ==
    victim[c] = None \/ e.created_seq < victim[c].created_seq

EvictScan(c) ==
    /\ step[c] = "scan"
    /\ \E k \in keys[c] :
        /\ keys' = [keys EXCEPT ![c] = @ \ {k}]
        /\ victim' =
             IF sessions[k] # None /\ OlderThanVictim(c, sessions[k])
             THEN [victim EXCEPT ![c] =
                     [key |-> k, created_seq |-> sessions[k].created_seq]]
             ELSE victim
    /\ UNCHANGED <<sessions, user_index, tenant_counts, seq, step, dropping,
                   active>>

EvictChosen(c) ==
    /\ step[c] = "scan" /\ keys[c] = {}
    /\ Goto(c, IF victim[c] = None THEN "reserve" ELSE "unindex")
    /\ UNCHANGED <<sessions, user_index, tenant_counts, seq, dropping, keys,
                   victim, active>>

-----------------------------------------------------------------------------
(* remove_session, called by evict_oldest on the victim and by the drop of *)
(* SessionCleanup on the task's own key.                                   *)

Target(c) == IF c \in dropping THEN KeyOf[c] ELSE victim[c].key

RemoveUnindex(c) ==
    LET u == UserOfConn(c) IN
    /\ step[c] = "unindex"
    /\ IF user_index[u] = None
       THEN Goto(c, "take") /\ UNCHANGED user_index
       ELSE /\ Goto(c, "check_empty")
            /\ user_index' = [user_index EXCEPT ![u] = @ \ {Target(c)}]
    /\ UNCHANGED <<sessions, tenant_counts, seq, dropping, keys, victim,
                   active>>

\* Mutant: the emptied set of a user is never removed.
RemoveKeepEmpty(c) ==
    /\ step[c] = "check_empty"
    /\ Goto(c, "take")
    /\ UNCHANGED <<sessions, user_index, tenant_counts, seq, dropping, keys,
                   victim, active>>

RemoveCheckEmpty(c) ==
    /\ step[c] = "check_empty"
    /\ Goto(c, IF user_index[UserOfConn(c)] = {} THEN "drop_user" ELSE "take")
    /\ UNCHANGED <<sessions, user_index, tenant_counts, seq, dropping, keys,
                   victim, active>>

RemoveDropUser(c) ==
    LET u == UserOfConn(c) IN
    /\ step[c] = "drop_user"
    /\ ~IndexReadGuarded(u)
    /\ user_index' = [user_index EXCEPT ![u] = None]
    /\ Goto(c, "take")
    /\ UNCHANGED <<sessions, tenant_counts, seq, dropping, keys, victim,
                   active>>

\* Mutant: the drop lowers the gauge only for an entry it removed itself.
RemovedIfFound(c, found) ==
    LET t == TenantOfConn(c) IN
    /\ Goto(c, IF c \in dropping THEN "done" ELSE "reserve")
    /\ active' = IF found THEN [active EXCEPT ![t] = @ - 1] ELSE active

\* What the caller of remove_session does with the result: run_session lowers
\* the gauge if a victim was returned and goes on to try_insert; the drop
\* lowers the gauge whatever was returned.
Removed(c, found) ==
    LET t == TenantOfConn(c) IN
    /\ Goto(c, IF c \in dropping THEN "done" ELSE "reserve")
    /\ active' = IF c \in dropping \/ found
                 THEN [active EXCEPT ![t] = @ - 1] ELSE active

\* Mutant: the counter is lowered whether or not an entry was removed.
RemoveTakeAlwaysUncounts(c) ==
    /\ step[c] = "take"
    /\ sessions' = [sessions EXCEPT ![Target(c)] = None]
    /\ Goto(c, "uncount")
    /\ UNCHANGED <<user_index, tenant_counts, seq, dropping, keys, victim,
                   active>>

RemoveTake(c) ==
    LET k == Target(c) IN
    /\ step[c] = "take"
    /\ \/ /\ sessions[k] # None
          /\ sessions' = [sessions EXCEPT ![k] = None]
          /\ Goto(c, "uncount")
          /\ UNCHANGED active
       \/ /\ sessions[k] = None
          /\ Removed(c, FALSE)
          /\ UNCHANGED sessions
    /\ UNCHANGED <<user_index, tenant_counts, seq, dropping, keys, victim>>

\* Mutant: only the drop gives the slot back, eviction keeps it counted.
RemoveUncountOnDropOnly(c) ==
    LET t == TenantOfConn(c) IN
    /\ step[c] = "uncount"
    /\ ~CounterGuarded(t)
    /\ tenant_counts' =
         IF c \in dropping THEN [tenant_counts EXCEPT ![t] = FetchSub(@)]
         ELSE tenant_counts
    /\ Removed(c, TRUE)
    /\ UNCHANGED <<sessions, user_index, seq, dropping, keys, victim>>

RemoveUncount(c) ==
    LET t == TenantOfConn(c) IN
    /\ step[c] = "uncount"
    /\ ~CounterGuarded(t)
    /\ tenant_counts' = [tenant_counts EXCEPT ![t] = FetchSub(@)]
    /\ Removed(c, TRUE)
    /\ UNCHANGED <<sessions, user_index, seq, dropping, keys, victim>>

-----------------------------------------------------------------------------
(* try_insert, under the write guard of the tenant's counter.              *)

\* Mutant: off by one against max_total.
HasCapacityOffByOne(t) == MaxTotal[t] = 0 \/ tenant_counts[t] <= MaxTotal[t]

\* Both tests against max_total, before and after the increment; no other
\* access to the counter comes between them.
HasCapacity(t) ==
    \/ MaxTotal[t] = 0
    \/ tenant_counts[t] < MaxTotal[t] /\ tenant_counts[t] + 1 <= MaxTotal[t]

TryInsertReserve(c) ==
    LET t == TenantOfConn(c) IN
    /\ step[c] = "reserve"
    /\ ~CounterGuarded(t)
    /\ IF HasCapacity(t)
       THEN /\ tenant_counts' = [tenant_counts EXCEPT ![t] = @ + 1]
            /\ Goto(c, "index")
       ELSE Goto(c, "done") /\ UNCHANGED tenant_counts
    /\ UNCHANGED <<sessions, user_index, seq, dropping, keys, victim, active>>

TryInsertIndex(c) ==
    LET u == UserOfConn(c) IN
    /\ step[c] = "index"
    /\ ~IndexReadGuarded(u)
    /\ user_index' = [user_index EXCEPT ![u] =
                        (IF @ = None THEN {} ELSE @) \cup {KeyOf[c]}]
    /\ Goto(c, "publish")
    /\ UNCHANGED <<sessions, tenant_counts, seq, dropping, keys, victim,
                   active>>

\* An entry that is already stored under the key is overwritten.  Back in
\* run_session, the gauge is raised and the SessionCleanup is armed.
TryInsertPublish(c) ==
    /\ step[c] = "publish"
    /\ sessions' = [sessions EXCEPT ![KeyOf[c]] =
                      [conn |-> c, created_seq |-> seq]]
    /\ seq' = seq + 1
    /\ active' = [active EXCEPT ![TenantOfConn(c)] = @ + 1]
    /\ Goto(c, "serving")
    /\ UNCHANGED <<user_index, tenant_counts, dropping, keys, victim>>

\* Mutant: the drop removes the entry and forgets the user index.
LoopEndsForgetsIndex(c) ==
    /\ step[c] = "serving"
    /\ dropping' = dropping \cup {c}
    /\ Goto(c, "take")
    /\ UNCHANGED <<sessions, user_index, tenant_counts, seq, keys, victim,
                   active>>

\* The session loop ends, for whatever reason, and SessionCleanup is dropped.
LoopEnds(c) ==
    /\ step[c] = "serving"
    /\ dropping' = dropping \cup {c}
    /\ Goto(c, "unindex")
    /\ UNCHANGED <<sessions, user_index, tenant_counts, seq, keys, victim,
                   active>>

-----------------------------------------------------------------------------
\* Every step of a task except the end of its loop, which is the client's.
TaskStep(c) ==
    \/ CountUserSessions(c)
    \/ EvictSnapshot(c) \/ EvictScan(c) \/ EvictChosen(c)
    \/ RemoveUnindex(c) \/ RemoveCheckEmpty(c) \/ RemoveDropUser(c)
    \/ RemoveTake(c) \/ RemoveUncount(c)
    \/ TryInsertReserve(c) \/ TryInsertIndex(c) \/ TryInsertPublish(c)

Next == \E c \in Conns : TaskStep(c) \/ LoopEnds(c)

Spec == Init /\ [][Next]_vars

\* The registry calls are synchronous code on a runtime thread: a task that
\* can take a step of a call takes it.
FairSpec == Spec /\ \A c \in Conns : WF_vars(TaskStep(c))

-----------------------------------------------------------------------------
(* Properties.                                                             *)

Registered(t) == {k \in Keys : sessions[k] # None /\ TenantOfKey(k) = t}

\* Tasks whose try_insert has raised the counter of t and not yet stored.
Inserting(t) ==
    {c \in Conns : step[c] \in {"index", "publish"} /\ TenantOfConn(c) = t}

\* Tasks whose remove_session has taken an entry of t and not yet lowered the
\* counter.
Uncounting(t) == {c \in Conns : step[c] = "uncount" /\ TenantOfConn(c) = t}

\* Every variable has its type.
TypeOK ==
    /\ sessions \in [Keys -> {None} \cup Entry]
    /\ user_index \in [Users -> {None} \cup SUBSET Keys]
    /\ tenant_counts \in [Tenants -> Nat]
    /\ seq \in Nat \ {0}
    /\ step \in [Conns -> Steps]
    /\ dropping \in SUBSET Conns
    /\ keys \in [Conns -> SUBSET Keys]
    /\ victim \in [Conns -> {None} \cup Victim]
    /\ active \in [Tenants -> Int]

\* try_insert and remove_session: however the calls interleave, and even when
\* connections share a session key, no more sessions of a tenant are registered
\* than max_sessions_total.
SessionsWithinCap ==
    \A t \in Tenants :
        MaxTotal[t] > 0 => Cardinality(Registered(t)) <= MaxTotal[t]

\* What the counter of t has to count.
Load(t) == Cardinality(Registered(t)) + Cardinality(Inserting(t))
             + Cardinality(Uncounting(t))

\* try_insert and remove_session: the counter never falls behind the sessions it
\* has to count, so that fetch_sub in remove_session never wraps below zero.
CounterCovers == \A t \in Tenants : tenant_counts[t] >= Load(t)

DistinctKeys == \A c, d \in Conns : KeyOf[c] = KeyOf[d] => c = d

\* try_insert and remove_session: with a session key per connection the counter
\* is exact up to the calls in flight.
CounterExact ==
    DistinctKeys => \A t \in Tenants : tenant_counts[t] = Load(t)

\* remove_session: with a session key per connection, a key in the user index
\* stands for a registered session or for one that try_insert is about to
\* store: count_user_sessions never counts a session that is gone.
IndexedAreRegistered ==
    DistinctKeys =>
        \A u \in Users : user_index[u] # None =>
            \A k \in user_index[u] :
                \/ sessions[k] # None
                \/ \E c \in Conns : KeyOf[c] = k /\ step[c] = "publish"

\* SessionCleanup and remove_session: with a session key per connection, once
\* all tasks have ended the registry holds no entry, no set of a user, not even
\* an empty one, and no count.
NothingLeftBehind ==
    (DistinctKeys /\ \A c \in Conns : step[c] = "done") =>
        /\ sessions = [k \in Keys |-> None]
        /\ user_index = [u \in Users |-> None]
        /\ tenant_counts = [t \in Tenants |-> 0]

\* evict_oldest: with a session key per connection, the session it removes is
\* older than every session that the user index still holds, although the keys
\* are looked up one by one while other tasks insert and remove.
EvictsOldest ==
    [][DistinctKeys =>
        \A c \in Conns :
            (c \notin dropping /\ step[c] = "take" /\ step'[c] = "uncount") =>
                LET u == UserOfConn(c) IN
                user_index[u] # None =>
                    \A k \in user_index[u] :
                        sessions[k] # None =>
                            sessions[victim[c].key].created_seq
                                < sessions[k].created_seq]_vars

\* A connection holds a slot of its tenant while try_insert stores its entry,
\* while it is registered, and until remove_session has lowered the counter.
HoldsSlot(c) ==
    \/ step[c] \in {"index", "publish"}
    \/ sessions[KeyOf[c]] # None
    \/ \E d \in Conns : step[d] = "uncount" /\ Target(d) = KeyOf[c]

\* A connection that has neither stored its entry nor been refused.
Waiting(c) == c \notin dropping /\ step[c] \notin {"serving", "done"}

StatusOf(c) == IF HoldsSlot(c) THEN "inside"
               ELSE IF Waiting(c) THEN "outside" ELSE "gone"

SlotStatus == [c \in Conns |-> StatusOf(c)]

Slots == INSTANCE Admission WITH
    Tenant <- [c \in Conns |-> TenantOfConn(c)], status <- SlotStatus

\* try_insert, remove_session and evict_oldest: with a session key per
\* connection, and however the map accesses interleave, the registry hands out
\* the slots of a tenant as Admission does: no more than there are, none lost,
\* and a connection that has evicted another is refused only if others have
\* taken all slots meanwhile.
AdmissionSpec == Slots!Spec

\* run_session and SessionCleanup: in the end every task that asks for admission
\* is admitted or refused, and every one whose loop has ended has finished its
\* clean-up: the guards of the three maps never make tasks wait for ever.
CallsReturn == []<>(\A c \in Conns : step[c] \in {"serving", "done"})

\* run_session and SessionCleanup: without eviction, the gauge
\* ws_active_sessions of a tenant is the number of its connections that have
\* been admitted and not yet cleaned up, shared session keys or not.
GaugeCountsSessions ==
    \A t \in Tenants : OnExceed[t] = "Deny" =>
        active[t] = Cardinality({c \in Conns :
            /\ step[c] = "serving" \/ (c \in dropping /\ step[c] # "done")
            /\ TenantOfConn(c) = t})

-----------------------------------------------------------------------------
(* What the documentation says and the code does not keep.                 *)

\* count_user_sessions and try_insert: a user never has more registered sessions
\* than max_sessions_per_user.
UserCapHolds ==
    \A u \in Users :
        Cardinality({k \in Keys : sessions[k] # None /\ UserOf[k] = u})
            <= MaxPerUser[TenantOf[u]]

AtRest == \A c \in Conns : step[c] \in {"count", "serving", "done"}

\* try_insert and remove_session: between calls, every registered session is in
\* the index of its user.
RegisteredAreIndexed ==
    AtRest => \A k \in Keys : sessions[k] # None =>
                 /\ user_index[UserOf[k]] # None
                 /\ k \in user_index[UserOf[k]]

\* try_insert and remove_session: once all connections of a tenant have ended,
\* its count is zero, whatever session ids the clients chose.
CountReturnsToZero ==
    (\A c \in Conns : step[c] = "done") =>
        tenant_counts = [t \in Tenants |-> 0]

\* run_session and SessionCleanup: once all connections of a tenant have ended,
\* the gauge ws_active_sessions is zero.
GaugeReturnsToZero ==
    (\A c \in Conns : step[c] = "done") => active = [t \in Tenants |-> 0]
=============================================================================
