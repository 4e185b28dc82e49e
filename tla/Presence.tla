------------------------------ MODULE Presence ------------------------------
(***************************************************************************)
(* Room presence (realtime/core/presence.rs) of one tenant, under the      *)
(* calls of session tasks (transport/ws.rs, through RealtimeCtx) and of a  *)
(* task that evicts a session and cleans up its presence.  Keys of         *)
(* different tenants never meet: each key starts with its tenant's id.     *)
(*                                                                         *)
(* Each access to a DashMap is one step.  Guards kept over several         *)
(* accesses:                                                               *)
(*  - leave holds a read guard of a set between removing an element and    *)
(*    testing for emptiness (ReadGuarded), and gives it up before it       *)
(*    removes the set from its map;                                        *)
(*  - try_join holds the write guard of its reference count while it       *)
(*    updates the user indices (RefGuarded).                               *)
(***************************************************************************)
EXTENDS Integers, FiniteSets

CONSTANTS
    Sessions,         \* session keys, each with the task that serves it
    Users,            \* user keys
    Rooms,            \* room keys
    UserOf,           \* the user of a session
    Kicker,           \* the task that evicts sessions
    Kickable,         \* sessions it may evict
    MaxUsersPerRoom,  \* limits of the tenant, 0 = unlimited
    MaxRoomsPerUser,
    MaxRoomsTotal,
    WordMax,          \* the largest value of usize and u64
    MaxCalls,         \* bound: calls in progress at the same time
    MaxRefs,          \* bound: joins of a user to a room that are counted
    Rejoin,           \* whether clients join a room they are already in
    None              \* an absent map entry or Option

Tasks == Sessions \cup {Kicker}
Entities == Sessions \cup Users \cup Rooms

ASSUME NamesAssumption ==
    /\ UserOf \in [Sessions -> Users]
    /\ Kickable \subseteq Sessions /\ Kicker \notin Sessions
ASSUME LimitsAssumption ==
    /\ {MaxUsersPerRoom, MaxRoomsPerUser, MaxRoomsTotal} \subseteq Nat
    /\ {WordMax, MaxCalls, MaxRefs} \subseteq Nat
    /\ Rejoin \in BOOLEAN
\* No more keys and joins than a word can count.
ASSUME FiniteAssumption ==
    /\ IsFiniteSet(Sessions) /\ IsFiniteSet(Users) /\ IsFiniteSet(Rooms)
    /\ Cardinality(Rooms) <= WordMax /\ MaxRefs <= WordMax
ASSUME NoneAssumption ==
    /\ None \notin Rooms /\ None \notin Sessions /\ None \notin Nat
    /\ \A S \in SUBSET Entities : None # S

VARIABLES
    index,               \* the four maps from a key to a set of keys
    user_room_refs,      \* (user, room) -> session_count
    tenant_room_counts,  \* the tenant's count of rooms
    active_room,         \* SessionState.active_room of each session task
    pc,                  \* the next step of each task's call
    room,                \* the room of the call
    todo,                \* cleanup_session: rooms to leave; None in a leave
    room_empty,          \* leave: the room's set was seen empty
    evicted,             \* sessions evicted so far
    target               \* the session the evicting task cleans up

maps == <<index, user_room_refs, tenant_room_counts>>
vars == <<maps, active_room, pc, room, todo, room_empty, evicted, target>>

\* Routing indices and governance indices.
Maps == {"room_to_sessions", "session_to_rooms", "room_to_users",
         "user_to_rooms"}

\* The steps of a call; those on a set name its map.
Labels == {<<"idle">>, <<"closed">>, <<"room_cap">>, <<"user_cap">>,
           <<"is_new_room">>, <<"count_room">>, <<"add_ref">>, <<"drop_ref">>,
           <<"remove_ref">>, <<"uncount_room">>, <<"take_rooms">>,
           <<"next_room">>}
             \cup ({"insert", "remove", "is_empty", "drop"} \X Maps)

Init ==
    /\ index = [m \in Maps |-> [x \in Entities |-> None]]
    /\ user_room_refs = [ur \in Users \X Rooms |-> None]
    /\ tenant_room_counts = 0
    /\ active_room = [s \in Sessions |-> None]
    /\ pc = [t \in Tasks |-> <<"idle">>]
    /\ room = [t \in Tasks |-> None]
    /\ todo = [t \in Tasks |-> None]
    /\ room_empty = [t \in Tasks |-> FALSE]
    /\ evicted = {}
    /\ target = None

Subject(t) == IF t = Kicker THEN target ELSE t
User(t) == UserOf[Subject(t)]
Ref(t) == <<User(t), room[t]>>

\* The key that a call of t looks up in a map, and the element it looks for.
Key(t, m) == CASE m \in {"room_to_sessions", "room_to_users"} -> room[t]
               [] m = "session_to_rooms" -> Subject(t)
               [] m = "user_to_rooms" -> User(t)
Elem(t, m) == CASE m \in {"session_to_rooms", "user_to_rooms"} -> room[t]
                [] m = "room_to_sessions" -> Subject(t)
                [] m = "room_to_users" -> User(t)

Members(set) == IF set = None THEN {} ELSE set
In(m, x) == Members(index[m][x])
RefCount(ur) == IF user_room_refs[ur] = None THEN 0 ELSE user_room_refs[ur]

Goto(t, l) == pc' = [pc EXCEPT ![t] = l]

\* Both counters wrap around (a build with overflow checks panics instead).
WrapDec(n) == IF n = 0 THEN WordMax ELSE n - 1
WrapInc(n) == IF n = WordMax THEN 0 ELSE n + 1

\* Mutant: leave removes an emptied set without dropping its guard first.
ReadGuardedAtDrop(m, x) ==
    \E t \in Tasks : pc[t] \in {"is_empty", "drop"} \X {m} /\ Key(t, m) = x

ReadGuarded(m, x) == \E t \in Tasks : pc[t] = <<"is_empty", m>> /\ Key(t, m) = x

\* A try_join is between its reference count and its return.
RefGuarded(ur) ==
    \E t \in Tasks :
        /\ pc[t] \in {<<"insert", "room_to_users">>, <<"insert", "user_to_rooms">>}
        /\ Ref(t) = ur

-----------------------------------------------------------------------------
(* Calls begin.  run_session makes the calls of one session one after the  *)
(* other; an eviction is another task's call on the session.               *)

InProgress == {t \in Tasks : pc[t] \notin {<<"idle">>, <<"closed">>}}
MayCall(t) == pc[t] = <<"idle">> /\ Cardinality(InProgress) < MaxCalls

\* A room:join message.
BeginJoin(s, r) ==
    /\ MayCall(s)
    /\ Rejoin \/ r \notin In("session_to_rooms", s)
    /\ RefCount(<<UserOf[s], r>>) < MaxRefs
    /\ room' = [room EXCEPT ![s] = r]
    /\ Goto(s, <<"room_cap">>)
    /\ UNCHANGED <<maps, active_room, todo, room_empty, evicted, target>>

\* A room:leave message: leaves active_room.take(), if there is one.
BeginLeave(s) ==
    /\ MayCall(s)
    /\ active_room[s] # None
    /\ room' = [room EXCEPT ![s] = active_room[s]]
    /\ active_room' = [active_room EXCEPT ![s] = None]
    /\ Goto(s, <<"remove", "room_to_sessions">>)
    /\ UNCHANGED <<maps, todo, room_empty, evicted, target>>

\* The session loop has ended: the drop of SessionCleanup.
BeginCleanup(s) ==
    /\ MayCall(s)
    /\ active_room' = [active_room EXCEPT ![s] = None]
    /\ Goto(s, <<"take_rooms">>)
    /\ UNCHANGED <<maps, room, todo, room_empty, evicted, target>>

\* run_session of a newer connection has evicted s from the registry.
BeginKick(s) ==
    /\ MayCall(Kicker)
    /\ s \in Kickable \ evicted /\ pc[s] # <<"closed">>
    /\ evicted' = evicted \cup {s}
    /\ target' = s
    /\ Goto(Kicker, <<"take_rooms">>)
    /\ UNCHANGED <<maps, active_room, room, todo, room_empty>>

-----------------------------------------------------------------------------
(* try_join *)

\* Both ways out of try_join; on success run_session sets its active room.
JoinReturns(t, ok) ==
    /\ Goto(t, <<"idle">>)
    /\ room' = [room EXCEPT ![t] = None]
    /\ active_room' = IF ok THEN [active_room EXCEPT ![t] = room[t]]
                      ELSE active_room

JoinContinues(t, l) == Goto(t, l) /\ UNCHANGED <<room, active_room>>

\* Mutant: off by one against the limit.
FullOffByOne(m, t, limit) ==
    LET set == In(m, Key(t, m)) IN
    limit > 0 /\ Cardinality(set) > limit /\ Elem(t, m) \notin set

\* len() >= limit && !contains()
Full(m, t, limit) ==
    LET set == In(m, Key(t, m)) IN
    limit > 0 /\ Cardinality(set) >= limit /\ Elem(t, m) \notin set

JoinRoomCap(t) ==
    /\ pc[t] = <<"room_cap">>
    /\ IF Full("room_to_users", t, MaxUsersPerRoom)
       THEN JoinReturns(t, FALSE) ELSE JoinContinues(t, <<"user_cap">>)
    /\ UNCHANGED <<maps, todo, room_empty, evicted, target>>

JoinUserCap(t) ==
    /\ pc[t] = <<"user_cap">>
    /\ IF Full("user_to_rooms", t, MaxRoomsPerUser)
       THEN JoinReturns(t, FALSE) ELSE JoinContinues(t, <<"is_new_room">>)
    /\ UNCHANGED <<maps, todo, room_empty, evicted, target>>

\* Mutant: every join counts its room.
JoinAlwaysNewRoom(t) ==
    /\ pc[t] = <<"is_new_room">>
    /\ JoinContinues(t, <<"count_room">>)
    /\ UNCHANGED <<maps, todo, room_empty, evicted, target>>

JoinIsNewRoom(t) ==
    /\ pc[t] = <<"is_new_room">>
    /\ JoinContinues(t, IF index["room_to_sessions"][room[t]] = None
                        THEN <<"count_room">>
                        ELSE <<"insert", "room_to_sessions">>)
    /\ UNCHANGED <<maps, todo, room_empty, evicted, target>>

\* Mutant: a new room is counted without the test of max_rooms_total.
JoinCountUnchecked(t) ==
    /\ pc[t] = <<"count_room">>
    /\ JoinContinues(t, <<"insert", "room_to_sessions">>)
    /\ tenant_room_counts' = WrapInc(tenant_room_counts)
    /\ UNCHANGED <<index, user_room_refs, todo, room_empty, evicted, target>>

JoinCountRoom(t) ==
    /\ pc[t] = <<"count_room">>
    /\ IF MaxRoomsTotal > 0 /\ tenant_room_counts >= MaxRoomsTotal
       THEN JoinReturns(t, FALSE) /\ UNCHANGED tenant_room_counts
       ELSE /\ JoinContinues(t, <<"insert", "room_to_sessions">>)
            /\ tenant_room_counts' = WrapInc(tenant_room_counts)
    /\ UNCHANGED <<index, user_room_refs, todo, room_empty, evicted, target>>

\* entry().or_default().insert(), in the order of the code.
JoinInsert(t, m) ==
    LET x == Key(t, m) IN
    /\ pc[t] = <<"insert", m>> /\ ~ReadGuarded(m, x)
    /\ index' = [index EXCEPT ![m][x] = Members(@) \cup {Elem(t, m)}]
    /\ CASE m = "room_to_sessions" ->
              JoinContinues(t, <<"insert", "session_to_rooms">>)
         [] m = "session_to_rooms" -> JoinContinues(t, <<"add_ref">>)
         [] m = "room_to_users" -> JoinContinues(t, <<"insert", "user_to_rooms">>)
         [] m = "user_to_rooms" -> JoinReturns(t, TRUE)
    /\ UNCHANGED <<user_room_refs, tenant_room_counts, todo, room_empty, evicted,
                   target>>

JoinAddRef(t) ==
    LET refs == WrapInc(RefCount(Ref(t))) IN
    /\ pc[t] = <<"add_ref">> /\ ~RefGuarded(Ref(t))
    /\ user_room_refs' = [user_room_refs EXCEPT ![Ref(t)] = refs]
    /\ IF refs = 1 THEN JoinContinues(t, <<"insert", "room_to_users">>)
                   ELSE JoinReturns(t, TRUE)
    /\ UNCHANGED <<index, tenant_room_counts, todo, room_empty, evicted, target>>

Join(t) ==
    \/ JoinRoomCap(t) \/ JoinUserCap(t) \/ JoinIsNewRoom(t) \/ JoinCountRoom(t)
    \/ \E m \in Maps : JoinInsert(t, m)
    \/ JoinAddRef(t)

-----------------------------------------------------------------------------
(* leave: out of the routing indices, then one reference less, with the    *)
(* last one out of the governance indices, then the count of rooms.        *)

\* Mutant: leave forgets the rooms of the session.
AfterRemoveForgetsRooms(m) ==
    CASE m \in {"room_to_sessions", "session_to_rooms"} -> <<"drop_ref">>
      [] m = "user_to_rooms" -> <<"remove", "room_to_users">>
      [] m = "room_to_users" -> <<"uncount_room">>

AfterRemove(m) ==
    CASE m = "room_to_sessions" -> <<"remove", "session_to_rooms">>
      [] m = "session_to_rooms" -> <<"drop_ref">>
      [] m = "user_to_rooms" -> <<"remove", "room_to_users">>
      [] m = "room_to_users" -> <<"uncount_room">>

LeaveRemove(t, m) ==
    LET x == Key(t, m) IN
    /\ pc[t] = <<"remove", m>>
    /\ index' = IF index[m][x] = None THEN index
                ELSE [index EXCEPT ![m][x] = @ \ {Elem(t, m)}]
    /\ Goto(t, IF index[m][x] = None THEN AfterRemove(m) ELSE <<"is_empty", m>>)
    /\ UNCHANGED <<user_room_refs, tenant_room_counts, active_room, room, todo,
                   room_empty, evicted, target>>

LeaveIsEmpty(t, m) ==
    LET empty == index[m][Key(t, m)] = {} IN
    /\ pc[t] = <<"is_empty", m>>
    /\ room_empty' = IF m = "room_to_sessions"
                     THEN [room_empty EXCEPT ![t] = empty] ELSE room_empty
    /\ Goto(t, IF empty THEN <<"drop", m>> ELSE AfterRemove(m))
    /\ UNCHANGED <<maps, active_room, room, todo, evicted, target>>

LeaveDrop(t, m) ==
    LET x == Key(t, m) IN
    /\ pc[t] = <<"drop", m>> /\ ~ReadGuarded(m, x)
    /\ index' = [index EXCEPT ![m][x] = None]
    /\ Goto(t, AfterRemove(m))
    /\ UNCHANGED <<user_room_refs, tenant_room_counts, active_room, room, todo,
                   room_empty, evicted, target>>

\* Mutant: the first session of a user to leave takes the user out.
LeaveDropAllRefs(t) ==
    /\ pc[t] = <<"drop_ref">> /\ ~RefGuarded(Ref(t))
    /\ Goto(t, <<"remove_ref">>)
    /\ UNCHANGED <<maps, active_room, room, todo, room_empty, evicted, target>>

LeaveDropRef(t) ==
    LET refs == user_room_refs[Ref(t)] IN
    /\ pc[t] = <<"drop_ref">> /\ ~RefGuarded(Ref(t))
    /\ user_room_refs' = IF refs = None THEN user_room_refs
                         ELSE [user_room_refs EXCEPT ![Ref(t)] = WrapDec(refs)]
    /\ Goto(t, IF refs = 1 THEN <<"remove_ref">> ELSE <<"uncount_room">>)
    /\ UNCHANGED <<index, tenant_room_counts, active_room, room, todo,
                   room_empty, evicted, target>>

\* Mutant: a count that has come to zero stays in the map.
LeaveKeepsZeroRef(t) ==
    /\ pc[t] = <<"remove_ref">> /\ ~RefGuarded(Ref(t))
    /\ Goto(t, <<"remove", "user_to_rooms">>)
    /\ UNCHANGED <<maps, active_room, room, todo, room_empty, evicted, target>>

LeaveRemoveRef(t) ==
    /\ pc[t] = <<"remove_ref">> /\ ~RefGuarded(Ref(t))
    /\ user_room_refs' = [user_room_refs EXCEPT ![Ref(t)] = None]
    /\ Goto(t, <<"remove", "user_to_rooms">>)
    /\ UNCHANGED <<index, tenant_room_counts, active_room, room, todo,
                   room_empty, evicted, target>>

\* Mutant: every leave lowers the count of rooms.
LeaveAlwaysUncounts(t) ==
    /\ pc[t] = <<"uncount_room">>
    /\ tenant_room_counts' = tenant_room_counts - 1
    /\ room_empty' = [room_empty EXCEPT ![t] = FALSE]
    /\ room' = [room EXCEPT ![t] = None]
    /\ Goto(t, IF todo[t] = None THEN <<"idle">> ELSE <<"next_room">>)
    /\ UNCHANGED <<index, user_room_refs, active_room, todo, evicted, target>>

LeaveUncountRoom(t) ==
    /\ pc[t] = <<"uncount_room">>
    /\ tenant_room_counts' = IF room_empty[t] THEN WrapDec(tenant_room_counts)
                             ELSE tenant_room_counts
    /\ room_empty' = [room_empty EXCEPT ![t] = FALSE]
    /\ room' = [room EXCEPT ![t] = None]
    /\ Goto(t, IF todo[t] = None THEN <<"idle">> ELSE <<"next_room">>)
    /\ UNCHANGED <<index, user_room_refs, active_room, todo, evicted, target>>

Leave(t) ==
    \/ \E m \in Maps : LeaveRemove(t, m) \/ LeaveIsEmpty(t, m) \/ LeaveDrop(t, m)
    \/ LeaveDropRef(t) \/ LeaveRemoveRef(t)
    \/ LeaveUncountRoom(t)

-----------------------------------------------------------------------------
(* cleanup_session: takes the rooms of the session, then leaves each.      *)

\* Mutant: the rooms of the session are forgotten instead of left.
CleanupForgetsRooms(t) ==
    LET s == Subject(t) IN
    /\ pc[t] = <<"take_rooms">> /\ ~ReadGuarded("session_to_rooms", s)
    /\ todo' = [todo EXCEPT ![t] = {}]
    /\ index' = [index EXCEPT !["session_to_rooms"][s] = None]
    /\ Goto(t, <<"next_room">>)
    /\ UNCHANGED <<user_room_refs, tenant_room_counts, active_room, room,
                   room_empty, evicted, target>>

CleanupTakeRooms(t) ==
    LET s == Subject(t) IN
    /\ pc[t] = <<"take_rooms">> /\ ~ReadGuarded("session_to_rooms", s)
    /\ todo' = [todo EXCEPT ![t] = In("session_to_rooms", s)]
    /\ index' = [index EXCEPT !["session_to_rooms"][s] = None]
    /\ Goto(t, <<"next_room">>)
    /\ UNCHANGED <<user_room_refs, tenant_room_counts, active_room, room,
                   room_empty, evicted, target>>

CleanupNextRoom(t) ==
    /\ pc[t] = <<"next_room">>
    /\ \E r \in todo[t] : /\ room' = [room EXCEPT ![t] = r]
                          /\ todo' = [todo EXCEPT ![t] = @ \ {r}]
    /\ Goto(t, <<"remove", "room_to_sessions">>)
    /\ UNCHANGED <<maps, active_room, room_empty, evicted, target>>

CleanupReturns(t) ==
    /\ pc[t] = <<"next_room">> /\ todo[t] = {}
    /\ todo' = [todo EXCEPT ![t] = None]
    /\ target' = IF t = Kicker THEN None ELSE target
    /\ Goto(t, IF t = Kicker THEN <<"idle">> ELSE <<"closed">>)
    /\ UNCHANGED <<maps, active_room, room, room_empty, evicted>>

Cleanup(t) == CleanupTakeRooms(t) \/ CleanupNextRoom(t) \/ CleanupReturns(t)

-----------------------------------------------------------------------------
\* A step of a call that has begun.
CallStep(t) == Join(t) \/ Leave(t) \/ Cleanup(t)

Next ==
    \/ \E t \in Tasks : CallStep(t)
    \/ \E s \in Sessions :
        \/ \E r \in Rooms : BeginJoin(s, r)
        \/ BeginLeave(s) \/ BeginCleanup(s) \/ BeginKick(s)

Spec == Init /\ [][Next]_vars

-----------------------------------------------------------------------------
(* Properties.                                                             *)

AtRest == InProgress = {}
SessionsIn(r) == In("room_to_sessions", r) \cap Sessions
RoomsOf(s) == In("session_to_rooms", s)
SessionsOfIn(u, r) == {s \in SessionsIn(r) : UserOf[s] = u}

\* Every variable has its type.
TypeOK ==
    /\ index \in [Maps -> [Entities -> {None} \cup SUBSET Entities]]
    /\ user_room_refs \in [Users \X Rooms -> {None} \cup (0 .. WordMax)]
    /\ tenant_room_counts \in 0 .. WordMax
    /\ active_room \in [Sessions -> {None} \cup Rooms]
    /\ pc \in [Tasks -> Labels]
    /\ room \in [Tasks -> {None} \cup Rooms]
    /\ todo \in [Tasks -> {None} \cup SUBSET Rooms]
    /\ room_empty \in [Tasks -> BOOLEAN]
    /\ evicted \in SUBSET Sessions
    /\ target \in {None} \cup Sessions

\* try_join, leave and cleanup_session: between calls, room_to_sessions and
\* session_to_rooms say the same of every session and room.
RoutingAgrees ==
    AtRest => \A s \in Sessions, r \in Rooms :
                 s \in SessionsIn(r) <=> r \in RoomsOf(s)

\* try_join and leave: between calls, the count of the tenant's rooms is the
\* number of rooms that have at least one session.
RoomCountExact ==
    AtRest => tenant_room_counts = Cardinality({r \in Rooms : SessionsIn(r) # {}})

\* try_join and leave: between calls, and until a session is evicted, the
\* reference count of a user and a room is at least the number of sessions that
\* the user has in the room, even if they join it again: the first one to leave
\* does not take the user out of the governance indices while others stay.
RefsCoverSessions ==
    (AtRest /\ evicted = {}) => \A u \in Users, r \in Rooms :
        RefCount(<<u, r>>) >= Cardinality(SessionsOfIn(u, r))

\* try_join and leave: between calls, and until a session is evicted, no room
\* has sessions of more users than max_users_per_room and no user has sessions
\* in more rooms than max_rooms_per_user, counted over the routing index and
\* not over the governance indices that the code checks.
UserLimitsHold ==
    (AtRest /\ evicted = {}) =>
        /\ \A r \in Rooms : MaxUsersPerRoom > 0 =>
              Cardinality({u \in Users : SessionsOfIn(u, r) # {}})
                  <= MaxUsersPerRoom
        /\ \A u \in Users : MaxRoomsPerUser > 0 =>
              Cardinality({r \in Rooms : SessionsOfIn(u, r) # {}})
                  <= MaxRoomsPerUser

\* leave: with calls one after the other, also with rooms joined again and with
\* the clean-up of an evicted session repeated by its own task, the reference
\* count of a user and a room is not lowered below zero.
RefsNeverUnderflow ==
    [][\A ur \in Users \X Rooms :
         user_room_refs[ur] = 0 => user_room_refs'[ur] # WordMax]_vars

Seats == {sr \in Sessions \X Rooms : sr[1] \in SessionsIn(sr[2])}
Closed == {s \in Sessions : pc[s] = <<"closed">>}

Membership == INSTANCE RoomMembership WITH
    MaxRooms <- MaxRoomsTotal, members <- Seats, gone <- Closed

\* try_join, leave and cleanup_session: with calls one after the other, the
\* routing index behaves as RoomMembership: at no step do more rooms have
\* sessions than max_rooms_total, sessions come and go one by one, and a session
\* that is cleaned up is in no room and joins none.
MembershipSpec == Membership!Spec

\* leave and cleanup_session: in any interleaving, also with the eviction of
\* other sessions, a session that is in a room's set has the room in its own
\* set, or the session's own call that is about to repair this is in progress: a
\* room never delivers to a session that left it.
NoStrayMember ==
    \A s \in Sessions \ evicted, r \in Rooms : s \in SessionsIn(r) =>
        \/ r \in RoomsOf(s)
        \/ r \in Members(todo[s])
        \/ room[s] = r /\ pc[s] \in {<<"insert", "session_to_rooms">>,
                                     <<"remove", "room_to_sessions">>}

\* cleanup_session: in any interleaving, also with the eviction of other
\* sessions, once the clean-up of a session has returned no room holds the
\* session and the session holds no room.
ClosedIsGone ==
    \A s \in Sessions \ evicted : pc[s] = <<"closed">> =>
        RoomsOf(s) = {} /\ \A r \in Rooms : s \notin SessionsIn(r)

\* try_join, leave and cleanup_session: the guards they hold never make all the
\* calls in progress wait for each other or for themselves.
SomeCallCanStep == AtRest \/ \E t \in InProgress : ENABLED CallStep(t)

-----------------------------------------------------------------------------
(* What the documentation says and the code does not keep.                 *)

\* try_join and leave: between calls, the reference count of a user and a room
\* is the number of sessions that the user has in the room.
RefsCountSessions ==
    AtRest => \A u \in Users, r \in Rooms :
        RefCount(<<u, r>>) = Cardinality(SessionsOfIn(u, r))
=============================================================================
