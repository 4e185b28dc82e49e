-------------------------- MODULE PresenceProofs --------------------------
(***************************************************************************)
(* Proofs about Presence for every number of sessions, rooms and           *)
(* overlapping calls: the routing indices never keep a session in a room   *)
(* that it has left.                                                       *)
(*                                                                         *)
(* The argument is that the set of rooms of a session, and its membership  *)
(* of a room, are only ever extended by the session's own task, which      *)
(* makes one call at a time (OthersStep); what the other tasks do can only *)
(* take the session out of rooms.  The clauses of OwnCalls say what the    *)
(* session's own call knows at each of its steps.                          *)
(***************************************************************************)
EXTENDS Presence, TLAPS

JoinLabels == {<<"room_cap">>, <<"user_cap">>, <<"is_new_room">>,
               <<"count_room">>, <<"add_ref">>} \cup ({"insert"} \X Maps)
LeaveLabels == {<<"drop_ref">>, <<"remove_ref">>, <<"uncount_room">>}
                 \cup ({"remove", "is_empty", "drop"} \X Maps)

\* Every call has what it works on.
Arguments ==
    /\ pc[Kicker] \notin JoinLabels \cup {<<"closed">>}
    /\ pc[Kicker] # <<"idle">> => target \in evicted
    /\ \A t \in Tasks : pc[t] \in JoinLabels \cup LeaveLabels => room[t] \in Rooms
    /\ \A t \in Tasks : pc[t] = <<"next_room">> => todo[t] # None
    /\ \A t \in Tasks :
          pc[t] \in JoinLabels \cup {<<"idle">>, <<"take_rooms">>, <<"closed">>}
              => todo[t] = None
    /\ \A s \in Sessions : RoomsOf(s) \in SUBSET Rooms

\* The room that a leave has taken s out of already.
OutOf(s) == pc[s] \in {<<"is_empty", "room_to_sessions">>,
                       <<"drop", "room_to_sessions">>,
                       <<"remove", "session_to_rooms">>}

\* A clean-up that has taken the rooms of s.
RoomsTaken(s) == todo[s] # None \/ pc[s] \in {<<"next_room">>, <<"closed">>}

\* The room r is among the rooms of s, or the call of s is about to put it
\* there or to take s out of it.
Accounted(s, r) ==
    \/ r \in RoomsOf(s)
    \/ r \in Members(todo[s])
    \/ room[s] = r /\ pc[s] \in {<<"insert", "session_to_rooms">>,
                                 <<"remove", "room_to_sessions">>}

\* What the call of a session knows.
Own(s) ==
    /\ OutOf(s) => s \notin SessionsIn(room[s])
    /\ pc[s] = <<"drop", "session_to_rooms">> => RoomsOf(s) = {}
    /\ RoomsTaken(s) => RoomsOf(s) = {}
    /\ \A r \in Rooms : s \in SessionsIn(r) => Accounted(s, r)

OwnCalls == \A s \in Sessions \ evicted : Own(s)

PInv == TypeOK /\ Arguments /\ OwnCalls

-----------------------------------------------------------------------------
LEMMA SubjectType ==
    ASSUME TypeOK, Arguments, NEW t \in Tasks,
           pc[t] \notin {<<"idle">>, <<"closed">>}
    PROVE  /\ Subject(t) \in Sessions /\ User(t) \in Users
           /\ t # Kicker => Subject(t) = t
           /\ t = Kicker => Subject(t) \in evicted
BY Zenon, NamesAssumption DEF Tasks, Subject, User, Arguments, TypeOK

\* The key and the element of every step on a set.
LEMMA KeyType ==
    ASSUME TypeOK, Arguments, NEW t \in Tasks, NEW m \in Maps,
           pc[t] \in ({"insert", "remove", "is_empty", "drop"} \X {m})
    PROVE  /\ Key(t, m) \in Entities /\ Elem(t, m) \in Entities
           /\ room[t] \in Rooms
           /\ m = "session_to_rooms" => Key(t, m) = Subject(t)
           /\ m = "session_to_rooms" => Elem(t, m) = room[t]
           /\ m = "room_to_sessions" => Key(t, m) = room[t]
           /\ m = "room_to_sessions" => Elem(t, m) = Subject(t)
<1>1. pc[t] \in JoinLabels \cup LeaveLabels /\ pc[t] \notin {<<"idle">>, <<"closed">>}
  BY DEF JoinLabels, LeaveLabels
<1>2. Subject(t) \in Sessions /\ User(t) \in Users /\ room[t] \in Rooms
  BY <1>1, SubjectType DEF Arguments
<1> QED
  BY <1>2 DEF Key, Elem, Entities, Maps

LEMMA TypeInit == Init => TypeOK
BY LimitsAssumption DEF Init, TypeOK, Labels, Maps, Entities

LEMMA MembersType ==
    ASSUME TypeOK, NEW m \in Maps, NEW x \in Entities
    PROVE  In(m, x) \in SUBSET Entities /\ Members(index[m][x]) \in SUBSET Entities
BY DEF TypeOK, In, Members

LEMMA RefType ==
    ASSUME TypeOK, Arguments, NEW t \in Tasks,
           pc[t] \in {<<"add_ref">>, <<"drop_ref">>, <<"remove_ref">>}
    PROVE  /\ Ref(t) \in Users \X Rooms
           /\ RefCount(Ref(t)) \in 0 .. WordMax
<1>1. User(t) \in Users
  BY SubjectType
<1>2. room[t] \in Rooms
  BY DEF Arguments, JoinLabels, LeaveLabels
<1> QED
  BY <1>1, <1>2, LimitsAssumption DEF Ref, RefCount, TypeOK

\* Every update of a set in one of the maps.
LEMMA IndexType ==
    ASSUME TypeOK, NEW m \in Maps, NEW x \in Entities,
           NEW S \in {None} \cup SUBSET Entities,
           index' = [index EXCEPT ![m][x] = S]
    PROVE  index' \in [Maps -> [Entities -> {None} \cup SUBSET Entities]]
BY DEF TypeOK

\* A step of try_join goes on to another step or returns.
LEMMA JoinFlow ==
    ASSUME TypeOK, NEW t \in Sessions,
           \/ \E l \in Labels : JoinContinues(t, l)
           \/ \E ok \in BOOLEAN : JoinReturns(t, ok)
    PROVE  /\ pc' \in [Tasks -> Labels]
           /\ room' \in [Tasks -> {None} \cup Rooms]
           /\ active_room' \in [Sessions -> {None} \cup Rooms]
<1>1. t \in Tasks /\ <<"idle">> \in Labels
  BY DEF Tasks, Labels
<1>2. CASE \E l \in Labels : JoinContinues(t, l)
  BY <1>1, <1>2 DEF JoinContinues, Goto, TypeOK
<1>3. ASSUME NEW ok \in BOOLEAN, JoinReturns(t, ok)
      PROVE  /\ pc' \in [Tasks -> Labels]
             /\ room' \in [Tasks -> {None} \cup Rooms]
             /\ active_room' \in [Sessions -> {None} \cup Rooms]
  <2>1. pc' \in [Tasks -> Labels] /\ room' \in [Tasks -> {None} \cup Rooms]
    BY <1>1, <1>3 DEF JoinReturns, Goto, TypeOK
  <2>2. room[t] \in {None} \cup Rooms
    BY <1>1 DEF TypeOK
  <2>3. active_room' \in [Sessions -> {None} \cup Rooms]
    BY <1>3, <2>2 DEF JoinReturns, TypeOK
  <2> QED
    BY <2>1, <2>3
<1> QED
  BY <1>2, <1>3

\* Only a session's own task joins.
LEMMA JoinsItself ==
    ASSUME Arguments, NEW t \in Tasks, pc[t] \in JoinLabels
    PROVE  t \in Sessions /\ t # Kicker /\ Subject(t) = t
BY DEF Arguments, Tasks, Subject

LEMMA JoinLabel ==
    ASSUME NEW t \in Tasks, Join(t)
    PROVE  pc[t] \in JoinLabels
<1>1. ASSUME NEW m \in Maps, JoinInsert(t, m) PROVE pc[t] \in JoinLabels
  BY <1>1 DEF JoinInsert, JoinLabels
<1> QED
  BY Zenon, <1>1 DEF Join, JoinRoomCap, JoinUserCap, JoinIsNewRoom, JoinCountRoom,
     JoinAddRef, JoinLabels

LEMMA JoinType ==
    ASSUME TypeOK, Arguments, NEW t \in Tasks, Join(t)
    PROVE  TypeOK'
<1>s. t \in Sessions
  BY JoinLabel, JoinsItself
<1>l. /\ {<<"user_cap">>, <<"is_new_room">>, <<"count_room">>, <<"add_ref">>}
            \subseteq Labels
      /\ \A m \in Maps : <<"insert", m>> \in Labels
      /\ {"room_to_sessions", "session_to_rooms", "room_to_users",
          "user_to_rooms"} = Maps
  BY Zenon DEF Labels, Maps
<1> DEFINE Flow == \/ \E l \in Labels : JoinContinues(t, l)
                   \/ \E ok \in BOOLEAN : JoinReturns(t, ok)
<1>1. CASE JoinRoomCap(t) \/ JoinUserCap(t) \/ JoinIsNewRoom(t)
  <2>1. Flow
    BY Zenon, <1>1, <1>l DEF JoinRoomCap, JoinUserCap, JoinIsNewRoom
  <2>2. UNCHANGED <<index, user_room_refs, tenant_room_counts, todo, room_empty,
                    evicted, target>>
    BY Zenon, <1>1 DEF JoinRoomCap, JoinUserCap, JoinIsNewRoom, maps
  <2> QED
    BY <1>s, <2>1, <2>2, JoinFlow DEF TypeOK
<1>2. CASE JoinCountRoom(t)
  <2>1. WrapInc(tenant_room_counts) \in 0 .. WordMax
    <3>1. tenant_room_counts \in 0 .. WordMax /\ WordMax \in Nat
      BY LimitsAssumption DEF TypeOK
    <3> QED
      BY <3>1 DEF WrapInc
  <2>2. tenant_room_counts' \in 0 .. WordMax
    BY Zenon, <1>2, <2>1 DEF JoinCountRoom, TypeOK
  <2>3. Flow
    BY Zenon, <1>2, <1>l DEF JoinCountRoom
  <2>4. UNCHANGED <<index, user_room_refs, todo, room_empty, evicted, target>>
    BY Zenon, <1>2 DEF JoinCountRoom
  <2> QED
    BY <1>s, <2>2, <2>3, <2>4, JoinFlow DEF TypeOK
<1>3. ASSUME NEW m \in Maps, JoinInsert(t, m) PROVE TypeOK'
  <2>1. Key(t, m) \in Entities /\ Elem(t, m) \in Entities
    BY <1>3, KeyType DEF JoinInsert
  <2>2. index' \in [Maps -> [Entities -> {None} \cup SUBSET Entities]]
    <3> DEFINE S == Members(index[m][Key(t, m)]) \cup {Elem(t, m)}
    <3>1. S \in {None} \cup SUBSET Entities
      BY <2>1, MembersType
    <3>2. index' = [index EXCEPT ![m][Key(t, m)] = S]
      BY <1>3 DEF JoinInsert
    <3> HIDE DEF S
    <3> QED
      BY Zenon, <2>1, <3>1, <3>2, IndexType
  <2>3. Flow
    BY Zenon, <1>3, <1>l DEF JoinInsert
  <2>4. UNCHANGED <<user_room_refs, tenant_room_counts, todo, room_empty,
                    evicted, target>>
    BY Zenon, <1>3 DEF JoinInsert
  <2> QED
    BY <1>s, <2>2, <2>3, <2>4, JoinFlow DEF TypeOK
<1>4. CASE JoinAddRef(t)
  <2>1. Ref(t) \in Users \X Rooms /\ RefCount(Ref(t)) \in 0 .. WordMax
    BY Zenon, <1>4, RefType DEF JoinAddRef
  <2>2. WrapInc(RefCount(Ref(t))) \in 0 .. WordMax
    BY <2>1, LimitsAssumption DEF WrapInc
  <2>3. user_room_refs' \in [Users \X Rooms -> {None} \cup (0 .. WordMax)]
    BY <1>4, <2>1, <2>2 DEF JoinAddRef, TypeOK
  <2>4. Flow
    BY Zenon, <1>4, <1>l DEF JoinAddRef
  <2>5. UNCHANGED <<index, tenant_room_counts, todo, room_empty, evicted, target>>
    BY <1>4 DEF JoinAddRef
  <2> QED
    BY <1>s, <2>3, <2>4, <2>5, JoinFlow DEF TypeOK
<1> QED
  BY <1>1, <1>2, <1>3, <1>4 DEF Join

LEMMA LeaveType ==
    ASSUME TypeOK, Arguments, NEW t \in Tasks, Leave(t)
    PROVE  TypeOK'
<1>l. \A m \in Maps : AfterRemove(m) \in Labels
  BY Zenon DEF AfterRemove, Labels, Maps
<1>1. ASSUME NEW m \in Maps, LeaveRemove(t, m) PROVE TypeOK'
  <2>1. Key(t, m) \in Entities /\ Elem(t, m) \in Entities
    BY <1>1, KeyType DEF LeaveRemove
  <2>2. index' \in [Maps -> [Entities -> {None} \cup SUBSET Entities]]
    <3>1. CASE index[m][Key(t, m)] = None
      BY ZenonT(60), <1>1, <3>1 DEF LeaveRemove, TypeOK
    <3>2. CASE index[m][Key(t, m)] # None
      BY SMTT(60), <1>1, <2>1, <3>2, IndexType DEF LeaveRemove, TypeOK
    <3> QED
      BY <3>1, <3>2
  <2>3. pc' \in [Tasks -> Labels]
    BY <1>1, <1>l DEF LeaveRemove, Goto, TypeOK, Labels
  <2> QED
    BY Zenon, <1>1, <2>2, <2>3 DEF LeaveRemove, TypeOK
<1>2. ASSUME NEW m \in Maps, LeaveIsEmpty(t, m) PROVE TypeOK'
  <2>1. pc' \in [Tasks -> Labels]
    BY <1>2, <1>l DEF LeaveIsEmpty, Goto, TypeOK, Labels
  <2>2. room_empty' \in [Tasks -> BOOLEAN]
    BY Zenon, <1>2 DEF LeaveIsEmpty, TypeOK
  <2> QED
    BY ZenonT(60), <1>2, <2>1, <2>2 DEF LeaveIsEmpty, TypeOK, maps
<1>3. ASSUME NEW m \in Maps, LeaveDrop(t, m) PROVE TypeOK'
  <2>1. Key(t, m) \in Entities
    BY SMTT(60), <1>3, KeyType DEF LeaveDrop
  <2>2. index' \in [Maps -> [Entities -> {None} \cup SUBSET Entities]]
    BY Zenon, <1>3, <2>1, IndexType DEF LeaveDrop
  <2>3. pc' \in [Tasks -> Labels]
    BY Zenon, <1>3, <1>l DEF LeaveDrop, Goto, TypeOK
  <2> QED
    BY <1>3, <2>2, <2>3 DEF LeaveDrop, TypeOK
<1>4. CASE LeaveDropRef(t)
  <2>1. Ref(t) \in Users \X Rooms
    BY Zenon, <1>4, RefType DEF LeaveDropRef
  <2>2. user_room_refs[Ref(t)] # None =>
            WrapDec(user_room_refs[Ref(t)]) \in 0 .. WordMax
    BY <2>1, LimitsAssumption DEF WrapDec, TypeOK
  <2>3. user_room_refs' \in [Users \X Rooms -> {None} \cup (0 .. WordMax)]
    BY <1>4, <2>1, <2>2 DEF LeaveDropRef, TypeOK
  <2>4. pc' \in [Tasks -> Labels]
    BY ZenonT(60), <1>4 DEF LeaveDropRef, Goto, TypeOK, Labels
  <2> QED
    BY Zenon, <1>4, <2>3, <2>4 DEF LeaveDropRef, TypeOK
<1>5. CASE LeaveRemoveRef(t)
  <2>1. Ref(t) \in Users \X Rooms
    BY Zenon, <1>5, RefType DEF LeaveRemoveRef
  <2> QED
    BY <1>5, <2>1 DEF LeaveRemoveRef, Goto, TypeOK, Labels, Maps
<1>6. CASE LeaveUncountRoom(t)
  <2>1. tenant_room_counts' \in 0 .. WordMax
    BY <1>6, LimitsAssumption DEF LeaveUncountRoom, WrapDec, TypeOK
  <2>2. room_empty' \in [Tasks -> BOOLEAN]
    BY Zenon, <1>6 DEF LeaveUncountRoom, TypeOK
  <2>3. pc' \in [Tasks -> Labels] /\ room' \in [Tasks -> {None} \cup Rooms]
    BY <1>6 DEF LeaveUncountRoom, Goto, TypeOK, Labels
  <2> QED
    BY Zenon, <1>6, <2>1, <2>2, <2>3 DEF LeaveUncountRoom, TypeOK
<1> QED
  BY <1>1, <1>2, <1>3, <1>4, <1>5, <1>6 DEF Leave

LEMMA CleanupType ==
    ASSUME TypeOK, Arguments, NEW t \in Tasks, Cleanup(t)
    PROVE  TypeOK'
<1>1. CASE CleanupTakeRooms(t)
  <2>1. Subject(t) \in Entities /\ "session_to_rooms" \in Maps
    BY <1>1, SubjectType DEF CleanupTakeRooms, Entities, Maps
  <2>2. index' \in [Maps -> [Entities -> {None} \cup SUBSET Entities]]
    BY Zenon, <1>1, <2>1, IndexType DEF CleanupTakeRooms
  <2>3. In("session_to_rooms", Subject(t)) \in SUBSET Rooms
    BY <1>1, SubjectType DEF CleanupTakeRooms, Arguments, RoomsOf
  <2> QED
    BY <1>1, <2>2, <2>3 DEF CleanupTakeRooms, Goto, TypeOK, Labels
<1>2. CASE CleanupNextRoom(t)
  <2>1. /\ pc' = [pc EXCEPT ![t] = <<"remove", "room_to_sessions">>]
        /\ <<"remove", "room_to_sessions">> \in Labels
    BY <1>2 DEF CleanupNextRoom, Goto, Labels, Maps
  <2>2. PICK r \in todo[t] : /\ room' = [room EXCEPT ![t] = r]
                             /\ todo' = [todo EXCEPT ![t] = @ \ {r}]
    BY Zenon, <1>2 DEF CleanupNextRoom
  <2>3. todo[t] \in SUBSET Rooms
    BY Zenon, <1>2 DEF CleanupNextRoom, Arguments, TypeOK
  <2>4. /\ pc' \in [Tasks -> Labels]
        /\ room' \in [Tasks -> {None} \cup Rooms]
        /\ todo' \in [Tasks -> {None} \cup SUBSET Rooms]
    BY Zenon, <2>1, <2>2, <2>3 DEF TypeOK
  <2> QED
    BY <1>2, <2>4 DEF CleanupNextRoom, TypeOK, maps
<1>3. CASE CleanupReturns(t)
  BY <1>3 DEF CleanupReturns, Goto, TypeOK, Labels, maps
<1> QED
  BY ZenonT(60), <1>1, <1>2, <1>3 DEF Cleanup

LEMMA BeginType ==
    ASSUME TypeOK, NEW s \in Sessions,
           \/ \E r \in Rooms : BeginJoin(s, r)
           \/ BeginLeave(s) \/ BeginCleanup(s) \/ BeginKick(s)
    PROVE  TypeOK'
<1>1. s \in Tasks /\ Kicker \in Tasks
  BY ZenonT(60) DEF Tasks
<1>2. CASE \E r \in Rooms : BeginJoin(s, r)
  BY <1>1, <1>2 DEF BeginJoin, Goto, TypeOK, Labels, maps
<1>3. CASE BeginLeave(s)
  <2>1. pc' \in [Tasks -> Labels]
    BY Zenon, <1>1, <1>3 DEF BeginLeave, Goto, TypeOK, Labels, Maps
  <2> QED
    BY Zenon, <1>1, <1>3, <2>1 DEF BeginLeave, TypeOK, maps
<1>4. CASE BeginCleanup(s)
  BY ZenonT(60), <1>1, <1>4 DEF BeginCleanup, Goto, TypeOK, Labels, maps
<1>5. CASE BeginKick(s)
  BY Zenon, <1>1, <1>5 DEF BeginKick, Goto, TypeOK, Labels, maps
<1> QED
  BY <1>2, <1>3, <1>4, <1>5

-----------------------------------------------------------------------------
(* What a step does to the rooms of a session that is not evicted.         *)

LEMMA IndexAt ==
    ASSUME TypeOK, NEW m \in Maps, NEW x \in Entities, NEW S,
           index' = [index EXCEPT ![m][x] = S],
           NEW n \in Maps, NEW y \in Entities
    PROVE  index'[n][y] = IF n = m /\ y = x THEN S ELSE index[n][y]
BY DEF TypeOK

\* The call of another task is about another session.
LEMMA OtherSubject ==
    ASSUME TypeOK, Arguments, NEW s \in Sessions \ evicted, NEW t \in Tasks,
           t # s, pc[t] \notin {<<"idle">>, <<"closed">>}
    PROVE  Subject(t) # s /\ Subject(t) \in Sessions
BY SubjectType

\* s keeps its rooms, and comes into no room.
NotAdded(s) ==
    /\ RoomsOf(s)' = RoomsOf(s)
    /\ \A r \in Rooms : s \in SessionsIn(r)' => s \in SessionsIn(r)

LEMMA NamesOfMaps ==
    /\ "room_to_sessions" \in Maps /\ "session_to_rooms" \in Maps
    /\ Sessions \subseteq Entities /\ Rooms \subseteq Entities
BY DEF Maps, Entities

\* A step that changes no set, or a set of another map.
LEMMA NotAddedElsewhere ==
    ASSUME TypeOK, NEW s \in Sessions,
           \/ UNCHANGED index
           \/ \E m \in Maps \ {"room_to_sessions", "session_to_rooms"} :
                \E x \in Entities : \E S \in {None} \cup SUBSET Entities :
                    index' = [index EXCEPT ![m][x] = S]
    PROVE  /\ NotAdded(s)
           /\ \A r \in Rooms : SessionsIn(r)' = SessionsIn(r)
<1>1. CASE UNCHANGED index
  BY Zenon, <1>1 DEF NotAdded, RoomsOf, SessionsIn, In
<1>2. ASSUME NEW m \in Maps \ {"room_to_sessions", "session_to_rooms"},
             NEW x \in Entities, NEW S \in {None} \cup SUBSET Entities,
             index' = [index EXCEPT ![m][x] = S]
      PROVE  /\ NotAdded(s)
             /\ \A r \in Rooms : SessionsIn(r)' = SessionsIn(r)
  <2>1. \A y \in Entities :
            /\ index'["session_to_rooms"][y] = index["session_to_rooms"][y]
            /\ index'["room_to_sessions"][y] = index["room_to_sessions"][y]
    BY <1>2, NamesOfMaps, IndexAt
  <2>2. index'["session_to_rooms"][s] = index["session_to_rooms"][s]
    BY Zenon, <2>1, NamesOfMaps
  <2>3. \A r \in Rooms : index'["room_to_sessions"][r] = index["room_to_sessions"][r]
    BY <2>1, NamesOfMaps
  <2> QED
    BY Zenon, <2>2, <2>3 DEF NotAdded, RoomsOf, SessionsIn, In
<1> QED
  BY <1>1, <1>2

\* A step on the sets of rooms of another session.
LEMMA NotAddedRooms ==
    ASSUME TypeOK, NEW s \in Sessions, NEW x \in Sessions, x # s, NEW S,
           index' = [index EXCEPT !["session_to_rooms"][x] = S]
    PROVE  NotAdded(s)
<1>1. index'["session_to_rooms"][s] = index["session_to_rooms"][s]
  BY NamesOfMaps, IndexAt
<1>2. \A r \in Rooms : index'["room_to_sessions"][r] = index["room_to_sessions"][r]
  BY NamesOfMaps, IndexAt
<1> QED
  BY <1>1, <1>2 DEF NotAdded, RoomsOf, SessionsIn, In

\* A step on the set of a room that does not add s.
LEMMA NotAddedSessions ==
    ASSUME TypeOK, NEW s \in Sessions, NEW x \in Rooms, NEW S,
           index' = [index EXCEPT !["room_to_sessions"][x] = S],
           s \in Members(S) => s \in SessionsIn(x)
    PROVE  NotAdded(s)
<1>1. index'["session_to_rooms"][s] = index["session_to_rooms"][s]
  BY NamesOfMaps, IndexAt
<1>2. ASSUME NEW r \in Rooms
      PROVE  index'["room_to_sessions"][r]
               = IF r = x THEN S ELSE index["room_to_sessions"][r]
  <2>1. x \in Entities /\ r \in Entities /\ "room_to_sessions" \in Maps
    BY Zenon, NamesOfMaps
  <2> QED
    BY <2>1 DEF TypeOK
<1>3. RoomsOf(s)' = RoomsOf(s)
  BY <1>1 DEF RoomsOf, In
<1>4. ASSUME NEW r \in Rooms, s \in SessionsIn(r)' PROVE s \in SessionsIn(r)
  <2>1. CASE r = x
    BY <1>2, <1>4, <2>1 DEF SessionsIn, In
  <2>2. CASE r # x
    BY Zenon, <1>2, <1>4, <2>2 DEF SessionsIn, In
  <2> QED
    BY <2>1, <2>2
<1> QED
  BY <1>3, <1>4 DEF NotAdded

\* What the steps on a set make of it.
LEMMA SetUpdate ==
    ASSUME TypeOK, Arguments, NEW t \in Tasks, NEW m \in Maps,
           JoinInsert(t, m) \/ LeaveRemove(t, m) \/ LeaveDrop(t, m)
    PROVE  /\ pc[t] \in ({"insert", "remove", "is_empty", "drop"} \X {m})
           /\ \/ UNCHANGED index
              \/ \E S \in {None} \cup SUBSET Entities :
                    /\ index' = [index EXCEPT ![m][Key(t, m)] = S]
                    /\ \A e \in Members(S) :
                          e \in In(m, Key(t, m)) \/ e = Elem(t, m)
<1> DEFINE x == Key(t, m)
           set == index[m][x]
<1>1. pc[t] \in ({"insert", "remove", "is_empty", "drop"} \X {m})
  <2>1. \E l \in {"insert", "remove", "drop"} : pc[t] = <<l, m>>
    BY Zenon DEF JoinInsert, LeaveRemove, LeaveDrop
  <2> QED
    BY <2>1
<1>2. x \in Entities /\ Elem(t, m) \in Entities
  BY ZenonT(60), <1>1, KeyType
<1>3. set \in {None} \cup SUBSET Entities
  BY <1>2 DEF TypeOK
<1>4. CASE JoinInsert(t, m)
  <2> DEFINE S == Members(set) \cup {Elem(t, m)}
  <2>1. S \in SUBSET Entities /\ S # None
    BY <1>2, <1>3, NoneAssumption DEF Members
  <2>2. index' = [index EXCEPT ![m][x] = S]
    BY ZenonT(60), <1>4 DEF JoinInsert
  <2>3. \A e \in Members(S) : e \in In(m, x) \/ e = Elem(t, m)
    BY <2>1 DEF Members, In
  <2> HIDE DEF S
  <2> QED
    BY ZenonT(60), <1>1, <2>1, <2>2, <2>3
<1>5. CASE LeaveRemove(t, m)
  <2>1. CASE set = None
    BY Zenon, <1>1, <1>5, <2>1 DEF LeaveRemove
  <2>2. CASE set # None
    <3> DEFINE S == set \ {Elem(t, m)}
    <3>1. S \in SUBSET Entities /\ S # None
      BY Zenon, <1>3, <2>2, NoneAssumption
    <3>2. index' = [index EXCEPT ![m][x] = S]
      BY Zenon, <1>5, <2>2 DEF LeaveRemove
    <3>3. \A e \in Members(S) : e \in In(m, x) \/ e = Elem(t, m)
      BY <2>2, <3>1 DEF Members, In
    <3> HIDE DEF S
    <3> QED
      BY Zenon, <1>1, <3>1, <3>2, <3>3
  <2> QED
    BY Zenon, <2>1, <2>2
<1>6. CASE LeaveDrop(t, m)
  BY Zenon, <1>1, <1>6 DEF LeaveDrop, Members
<1> QED
  BY <1>4, <1>5, <1>6

\* Every other step leaves the sets alone, except the taking of all rooms.
LEMMA OtherUpdates ==
    ASSUME NEW t \in Tasks, CallStep(t)
    PROVE  \/ \E m \in Maps :
                JoinInsert(t, m) \/ LeaveRemove(t, m) \/ LeaveDrop(t, m)
           \/ CleanupTakeRooms(t)
           \/ UNCHANGED index
BY Zenon DEF CallStep, Join, Leave, Cleanup, JoinRoomCap, JoinUserCap, JoinIsNewRoom,
       JoinCountRoom, JoinAddRef, LeaveIsEmpty, LeaveDropRef, LeaveRemoveRef,
       LeaveUncountRoom, CleanupNextRoom, CleanupReturns, maps

\* The calls of other tasks, an evicting one included, give s no room and
\* leave the rooms it has.
LEMMA OthersStep ==
    ASSUME TypeOK, Arguments, NEW s \in Sessions \ evicted, NEW t \in Tasks,
           t # s, CallStep(t)
    PROVE  NotAdded(s)
<1>1. ASSUME NEW m \in Maps,
             JoinInsert(t, m) \/ LeaveRemove(t, m) \/ LeaveDrop(t, m)
      PROVE  NotAdded(s)
  <2> DEFINE x == Key(t, m)
  <2>1. pc[t] \in ({"insert", "remove", "is_empty", "drop"} \X {m})
    BY ZenonT(60), <1>1, SetUpdate
  <2>2. /\ x \in Entities /\ Elem(t, m) \in Entities
        /\ m = "session_to_rooms" => x = Subject(t)
        /\ m = "room_to_sessions" => x = room[t] /\ Elem(t, m) = Subject(t)
        /\ room[t] \in Rooms
    BY Zenon, <2>1, KeyType
  <2>3. Subject(t) # s /\ Subject(t) \in Sessions
    BY <2>1, OtherSubject
  <2>4. \/ UNCHANGED index
        \/ \E S \in {None} \cup SUBSET Entities :
              /\ index' = [index EXCEPT ![m][x] = S]
              /\ \A e \in Members(S) : e \in In(m, x) \/ e = Elem(t, m)
    BY <1>1, SetUpdate
  <2> HIDE DEF x
  <2>5. CASE UNCHANGED index
    BY <2>5, NotAddedElsewhere
  <2>6. ASSUME NEW S \in {None} \cup SUBSET Entities,
               index' = [index EXCEPT ![m][x] = S],
               \A e \in Members(S) : e \in In(m, x) \/ e = Elem(t, m)
        PROVE  NotAdded(s)
    <3>1. CASE m = "session_to_rooms"
      BY Zenon, <2>2, <2>3, <2>6, <3>1, NotAddedRooms
    <3>2. CASE m = "room_to_sessions"
      <4>1. s \in Members(S) => s \in SessionsIn(x)
        BY <2>2, <2>3, <2>6, <3>2 DEF SessionsIn
      <4> QED
        BY Zenon, <2>2, <2>6, <3>2, <4>1, NotAddedSessions
    <3>3. CASE m \notin {"session_to_rooms", "room_to_sessions"}
      BY Zenon, <2>2, <2>6, <3>3, NotAddedElsewhere
    <3> QED
      BY <3>1, <3>2, <3>3
  <2> QED
    BY <2>4, <2>5, <2>6
<1>2. CASE CleanupTakeRooms(t)
  <2>1. Subject(t) # s /\ Subject(t) \in Sessions
    BY <1>2, OtherSubject DEF CleanupTakeRooms
  <2> QED
    BY Zenon, <1>2, <2>1, NotAddedRooms DEF CleanupTakeRooms
<1>3. CASE UNCHANGED index
  BY ZenonT(60), <1>3, NotAddedElsewhere
<1> QED
  BY Zenon, <1>1, <1>2, <1>3, OtherUpdates

-----------------------------------------------------------------------------
(* How calls go on.                                                        *)

\* The call of t goes on at l, with the room r and the rooms T to do.
GoesTo(t, l, r, T) ==
    /\ pc' = [pc EXCEPT ![t] = l]
    /\ room' = [room EXCEPT ![t] = r]
    /\ todo' = [todo EXCEPT ![t] = T]

LEMMA JoinGoes ==
    ASSUME TypeOK, Arguments, NEW t \in Tasks, Join(t)
    PROVE  /\ pc[t] \in JoinLabels /\ UNCHANGED <<evicted, target>>
           /\ \/ \E l \in JoinLabels : GoesTo(t, l, room[t], todo[t])
              \/ GoesTo(t, <<"idle">>, None, todo[t])
<1>1. pc[t] \in JoinLabels
  BY JoinLabel
<1>2. UNCHANGED <<evicted, target, todo>>
  BY Zenon DEF Join, JoinRoomCap, JoinUserCap, JoinIsNewRoom, JoinCountRoom,
         JoinInsert, JoinAddRef
<1>3. \/ \E l \in JoinLabels : JoinContinues(t, l)
      \/ \E ok \in BOOLEAN : JoinReturns(t, ok)
  <2>1. /\ {<<"user_cap">>, <<"is_new_room">>, <<"count_room">>, <<"add_ref">>}
              \subseteq JoinLabels
        /\ \A m \in Maps : <<"insert", m>> \in JoinLabels
        /\ {"room_to_sessions", "session_to_rooms", "room_to_users",
            "user_to_rooms"} = Maps
    BY DEF JoinLabels, Maps
  <2>2. CASE JoinRoomCap(t) \/ JoinUserCap(t)
    BY Zenon, <2>1, <2>2 DEF JoinRoomCap, JoinUserCap
  <2>3. CASE JoinIsNewRoom(t)
    BY <2>1, <2>3 DEF JoinIsNewRoom
  <2>4. CASE JoinCountRoom(t)
    BY Zenon, <2>1, <2>4 DEF JoinCountRoom
  <2>5. ASSUME NEW m \in Maps, JoinInsert(t, m)
        PROVE  \/ \E l \in JoinLabels : JoinContinues(t, l)
               \/ \E ok \in BOOLEAN : JoinReturns(t, ok)
    BY Zenon, <2>1, <2>5 DEF JoinInsert
  <2>6. CASE JoinAddRef(t)
    BY Zenon, <2>1, <2>6 DEF JoinAddRef
  <2> QED
    BY <2>2, <2>3, <2>4, <2>5, <2>6 DEF Join
<1>4. todo' = [todo EXCEPT ![t] = todo[t]]
  BY Zenon, <1>2 DEF TypeOK
<1>5. UNCHANGED room => room' = [room EXCEPT ![t] = room[t]]
  BY DEF TypeOK
<1>6. CASE \E l \in JoinLabels : JoinContinues(t, l)
  BY Zenon, <1>1, <1>2, <1>4, <1>5, <1>6 DEF JoinContinues, Goto, GoesTo
<1>7. CASE \E ok \in BOOLEAN : JoinReturns(t, ok)
  BY Zenon, <1>1, <1>2, <1>4, <1>7 DEF JoinReturns, Goto, GoesTo
<1> QED
  BY <1>3, <1>6, <1>7

LEMMA LeaveGoes ==
    ASSUME TypeOK, Arguments, NEW t \in Tasks, Leave(t)
    PROVE  /\ pc[t] \in LeaveLabels /\ UNCHANGED <<evicted, target>>
           /\ \/ \E l \in LeaveLabels : GoesTo(t, l, room[t], todo[t])
              \/ GoesTo(t, IF todo[t] = None THEN <<"idle">> ELSE <<"next_room">>,
                        None, todo[t])
<1>l. /\ {<<"drop_ref">>, <<"remove_ref">>, <<"uncount_room">>} \subseteq LeaveLabels
      /\ \A m \in Maps : {<<"remove", m>>, <<"is_empty", m>>, <<"drop", m>>}
                           \subseteq LeaveLabels
      /\ \A m \in Maps : AfterRemove(m) \in LeaveLabels
  BY DEF LeaveLabels, AfterRemove, Maps
<1>u. /\ todo = [todo EXCEPT ![t] = todo[t]]
      /\ room = [room EXCEPT ![t] = room[t]]
  BY DEF TypeOK
<1>1. ASSUME NEW m \in Maps,
             LeaveRemove(t, m) \/ LeaveIsEmpty(t, m) \/ LeaveDrop(t, m)
      PROVE  /\ pc[t] \in LeaveLabels /\ UNCHANGED <<evicted, target>>
             /\ \E l \in LeaveLabels : GoesTo(t, l, room[t], todo[t])
  <2>1. pc[t] \in LeaveLabels
    BY Zenon, <1>1, <1>l DEF LeaveRemove, LeaveIsEmpty, LeaveDrop
  <2>2. UNCHANGED <<evicted, target, room, todo>>
    BY <1>1 DEF LeaveRemove, LeaveIsEmpty, LeaveDrop
  <2>3. \E l \in LeaveLabels : pc' = [pc EXCEPT ![t] = l]
    BY Zenon, <1>1, <1>l DEF LeaveRemove, LeaveIsEmpty, LeaveDrop, Goto
  <2> QED
    BY Zenon, <1>u, <2>1, <2>2, <2>3 DEF GoesTo
<1>2. CASE LeaveDropRef(t) \/ LeaveRemoveRef(t)
  <2>1. pc[t] \in LeaveLabels
    BY Zenon, <1>2, <1>l DEF LeaveDropRef, LeaveRemoveRef
  <2>2. UNCHANGED <<evicted, target, room, todo>>
    BY <1>2 DEF LeaveDropRef, LeaveRemoveRef
  <2>3. \E l \in LeaveLabels : pc' = [pc EXCEPT ![t] = l]
    BY Zenon, <1>2, <1>l DEF LeaveDropRef, LeaveRemoveRef, Goto, Maps
  <2> QED
    BY Zenon, <1>u, <2>1, <2>2, <2>3 DEF GoesTo
<1>3. CASE LeaveUncountRoom(t)
  BY ZenonT(60), <1>3, <1>l, <1>u DEF LeaveUncountRoom, Goto, GoesTo
<1> QED
  BY Zenon, <1>1, <1>2, <1>3 DEF Leave

LEMMA CleanupGoes ==
    ASSUME TypeOK, Arguments, NEW t \in Tasks, Cleanup(t)
    PROVE  /\ evicted' = evicted
           /\ \/ /\ pc[t] = <<"take_rooms">> /\ target' = target
                 /\ \E T \in SUBSET Rooms : GoesTo(t, <<"next_room">>, room[t], T)
              \/ /\ pc[t] = <<"next_room">> /\ target' = target
                 /\ \E r \in todo[t], T \in SUBSET Rooms :
                      /\ T = todo[t] \ {r} /\ r \in Rooms
                      /\ GoesTo(t, <<"remove", "room_to_sessions">>, r, T)
              \/ /\ pc[t] = <<"next_room">> /\ todo[t] = {}
                 /\ GoesTo(t, IF t = Kicker THEN <<"idle">> ELSE <<"closed">>,
                           room[t], None)
                 /\ t # Kicker => target' = target
<1>u. room = [room EXCEPT ![t] = room[t]]
  BY DEF TypeOK
<1>1. CASE CleanupTakeRooms(t)
  <2>1. In("session_to_rooms", Subject(t)) \in SUBSET Rooms
    BY <1>1, SubjectType DEF CleanupTakeRooms, Arguments, RoomsOf
  <2> QED
    BY Zenon, <1>1, <1>u, <2>1 DEF CleanupTakeRooms, Goto, GoesTo
<1>2. CASE CleanupNextRoom(t)
  <2>1. todo[t] \in SUBSET Rooms /\ pc[t] = <<"next_room">>
    BY <1>2 DEF CleanupNextRoom, Arguments, TypeOK
  <2>2. PICK r \in todo[t] : /\ room' = [room EXCEPT ![t] = r]
                             /\ todo' = [todo EXCEPT ![t] = @ \ {r}]
    BY Zenon, <1>2 DEF CleanupNextRoom
  <2> DEFINE T == todo[t] \ {r}
  <2>3. T \in SUBSET Rooms /\ r \in Rooms /\ T = todo[t] \ {r}
    BY <2>1
  <2>4. GoesTo(t, <<"remove", "room_to_sessions">>, r, T)
    BY Zenon, <1>2, <2>2 DEF CleanupNextRoom, Goto, GoesTo
  <2> HIDE DEF T
  <2> QED
    BY ZenonT(60), <1>2, <2>1, <2>3, <2>4 DEF CleanupNextRoom
<1>3. CASE CleanupReturns(t)
  BY Zenon, <1>3, <1>u DEF CleanupReturns, Goto, GoesTo
<1> QED
  BY Zenon, <1>1, <1>2, <1>3 DEF Cleanup

\* A session is only ever in rooms.
LEMMA RoomsType ==
    ASSUME TypeOK, Arguments, NEW t \in Tasks, CallStep(t), NEW s \in Sessions
    PROVE  RoomsOf(s)' \in SUBSET Rooms
<1>0. RoomsOf(s) \in SUBSET Rooms
  BY Zenon DEF Arguments
<1>1. ASSUME NEW m \in Maps,
             JoinInsert(t, m) \/ LeaveRemove(t, m) \/ LeaveDrop(t, m)
      PROVE  RoomsOf(s)' \in SUBSET Rooms
  <2> DEFINE x == Key(t, m)
  <2>1. pc[t] \in ({"insert", "remove", "is_empty", "drop"} \X {m})
    BY SMTT(60), <1>1, SetUpdate
  <2>2. /\ x \in Entities /\ s \in Entities
        /\ m = "session_to_rooms" => Elem(t, m) = room[t]
        /\ room[t] \in Rooms
    BY <2>1, KeyType, NamesOfMaps
  <2>3. CASE UNCHANGED index
    BY <1>0, <2>3 DEF RoomsOf, In
  <2>4. ASSUME NEW S \in {None} \cup SUBSET Entities,
               index' = [index EXCEPT ![m][x] = S],
               \A e \in Members(S) : e \in In(m, x) \/ e = Elem(t, m)
        PROVE  RoomsOf(s)' \in SUBSET Rooms
    <3> HIDE DEF x
    <3>1. CASE m = "session_to_rooms" /\ s = x
      <4>1. index'["session_to_rooms"][s] = S
        BY Zenon, <2>2, <2>4, <3>1 DEF TypeOK
      <4> QED
        BY Zenon, <1>0, <2>2, <2>4, <3>1, <4>1 DEF RoomsOf, In
    <3>2. CASE ~(m = "session_to_rooms" /\ s = x)
      <4>1. index'["session_to_rooms"][s] = index["session_to_rooms"][s]
        BY <2>2, <2>4, <3>2, NamesOfMaps, IndexAt
      <4> QED
        BY Zenon, <1>0, <4>1 DEF RoomsOf, In
    <3> QED
      BY Zenon, <3>1, <3>2
  <2> QED
    BY Zenon, <1>1, <2>3, <2>4, SetUpdate
<1>2. CASE CleanupTakeRooms(t)
  <2>1. Subject(t) \in Entities /\ s \in Entities
    BY <1>2, SubjectType DEF CleanupTakeRooms, Entities
  <2>2. index'["session_to_rooms"][s]
          = IF s = Subject(t) THEN None ELSE index["session_to_rooms"][s]
    BY <1>2, <2>1, NamesOfMaps DEF CleanupTakeRooms, TypeOK
  <2> QED
    BY Zenon, <1>0, <2>2 DEF RoomsOf, In, Members
<1>3. CASE UNCHANGED index
  BY ZenonT(60), <1>0, <1>3 DEF RoomsOf, In
<1> QED
  BY Zenon, <1>1, <1>2, <1>3, OtherUpdates

-----------------------------------------------------------------------------
LEMMA ArgumentsInit == Init => Arguments
<1> SUFFICES ASSUME Init PROVE Arguments
  BY Zenon
<1>1. \A s \in Sessions : RoomsOf(s) = {}
  BY Zenon, NamesOfMaps DEF Init, RoomsOf, In, Members
<1>2. \A t \in Tasks : pc[t] = <<"idle">> /\ todo[t] = None
  BY DEF Init
<1>3. Kicker \in Tasks /\ <<"idle">> \notin JoinLabels \cup LeaveLabels
  BY DEF Tasks, JoinLabels, LeaveLabels
<1> QED
  BY <1>1, <1>2, <1>3 DEF Arguments

LEMMA LabelsApart ==
    /\ JoinLabels \cap LeaveLabels = {}
    /\ {<<"idle">>, <<"closed">>, <<"take_rooms">>, <<"next_room">>}
         \cap (JoinLabels \cup LeaveLabels) = {}
    /\ <<"idle">> # <<"closed">> /\ <<"next_room">> # <<"idle">>
    /\ <<"next_room">> # <<"closed">> /\ <<"next_room">> # <<"take_rooms">>
    /\ <<"take_rooms">> # <<"idle">> /\ <<"take_rooms">> # <<"closed">>
BY DEF JoinLabels, LeaveLabels

LEMMA RefLabelsApart ==
    {<<"drop_ref">>, <<"remove_ref">>, <<"uncount_room">>}
        \cap {<<"insert", "session_to_rooms">>, <<"remove", "room_to_sessions">>} = {}
OBVIOUS

\* The beginnings of the calls, and the label between two steps of a join.
LEMMA StartLabelsApart ==
    {<<"idle">>, <<"room_cap">>, <<"take_rooms">>, <<"add_ref">>,
     <<"remove", "room_to_sessions">>}
        \cap {<<"is_empty", "room_to_sessions">>, <<"drop", "room_to_sessions">>,
              <<"remove", "session_to_rooms">>, <<"drop", "session_to_rooms">>,
              <<"next_room">>, <<"closed">>} = {}
OBVIOUS

LEMMA LeavesARoom ==
    ASSUME Arguments, NEW t \in Tasks, pc[t] \in LeaveLabels
    PROVE  room[t] \in Rooms
BY Zenon DEF Arguments

LEMMA OutOfARoom ==
    ASSUME Arguments, NEW s \in Sessions, OutOf(s)
    PROVE  room[s] \in Rooms
<1>1. pc[s] \in LeaveLabels /\ s \in Tasks
  BY SMTT(60) DEF OutOf, LeaveLabels, Maps, Tasks
<1> QED
  BY <1>1, LeavesARoom

\* A call may go on where its arguments allow it.
Fits(t, l, r, T) ==
    /\ l \in JoinLabels \cup LeaveLabels => r \in Rooms
    /\ l = <<"next_room">> => T # None
    /\ l \in JoinLabels \cup {<<"idle">>, <<"take_rooms">>, <<"closed">>} => T = None
    /\ t = Kicker => l \notin JoinLabels \cup {<<"closed">>}

LEMMA ArgumentsFlow ==
    ASSUME TypeOK, Arguments, NEW t \in Tasks, NEW l, NEW r, NEW T,
           GoesTo(t, l, r, T), Fits(t, l, r, T),
           pc'[Kicker] # <<"idle">> => target' \in evicted',
           \A s \in Sessions : RoomsOf(s)' \in SUBSET Rooms
    PROVE  Arguments'
<1>1. Kicker \in Tasks
  BY ZenonT(60) DEF Tasks
<1>2. /\ pc'[t] = l /\ room'[t] = r /\ todo'[t] = T
      /\ \A u \in Tasks \ {t} : /\ pc'[u] = pc[u] /\ room'[u] = room[u]
                                /\ todo'[u] = todo[u]
  BY DEF GoesTo, TypeOK
<1>3. pc'[Kicker] \notin JoinLabels \cup {<<"closed">>}
  BY Zenon, <1>1, <1>2 DEF Arguments, Fits
<1>4. ASSUME NEW u \in Tasks
      PROVE  /\ pc'[u] \in JoinLabels \cup LeaveLabels => room'[u] \in Rooms
             /\ pc'[u] = <<"next_room">> => todo'[u] # None
             /\ pc'[u] \in JoinLabels
                    \cup {<<"idle">>, <<"take_rooms">>, <<"closed">>}
                  => todo'[u] = None
  <2>1. CASE u = t
    BY ZenonT(60), <1>2, <2>1 DEF Fits
  <2>2. CASE u # t
    BY <1>2, <2>2 DEF Arguments
  <2> QED
    BY Zenon, <2>1, <2>2
<1> QED
  BY <1>3, <1>4 DEF Arguments

LEMMA ArgumentsCall ==
    ASSUME TypeOK, Arguments, NEW t \in Tasks, CallStep(t)
    PROVE  Arguments'
<1>r. \A s \in Sessions : RoomsOf(s)' \in SUBSET Rooms
  BY RoomsType
<1>k. Kicker \in Tasks
  BY Zenon DEF Tasks
<1>1. CASE Join(t)
  <2>1. /\ pc[t] \in JoinLabels /\ UNCHANGED <<evicted, target>>
        /\ \/ \E l \in JoinLabels : GoesTo(t, l, room[t], todo[t])
           \/ GoesTo(t, <<"idle">>, None, todo[t])
    BY Zenon, <1>1, JoinGoes
  <2>2. room[t] \in Rooms /\ todo[t] = None /\ t # Kicker
    BY ZenonT(60), <2>1 DEF Arguments
  <2>3. pc'[Kicker] = pc[Kicker]
    BY <1>k, <2>1, <2>2 DEF GoesTo, TypeOK
  <2>4. pc'[Kicker] # <<"idle">> => target' \in evicted'
    BY ZenonT(60), <2>1, <2>3 DEF Arguments
  <2>5. ASSUME NEW l \in JoinLabels, GoesTo(t, l, room[t], todo[t])
        PROVE  Arguments'
    <3>1. Fits(t, l, room[t], todo[t])
      BY Zenon, <2>2, LabelsApart DEF Fits
    <3> QED
      BY <1>r, <2>4, <2>5, <3>1, ArgumentsFlow
  <2>6. CASE GoesTo(t, <<"idle">>, None, todo[t])
    <3>1. Fits(t, <<"idle">>, None, todo[t])
      BY Zenon, <2>2, LabelsApart DEF Fits
    <3> QED
      BY <1>r, <2>4, <2>6, <3>1, ArgumentsFlow
  <2> QED
    BY Zenon, <2>1, <2>5, <2>6
<1>2. CASE Leave(t)
  <2> DEFINE e == IF todo[t] = None THEN <<"idle">> ELSE <<"next_room">>
  <2>1. /\ pc[t] \in LeaveLabels /\ UNCHANGED <<evicted, target>>
        /\ \/ \E l \in LeaveLabels : GoesTo(t, l, room[t], todo[t])
           \/ GoesTo(t, e, None, todo[t])
    BY <1>2, LeaveGoes
  <2>2. room[t] \in Rooms /\ pc[t] # <<"idle">>
    BY Zenon, <2>1, LabelsApart DEF Arguments
  <2>3. pc'[Kicker] # <<"idle">> => target' \in evicted'
    BY ZenonT(60), <1>k, <2>1, <2>2 DEF Arguments, GoesTo, TypeOK
  <2>4. ASSUME NEW l \in LeaveLabels, GoesTo(t, l, room[t], todo[t])
        PROVE  Arguments'
    <3>1. Fits(t, l, room[t], todo[t])
      BY ZenonT(60), <2>2, LabelsApart DEF Fits
    <3> QED
      BY <1>r, <2>3, <2>4, <3>1, ArgumentsFlow
  <2>5. CASE GoesTo(t, e, None, todo[t])
    <3>1. Fits(t, e, None, todo[t])
      BY ZenonT(60), LabelsApart DEF Fits
    <3> HIDE DEF e
    <3> QED
      BY <1>r, <2>3, <2>5, <3>1, ArgumentsFlow
  <2> QED
    BY ZenonT(60), <2>1, <2>4, <2>5
<1>3. CASE Cleanup(t)
  <2>0. evicted' = evicted
    BY Zenon, <1>3, CleanupGoes
  <2>1. CASE /\ pc[t] = <<"take_rooms">> /\ target' = target
             /\ \E T \in SUBSET Rooms : GoesTo(t, <<"next_room">>, room[t], T)
    <3>1. PICK T \in SUBSET Rooms : GoesTo(t, <<"next_room">>, room[t], T)
      BY <2>1
    <3>2. T # None
      BY NoneAssumption DEF Entities
    <3>3. Fits(t, <<"next_room">>, room[t], T)
      BY Zenon, <3>2, LabelsApart DEF Fits
    <3>4. pc'[Kicker] # <<"idle">> => target' \in evicted'
      BY ZenonT(60), <1>k, <2>0, <2>1, <3>1, LabelsApart DEF Arguments, GoesTo, TypeOK
    <3> QED
      BY Zenon, <1>r, <3>1, <3>3, <3>4, ArgumentsFlow
  <2>2. CASE /\ pc[t] = <<"next_room">> /\ target' = target
             /\ \E r \in todo[t], T \in SUBSET Rooms :
                  /\ T = todo[t] \ {r} /\ r \in Rooms
                  /\ GoesTo(t, <<"remove", "room_to_sessions">>, r, T)
    <3> DEFINE l == <<"remove", "room_to_sessions">>
    <3>1. PICK r \in Rooms, T \in SUBSET Rooms : GoesTo(t, l, r, T)
      BY Zenon, <2>2
    <3>2. Fits(t, l, r, T)
      BY LabelsApart DEF Fits, LeaveLabels, Maps
    <3> HIDE DEF l
    <3>3. pc'[Kicker] # <<"idle">> => target' \in evicted'
      BY ZenonT(60), <1>k, <2>0, <2>2, <3>1, LabelsApart DEF Arguments, GoesTo, TypeOK
    <3> QED
      BY ZenonT(60), <1>r, <3>1, <3>2, <3>3, ArgumentsFlow
  <2>3. CASE /\ pc[t] = <<"next_room">> /\ todo[t] = {}
             /\ GoesTo(t, IF t = Kicker THEN <<"idle">> ELSE <<"closed">>,
                       room[t], None)
             /\ t # Kicker => target' = target
    <3> DEFINE l == IF t = Kicker THEN <<"idle">> ELSE <<"closed">>
    <3>1. Fits(t, l, room[t], None)
      BY Zenon, LabelsApart DEF Fits
    <3>2. pc'[Kicker] # <<"idle">> => target' \in evicted'
      BY ZenonT(60), <1>k, <2>0, <2>3 DEF Arguments, GoesTo, TypeOK
    <3>3. GoesTo(t, l, room[t], None)
      BY Zenon, <2>3
    <3> HIDE DEF l
    <3> QED
      BY <1>r, <3>1, <3>2, <3>3, ArgumentsFlow
  <2> QED
    BY <1>3, <2>1, <2>2, <2>3, CleanupGoes
<1> QED
  BY Zenon, <1>1, <1>2, <1>3 DEF CallStep

LEMMA ArgumentsBegin ==
    ASSUME TypeOK, Arguments, NEW s \in Sessions,
           \/ \E r \in Rooms : BeginJoin(s, r)
           \/ BeginLeave(s) \/ BeginCleanup(s) \/ BeginKick(s)
    PROVE  Arguments'
<1>t. s \in Tasks /\ Kicker \in Tasks /\ s # Kicker
  BY Zenon, NamesAssumption DEF Tasks
<1>u. \A t \in Tasks : /\ todo = [todo EXCEPT ![t] = todo[t]]
                       /\ room = [room EXCEPT ![t] = room[t]]
  BY Zenon DEF TypeOK
<1>r. \A x \in Sessions : RoomsOf(x)' \in SUBSET Rooms
  <2>1. UNCHANGED index
    BY ZenonT(60) DEF BeginJoin, BeginLeave, BeginCleanup, BeginKick, maps
  <2> QED
    BY Zenon, <2>1 DEF Arguments, RoomsOf, In
<1>1. ASSUME NEW r \in Rooms, BeginJoin(s, r) PROVE Arguments'
  <2>1. /\ GoesTo(s, <<"room_cap">>, r, todo[s]) /\ pc[s] = <<"idle">>
        /\ UNCHANGED <<evicted, target>>
    BY ZenonT(60), <1>1, <1>t, <1>u DEF BeginJoin, MayCall, Goto, GoesTo
  <2>2. Fits(s, <<"room_cap">>, r, todo[s])
    BY <1>t, <2>1, LabelsApart DEF Fits, Arguments, JoinLabels
  <2>3. pc'[Kicker] # <<"idle">> => target' \in evicted'
    BY Zenon, <1>t, <2>1 DEF Arguments, GoesTo, TypeOK
  <2> QED
    BY Zenon, <1>t, <1>r, <2>1, <2>2, <2>3, ArgumentsFlow
<1>2. CASE BeginLeave(s)
  <2> DEFINE l == <<"remove", "room_to_sessions">>
  <2>1. /\ GoesTo(s, l, active_room[s], todo[s]) /\ pc[s] = <<"idle">>
        /\ UNCHANGED <<evicted, target>> /\ active_room[s] \in Rooms
    BY <1>2, <1>t, <1>u DEF BeginLeave, MayCall, Goto, GoesTo, TypeOK
  <2>l. l \in LeaveLabels
    BY Zenon DEF LeaveLabels, Maps
  <2> HIDE DEF l
  <2>2. Fits(s, l, active_room[s], todo[s])
    BY Zenon, <1>t, <2>1, <2>l, LabelsApart DEF Fits
  <2>3. pc'[Kicker] # <<"idle">> => target' \in evicted'
    BY ZenonT(60), <1>t, <2>1 DEF Arguments, GoesTo, TypeOK
  <2> QED
    BY ZenonT(60), <1>t, <1>r, <2>1, <2>2, <2>3, ArgumentsFlow
<1>3. CASE BeginCleanup(s)
  <2>1. /\ GoesTo(s, <<"take_rooms">>, room[s], todo[s]) /\ pc[s] = <<"idle">>
        /\ UNCHANGED <<evicted, target>>
    BY Zenon, <1>3, <1>t, <1>u DEF BeginCleanup, MayCall, Goto, GoesTo
  <2>2. Fits(s, <<"take_rooms">>, room[s], todo[s])
    BY Zenon, <1>t, <2>1, LabelsApart DEF Fits, Arguments
  <2>3. pc'[Kicker] # <<"idle">> => target' \in evicted'
    BY ZenonT(60), <1>t, <2>1 DEF Arguments, GoesTo, TypeOK
  <2> QED
    BY SMTT(60), <1>t, <1>r, <2>1, <2>2, <2>3, ArgumentsFlow
<1>4. CASE BeginKick(s)
  <2>1. /\ GoesTo(Kicker, <<"take_rooms">>, room[Kicker], todo[Kicker])
        /\ pc[Kicker] = <<"idle">> /\ target' \in evicted'
    BY Zenon, <1>4, <1>t, <1>u DEF BeginKick, MayCall, Goto, GoesTo
  <2>2. Fits(Kicker, <<"take_rooms">>, room[Kicker], todo[Kicker])
    BY ZenonT(60), <1>t, <2>1, LabelsApart DEF Fits, Arguments
  <2> QED
    BY <1>t, <1>r, <2>1, <2>2, ArgumentsFlow
<1> QED
  BY <1>1, <1>2, <1>3, <1>4

-----------------------------------------------------------------------------
(* A session's own call, and the calls of others, keep Own.                *)

\* A step that is not the session's.
LEMMA OwnKept ==
    ASSUME NEW s \in Sessions, Own(s), NotAdded(s),
           room[s] \in Rooms \/ ~OutOf(s),
           pc'[s] = pc[s], room'[s] = room[s], todo'[s] = todo[s]
    PROVE  Own(s)'
<1>1. OutOf(s)' => s \notin SessionsIn(room[s])'
  BY Zenon DEF Own, OutOf, NotAdded
<1>2. /\ (pc[s] = <<"drop", "session_to_rooms">>)' => (RoomsOf(s) = {})'
      /\ RoomsTaken(s)' => (RoomsOf(s) = {})'
  BY Zenon DEF Own, RoomsTaken, NotAdded
<1>3. ASSUME NEW r \in Rooms, s \in SessionsIn(r)' PROVE Accounted(s, r)'
  BY Zenon, <1>3 DEF Own, NotAdded, Accounted
<1> QED
  BY <1>1, <1>2, <1>3 DEF Own

\* A label at which Own asks nothing of the session's sets.
Quiet(l) == l \notin {<<"is_empty", "room_to_sessions">>,
                      <<"drop", "room_to_sessions">>,
                      <<"remove", "session_to_rooms">>,
                      <<"drop", "session_to_rooms">>}

\* Going on to l with the room r and the rooms T loses sight of no room.
KeepsAccount(s, l, r, T) ==
    \A q \in Rooms : Accounted(s, q) =>
        \/ q \in RoomsOf(s) \/ q \in Members(T)
        \/ r = q /\ l \in {<<"insert", "session_to_rooms">>,
                           <<"remove", "room_to_sessions">>}

\* A step of the session's call that leaves the sets alone.
LEMMA OwnFlow ==
    ASSUME TypeOK, Arguments, NEW s \in Sessions, Own(s), NotAdded(s),
           NEW l, NEW r, NEW T, GoesTo(s, l, r, T),
           Quiet(l), KeepsAccount(s, l, r, T),
           (T # None \/ l \in {<<"next_room">>, <<"closed">>}) => RoomsTaken(s)
    PROVE  Own(s)'
<1>1. pc'[s] = l /\ room'[s] = r /\ todo'[s] = T
  BY Zenon DEF GoesTo, TypeOK, Tasks
<1>2. /\ ~OutOf(s)' /\ pc'[s] # <<"drop", "session_to_rooms">>
      /\ RoomsTaken(s)' => RoomsTaken(s)
  BY ZenonT(60), <1>1 DEF OutOf, RoomsTaken, Quiet
<1>3. ASSUME NEW q \in Rooms, s \in SessionsIn(q)' PROVE Accounted(s, q)'
  BY ZenonT(60), <1>1, <1>3 DEF Own, NotAdded, Accounted, KeepsAccount
<1>4. RoomsTaken(s)' => RoomsOf(s)' = {}
  BY <1>2 DEF Own, NotAdded
<1> QED
  BY Zenon, <1>2, <1>3, <1>4, Zenon DEF Own

\* The steps of try_join.
LEMMA OwnJoin ==
    ASSUME TypeOK, Arguments, NEW s \in Sessions, Own(s), Join(s)
    PROVE  Own(s)'
<1>t. s \in Tasks /\ s \in Entities /\ s # Kicker /\ Subject(s) = s
  BY Zenon, NamesAssumption DEF Tasks, Entities, Subject
<1>1. pc[s] \in JoinLabels /\ room[s] \in Rooms /\ todo[s] = None
  BY Zenon, <1>t, JoinLabel DEF Arguments
<1>2. \A q \in Rooms : Accounted(s, q) =>
          \/ q \in RoomsOf(s)
          \/ room[s] = q /\ pc[s] = <<"insert", "session_to_rooms">>
  BY SMTT(60), <1>1 DEF Accounted, Members, JoinLabels
<1>3. ASSUME JoinInsert(s, "room_to_sessions") PROVE Own(s)'
  <2> DEFINE x == room[s]
             S == Members(index["room_to_sessions"][x]) \cup {s}
  <2>1. /\ Key(s, "room_to_sessions") = x /\ Elem(s, "room_to_sessions") = s
    BY <1>t DEF Key, Elem
  <2>2. /\ index' = [index EXCEPT !["room_to_sessions"][x] = S]
        /\ pc[s] = <<"insert", "room_to_sessions">>
        /\ pc' = [pc EXCEPT ![s] = <<"insert", "session_to_rooms">>]
        /\ UNCHANGED <<room, todo>>
    BY Zenon, <1>3, <2>1 DEF JoinInsert, JoinContinues, Goto
  <2> HIDE DEF S
  <2>3. \A q \in Rooms \ {x} :
            index'["room_to_sessions"][q] = index["room_to_sessions"][q]
    BY <1>1, <2>2, NamesOfMaps, IndexAt
  <2>4. RoomsOf(s)' = RoomsOf(s)
    <3>1. index'["session_to_rooms"][s] = index["session_to_rooms"][s]
      BY SMTT(60), <1>1, <1>t, <2>2, NamesOfMaps, IndexAt
    <3> QED
      BY ZenonT(60), <3>1 DEF RoomsOf, In
  <2>5. pc'[s] = <<"insert", "session_to_rooms">>
    BY Zenon, <1>t, <2>2 DEF TypeOK
  <2>6. ASSUME NEW q \in Rooms, s \in SessionsIn(q)' PROVE Accounted(s, q)'
    <3>1. CASE q = x
      BY Zenon, <2>2, <2>5, <3>1 DEF Accounted
    <3>2. CASE q # x
      <4>1. s \in SessionsIn(q)
        BY Zenon, <2>3, <2>6, <3>2 DEF SessionsIn, In
      <4>2. q \in RoomsOf(s)
        BY <1>2, <2>2, <4>1 DEF Own
      <4> QED
        BY Zenon, <2>4, <4>2 DEF Accounted
    <3> QED
      BY <3>1, <3>2
  <2>7. ~OutOf(s)' /\ ~RoomsTaken(s)' /\ pc'[s] # <<"drop", "session_to_rooms">>
    BY <1>1, <2>2, <2>5, StartLabelsApart DEF OutOf, RoomsTaken
  <2> QED
    BY <2>6, <2>7 DEF Own
<1>4. ASSUME JoinInsert(s, "session_to_rooms") PROVE Own(s)'
  <2> DEFINE S == Members(index["session_to_rooms"][s]) \cup {room[s]}
  <2>1. Key(s, "session_to_rooms") = s /\ Elem(s, "session_to_rooms") = room[s]
    BY <1>t DEF Key, Elem
  <2>2. /\ index' = [index EXCEPT !["session_to_rooms"][s] = S]
        /\ pc[s] = <<"insert", "session_to_rooms">>
        /\ pc' = [pc EXCEPT ![s] = <<"add_ref">>]
        /\ UNCHANGED <<room, todo>>
    BY Zenon, <1>4, <2>1 DEF JoinInsert, JoinContinues, Goto
  <2>3. RoomsOf(s)' = RoomsOf(s) \cup {room[s]}
    <3>1. index'["session_to_rooms"][s] = S
      BY <1>t, <2>2, NamesOfMaps DEF TypeOK
    <3>2. S # None
      <4>1. S \in SUBSET Entities
        BY ZenonT(60), <1>t, <1>1, MembersType, NamesOfMaps
      <4> QED
        BY Zenon, <4>1, NoneAssumption
    <3> QED
      BY ZenonT(60), <3>1, <3>2 DEF RoomsOf, In, Members
  <2> HIDE DEF S
  <2>4. \A q \in Rooms : SessionsIn(q)' = SessionsIn(q)
    <3>1. \A q \in Rooms :
              index'["room_to_sessions"][q] = index["room_to_sessions"][q]
      BY <1>t, <2>2, NamesOfMaps, IndexAt
    <3> QED
      BY Zenon, <3>1 DEF SessionsIn, In
  <2>5. pc'[s] = <<"add_ref">>
    BY ZenonT(60), <1>t, <2>2 DEF TypeOK
  <2>6. ASSUME NEW q \in Rooms, s \in SessionsIn(q)' PROVE Accounted(s, q)'
    BY <1>2, <2>3, <2>4, <2>6 DEF Own, Accounted
  <2>7. ~OutOf(s)' /\ ~RoomsTaken(s)' /\ pc'[s] # <<"drop", "session_to_rooms">>
    BY Zenon, <1>1, <2>2, <2>5, StartLabelsApart DEF OutOf, RoomsTaken
  <2> QED
    BY <2>6, <2>7 DEF Own
<1>5. CASE ~\E m \in {"room_to_sessions", "session_to_rooms"} : JoinInsert(s, m)
  <2>1. pc[s] # <<"insert", "session_to_rooms">>
    <3>1. ASSUME NEW m \in Maps, JoinInsert(s, m)
          PROVE  pc[s] # <<"insert", "session_to_rooms">>
      <4>1. pc[s] = <<"insert", m>> /\ m # "session_to_rooms"
        BY Zenon, <1>5, <3>1 DEF JoinInsert
      <4> QED
        BY <4>1
    <3>2. CASE \/ JoinRoomCap(s) \/ JoinUserCap(s) \/ JoinIsNewRoom(s)
               \/ JoinCountRoom(s) \/ JoinAddRef(s)
      <4>1. pc[s] \in {<<"room_cap">>, <<"user_cap">>, <<"is_new_room">>,
                       <<"count_room">>, <<"add_ref">>}
        BY Zenon, <3>2 DEF JoinRoomCap, JoinUserCap, JoinIsNewRoom, JoinCountRoom,
           JoinAddRef
      <4> QED
        BY <4>1
    <3> QED
      BY Zenon, <3>1, <3>2 DEF Join
  <2>2. NotAdded(s)
    <3>1. ASSUME NEW m \in Maps \ {"room_to_sessions", "session_to_rooms"},
                 JoinInsert(s, m)
          PROVE  NotAdded(s)
      <4>1. pc[s] \in ({"insert", "remove", "is_empty", "drop"} \X {m})
        BY Zenon, <1>t, <3>1, SetUpdate
      <4>2. Key(s, m) \in Entities
        BY Zenon, <1>t, <3>1, <4>1, KeyType
      <4>3. \/ UNCHANGED index
            \/ \E S \in {None} \cup SUBSET Entities :
                  index' = [index EXCEPT ![m][Key(s, m)] = S]
        BY <1>t, <3>1, SetUpdate
      <4> QED
        BY <3>1, <4>2, <4>3, NotAddedElsewhere
    <3>2. CASE UNCHANGED index
      BY Zenon, <3>2, NotAddedElsewhere
    <3>3. \/ UNCHANGED index
          \/ \E m \in Maps \ {"room_to_sessions", "session_to_rooms"} :
                JoinInsert(s, m)
      BY Zenon, <1>5 DEF Join, JoinRoomCap, JoinUserCap, JoinIsNewRoom, JoinCountRoom,
         JoinAddRef, maps
    <3> QED
      BY Zenon, <3>1, <3>2, <3>3
  <2>3. ASSUME NEW l \in JoinLabels \cup {<<"idle">>}, NEW r,
               GoesTo(s, l, r, todo[s])
        PROVE  Own(s)'
    <3>1. Quiet(l) /\ l \notin {<<"next_room">>, <<"closed">>}
      BY DEF JoinLabels, Quiet
    <3>2. KeepsAccount(s, l, r, todo[s])
      BY <1>2, <2>1 DEF KeepsAccount
    <3> QED
      BY Zenon, <1>1, <2>2, <2>3, <3>1, <3>2, OwnFlow
  <2> QED
    BY Zenon, <1>t, <2>3, JoinGoes
<1> QED
  BY <1>3, <1>4, <1>5

\* The steps of leave on the two routing indices.
LEMMA OwnLeaveRoom ==
    ASSUME TypeOK, Arguments, NEW s \in Sessions, Own(s),
           \/ LeaveRemove(s, "room_to_sessions")
           \/ LeaveIsEmpty(s, "room_to_sessions")
           \/ LeaveDrop(s, "room_to_sessions")
    PROVE  Own(s)'
<1> DEFINE m == "room_to_sessions"
           x == room[s]
<1>t. s \in Tasks /\ s \in Entities /\ Subject(s) = s /\ m \in Maps
  BY NamesAssumption DEF Tasks, Entities, Subject, Maps
<1>1. Key(s, m) = x /\ Elem(s, m) = s
  BY <1>t DEF Key, Elem
<1>2. AfterRemove(m) = <<"remove", "session_to_rooms">>
  BY Zenon DEF AfterRemove
<1>3. /\ pc[s] \in {<<"remove", m>>, <<"is_empty", m>>, <<"drop", m>>}
      /\ UNCHANGED <<room, todo>>
      /\ pc'[s] \in {<<"is_empty", m>>, <<"drop", m>>,
                     <<"remove", "session_to_rooms">>}
  BY Zenon, <1>t, <1>2 DEF LeaveRemove, LeaveIsEmpty, LeaveDrop, Goto, TypeOK
<1>4. x \in Rooms /\ x \in Entities
  <2>1. pc[s] \in LeaveLabels
    BY SMTT(60), <1>3, <1>t DEF LeaveLabels
  <2> QED
    BY ZenonT(60), <1>t, <2>1, LeavesARoom, NamesOfMaps
<1>5. \/ UNCHANGED index /\ index[m][x] = None
      \/ UNCHANGED index /\ pc[s] = <<"is_empty", m>>
      \/ index' = [index EXCEPT ![m][x] = index[m][x] \ {s}]
            /\ index[m][x] # None
      \/ index' = [index EXCEPT ![m][x] = None]
  BY Zenon, <1>1 DEF LeaveRemove, LeaveIsEmpty, LeaveDrop, maps
<1>6. ASSUME NEW q \in Rooms \ {x} PROVE index'[m][q] = index[m][q]
  <2>1. CASE UNCHANGED index
    BY ZenonT(60), <2>1
  <2>2. ASSUME NEW S, index' = [index EXCEPT ![m][x] = S]
        PROVE  index'[m][q] = index[m][q]
    BY <1>4, <1>t, <2>2, NamesOfMaps, IndexAt
  <2> QED
    BY ZenonT(60), <1>5, <2>1, <2>2
<1>7. RoomsOf(s)' = RoomsOf(s)
  <2>1. index'["session_to_rooms"][s] = index["session_to_rooms"][s]
    BY SMTT(60), <1>4, <1>5, <1>t, NamesOfMaps DEF TypeOK
  <2> QED
    BY ZenonT(60), <2>1 DEF RoomsOf, In
<1>8. s \notin In(m, x)'
  <2>1. CASE UNCHANGED index /\ index[m][x] = None
    BY Zenon, <1>3, <2>1 DEF In, Members
  <2>2. CASE UNCHANGED index /\ pc[s] = <<"is_empty", m>>
    <3>1. s \notin SessionsIn(x)
      BY <2>2 DEF Own, OutOf
    <3> QED
      BY ZenonT(60), <1>3, <2>2, <3>1 DEF SessionsIn, In
  <2>3. CASE index' = [index EXCEPT ![m][x] = index[m][x] \ {s}]
               /\ index[m][x] # None
    <3>1. index'[m][x] = index[m][x] \ {s}
      BY ZenonT(60), <1>4, <1>t, <2>3 DEF TypeOK
    <3> QED
      BY Zenon, <1>3, <3>1 DEF In, Members
  <2>4. CASE index' = [index EXCEPT ![m][x] = None]
    <3>1. index'[m][x] = None
      BY ZenonT(60), <1>4, <1>t, <2>4 DEF TypeOK
    <3> QED
      BY Zenon, <1>3, <3>1 DEF In, Members
  <2> QED
    BY ZenonT(60), <1>5, <2>1, <2>2, <2>3, <2>4
<1>9. OutOf(s)' => s \notin SessionsIn(room[s])'
  BY ZenonT(60), <1>3, <1>8 DEF SessionsIn, In
<1>10. ASSUME NEW q \in Rooms, s \in SessionsIn(q)' PROVE Accounted(s, q)'
  <2>1. q # x
    BY Zenon, <1>3, <1>8, <1>10 DEF SessionsIn, In
  <2>2. s \in SessionsIn(q)
    BY Zenon, <1>6, <1>10, <2>1 DEF SessionsIn, In
  <2>3. q \in RoomsOf(s) \/ q \in Members(todo[s])
    BY ZenonT(60), <2>1, <2>2 DEF Own, Accounted
  <2> QED
    BY <1>3, <1>7, <2>3 DEF Accounted
<1>11. RoomsTaken(s)' => RoomsTaken(s)
  BY <1>3 DEF RoomsTaken
<1>12. pc'[s] # <<"drop", "session_to_rooms">>
  BY SMTT(60), <1>3
<1> HIDE DEF m, x
<1> QED
  BY Zenon, <1>7, <1>9, <1>10, <1>11, <1>12 DEF Own

LEMMA OwnLeaveRooms ==
    ASSUME TypeOK, Arguments, NEW s \in Sessions, Own(s),
           \/ LeaveRemove(s, "session_to_rooms")
           \/ LeaveIsEmpty(s, "session_to_rooms")
           \/ LeaveDrop(s, "session_to_rooms")
    PROVE  Own(s)'
<1> DEFINE m == "session_to_rooms"
<1>t. s \in Tasks /\ s \in Entities /\ Subject(s) = s /\ m \in Maps
  BY NamesAssumption DEF Tasks, Entities, Subject, Maps
<1>1. Key(s, m) = s /\ Elem(s, m) = room[s]
  BY <1>t DEF Key, Elem
<1>2. AfterRemove(m) = <<"drop_ref">>
  BY Zenon DEF AfterRemove
<1>3. /\ pc[s] \in {<<"remove", m>>, <<"is_empty", m>>, <<"drop", m>>}
      /\ UNCHANGED <<room, todo>>
      /\ pc'[s] \in {<<"is_empty", m>>, <<"drop", m>>, <<"drop_ref">>}
  BY ZenonT(60), <1>t, <1>2 DEF LeaveRemove, LeaveIsEmpty, LeaveDrop, Goto, TypeOK
<1>4. \/ UNCHANGED index /\ pc[s] # <<"drop", m>>
            /\ (pc'[s] = <<"drop", m>> => index[m][s] = {})
            /\ (pc[s] = <<"remove", m>> => index[m][s] = None)
      \/ index' = [index EXCEPT ![m][s] = index[m][s] \ {room[s]}]
            /\ index[m][s] # None /\ pc[s] = <<"remove", m>>
            /\ pc'[s] = <<"is_empty", m>>
      \/ index' = [index EXCEPT ![m][s] = None] /\ pc[s] = <<"drop", m>>
            /\ pc'[s] = <<"drop_ref">>
  <2>p. ASSUME NEW l, Goto(s, l) PROVE pc'[s] = l
    BY <2>p, <1>t DEF Goto, TypeOK
  <2>l. /\ <<"drop", m>> \notin {<<"remove", m>>, <<"is_empty", m>>, <<"drop_ref">>}
        /\ <<"remove", m>> # <<"is_empty", m>>
    BY ZenonT(60)
  <2>1. CASE LeaveRemove(s, m)
    <3>1. CASE index[m][s] = None
      <4>1. UNCHANGED index /\ pc[s] = <<"remove", m>> /\ Goto(s, <<"drop_ref">>)
        BY ZenonT(60), <1>1, <1>2, <2>1, <3>1 DEF LeaveRemove
      <4> QED
        BY ZenonT(60), <2>p, <2>l, <3>1, <4>1
    <3>2. CASE index[m][s] # None
      <4>1. /\ index' = [index EXCEPT ![m][s] = index[m][s] \ {room[s]}]
            /\ pc[s] = <<"remove", m>> /\ Goto(s, <<"is_empty", m>>)
        BY ZenonT(60), <1>1, <2>1, <3>2 DEF LeaveRemove
      <4> QED
        BY <2>p, <3>2, <4>1
    <3> QED
      BY <3>1, <3>2
  <2>2. CASE LeaveIsEmpty(s, m)
    <3>1. /\ UNCHANGED index /\ pc[s] = <<"is_empty", m>>
          /\ IF index[m][s] = {} THEN Goto(s, <<"drop", m>>) ELSE Goto(s, <<"drop_ref">>)
      BY ZenonT(60), <1>1, <1>2, <2>2 DEF LeaveIsEmpty, maps
    <3> QED
      BY <2>p, <2>l, <3>1
  <2>3. CASE LeaveDrop(s, m)
    <3>1. /\ index' = [index EXCEPT ![m][s] = None] /\ pc[s] = <<"drop", m>>
          /\ Goto(s, <<"drop_ref">>)
      BY ZenonT(60), <1>1, <1>2, <2>3 DEF LeaveDrop
    <3> QED
      BY <2>p, <3>1
  <2> QED
    BY ZenonT(60), <2>1, <2>2, <2>3
<1>5. \A q \in Rooms : SessionsIn(q)' = SessionsIn(q)
  <2>1. \A q \in Rooms :
            index'["room_to_sessions"][q] = index["room_to_sessions"][q]
    BY ZenonT(60), <1>4, <1>t, NamesOfMaps DEF TypeOK
  <2> QED
    BY Zenon, <2>1 DEF SessionsIn, In
<1>6. RoomsOf(s)' \subseteq RoomsOf(s)
      /\ RoomsOf(s) \ {room[s]} \subseteq RoomsOf(s)'
  <2>1. CASE UNCHANGED index
    BY Zenon, <2>1 DEF RoomsOf, In
  <2>2. CASE index' = [index EXCEPT ![m][s] = index[m][s] \ {room[s]}]
               /\ index[m][s] # None
    <3>1. index'[m][s] = index[m][s] \ {room[s]}
      BY ZenonT(60), <1>t, <2>2 DEF TypeOK
    <3>2. index[m][s] \ {room[s]} \in SUBSET Entities
      BY <1>t, <2>2 DEF TypeOK
    <3>3. index'[m][s] # None
      BY ZenonT(60), <3>1, <3>2, NoneAssumption
    <3> QED
      BY ZenonT(60), <2>2, <3>1, <3>3 DEF RoomsOf, In, Members
  <2>3. CASE index' = [index EXCEPT ![m][s] = None] /\ pc[s] = <<"drop", m>>
    <3>1. RoomsOf(s) = {}
      BY <2>3 DEF Own
    <3>2. index'[m][s] = None
      BY ZenonT(60), <1>t, <2>3 DEF TypeOK
    <3> QED
      BY Zenon, <3>1, <3>2 DEF RoomsOf, In, Members
  <2> QED
    BY Zenon, <1>4, <2>1, <2>2, <2>3
<1>7. pc[s] = <<"remove", m>> => s \notin SessionsIn(room[s])
  BY DEF Own, OutOf
<1>8. pc[s] # <<"remove", m>> => RoomsOf(s)' = RoomsOf(s)
  <2>1. CASE UNCHANGED index
    BY Zenon, <2>1 DEF RoomsOf, In
  <2>2. CASE pc[s] = <<"drop", m>>
    <3>1. RoomsOf(s) = {}
      BY ZenonT(60), <2>2 DEF Own
    <3> QED
      BY <1>6, <3>1
  <2> QED
    BY Zenon, <1>4, <2>1, <2>2
<1>9. ASSUME NEW q \in Rooms, s \in SessionsIn(q)' PROVE Accounted(s, q)'
  <2>1. s \in SessionsIn(q)
    BY Zenon, <1>5, <1>9
  <2>2. q \in RoomsOf(s) \/ q \in Members(todo[s])
    <3>1. pc[s] \notin {<<"insert", "session_to_rooms">>,
                        <<"remove", "room_to_sessions">>}
      BY <1>3
    <3> QED
      BY ZenonT(60), <2>1, <3>1 DEF Own, Accounted
  <2>3. q \in RoomsOf(s) => q \in RoomsOf(s)'
    BY Zenon, <1>6, <1>7, <1>8, <2>1
  <2> QED
    BY <1>3, <2>2, <2>3 DEF Accounted
<1>10. pc'[s] = <<"drop", m>> => RoomsOf(s)' = {}
  <2> SUFFICES ASSUME pc'[s] = <<"drop", m>> PROVE RoomsOf(s)' = {}
    BY Zenon
  <2>1. UNCHANGED index /\ index[m][s] = {}
    BY SMTT(60), <1>4
  <2> QED
    BY ZenonT(60), <2>1 DEF RoomsOf, In, Members
<1>11. RoomsTaken(s)' => RoomsOf(s)' = {}
  <2>1. RoomsTaken(s)' => RoomsTaken(s)
    BY SMTT(60), <1>3 DEF RoomsTaken
  <2> QED
    BY ZenonT(60), <1>6, <2>1 DEF Own
<1>12. ~OutOf(s)'
  BY <1>3 DEF OutOf
<1> QED
  BY Zenon, <1>9, <1>10, <1>11, <1>12 DEF Own

LEMMA OwnLeave ==
    ASSUME TypeOK, Arguments, NEW s \in Sessions, Own(s), Leave(s)
    PROVE  Own(s)'
<1>t. s \in Tasks
  BY DEF Tasks
<1> DEFINE Routing == {"room_to_sessions", "session_to_rooms"}
           Steps(m) == LeaveRemove(s, m) \/ LeaveIsEmpty(s, m) \/ LeaveDrop(s, m)
<1>1. CASE \E m \in Routing : Steps(m)
  BY ZenonT(60), <1>1, OwnLeaveRoom, OwnLeaveRooms
<1>2. CASE ~\E m \in Routing : Steps(m)
  <2>1. NotAdded(s)
    <3>1. ASSUME NEW m \in Maps \ Routing, LeaveRemove(s, m) \/ LeaveDrop(s, m)
          PROVE  NotAdded(s)
      <4>1. pc[s] \in ({"insert", "remove", "is_empty", "drop"} \X {m})
        BY ZenonT(60), <1>t, <3>1, SetUpdate
      <4>2. Key(s, m) \in Entities
        BY <1>t, <4>1, KeyType
      <4>3. \/ UNCHANGED index
            \/ \E S \in {None} \cup SUBSET Entities :
                  index' = [index EXCEPT ![m][Key(s, m)] = S]
        BY ZenonT(60), <1>t, <3>1, SetUpdate
      <4> QED
        BY <4>2, <4>3, NotAddedElsewhere
    <3>2. CASE UNCHANGED index
      BY Zenon, <3>2, NotAddedElsewhere
    <3> QED
      BY ZenonT(60), <1>2, <3>1, <3>2 DEF Leave, LeaveIsEmpty, LeaveDropRef, LeaveRemoveRef,
         LeaveUncountRoom, maps
  <2>2. pc[s] \notin {<<"insert", "session_to_rooms">>,
                      <<"remove", "room_to_sessions">>}
    <3>1. ASSUME NEW m \in Maps, Steps(m)
          PROVE  pc[s] \notin {<<"insert", "session_to_rooms">>,
                               <<"remove", "room_to_sessions">>}
      <4>1. /\ \E l \in {"remove", "is_empty", "drop"} : pc[s] = <<l, m>>
            /\ m # "room_to_sessions"
        BY ZenonT(60), <1>2, <3>1 DEF LeaveRemove, LeaveIsEmpty, LeaveDrop
      <4> QED
        BY SMTT(60), <4>1
    <3>2. CASE LeaveDropRef(s) \/ LeaveRemoveRef(s) \/ LeaveUncountRoom(s)
      <4>1. pc[s] \in {<<"drop_ref">>, <<"remove_ref">>, <<"uncount_room">>}
        BY Zenon, <3>2 DEF LeaveDropRef, LeaveRemoveRef, LeaveUncountRoom
      <4> QED
        BY <4>1, RefLabelsApart
    <3> QED
      BY Zenon, <3>1, <3>2 DEF Leave
  <2>3. \A q \in Rooms : Accounted(s, q) =>
            q \in RoomsOf(s) \/ q \in Members(todo[s])
    BY ZenonT(60), <2>2 DEF Accounted
  <2>4. ASSUME NEW l, NEW r, GoesTo(s, l, r, todo[s]), Quiet(l),
               l \in {<<"next_room">>, <<"closed">>} => todo[s] # None
        PROVE  Own(s)'
    <3>1. KeepsAccount(s, l, r, todo[s])
      BY Zenon, <2>3 DEF KeepsAccount
    <3> QED
      BY Zenon, <2>1, <2>4, <3>1, OwnFlow DEF RoomsTaken
  <2>5. \A l : pc'[s] = l => Quiet(l)
    <3>1. ASSUME NEW m \in Maps \ Routing, Steps(m) PROVE Quiet(pc'[s])
      <4>1. pc'[s] \in {<<"is_empty", m>>, <<"drop", m>>, AfterRemove(m)}
        BY <1>t, <3>1 DEF LeaveRemove, LeaveIsEmpty, LeaveDrop, Goto, TypeOK
      <4>2. AfterRemove(m) \in {<<"remove", "room_to_users">>, <<"uncount_room">>}
        BY ZenonT(60) DEF AfterRemove, Maps
      <4> QED
        BY SMTT(60), <4>1, <4>2 DEF Quiet
    <3>2. CASE LeaveDropRef(s) \/ LeaveRemoveRef(s) \/ LeaveUncountRoom(s)
      <4>1. pc'[s] \in {<<"remove_ref">>, <<"uncount_room">>, <<"idle">>,
                        <<"next_room">>, <<"remove", "user_to_rooms">>}
        BY <1>t, <3>2 DEF LeaveDropRef, LeaveRemoveRef, LeaveUncountRoom, Goto,
           TypeOK
      <4> QED
        BY SMTT(60), <4>1 DEF Quiet
    <3> QED
      BY Zenon, <1>2, <3>1, <3>2 DEF Leave
  <2>6. ASSUME NEW l, NEW r, GoesTo(s, l, r, todo[s]) PROVE Quiet(l)
    BY ZenonT(60), <1>t, <2>5, <2>6 DEF GoesTo, TypeOK
  <2>7. CASE \E l \in LeaveLabels : GoesTo(s, l, room[s], todo[s])
    BY Zenon, <2>4, <2>6, <2>7, LabelsApart
  <2>8. CASE GoesTo(s, IF todo[s] = None THEN <<"idle">> ELSE <<"next_room">>,
                    None, todo[s])
    <3>1. CASE todo[s] = None
      BY ZenonT(60), <2>4, <2>6, <2>8, <3>1, LabelsApart
    <3>2. CASE todo[s] # None
      BY Zenon, <2>4, <2>6, <2>8, <3>2
    <3> QED
      BY Zenon, <3>1, <3>2
  <2> QED
    BY <1>t, <2>7, <2>8, LeaveGoes
<1> QED
  BY <1>1, <1>2

\* The steps of cleanup_session.
LEMMA OwnCleanup ==
    ASSUME TypeOK, Arguments, NEW s \in Sessions, Own(s), Cleanup(s)
    PROVE  Own(s)'
<1>t. s \in Tasks /\ s \in Entities /\ Subject(s) = s /\ s # Kicker
  BY Zenon, NamesAssumption DEF Tasks, Entities, Subject
<1>1. CASE CleanupTakeRooms(s)
  <2>1. /\ pc[s] = <<"take_rooms">> /\ pc'[s] = <<"next_room">>
        /\ todo'[s] = RoomsOf(s)
        /\ index' = [index EXCEPT !["session_to_rooms"][s] = None]
    BY <1>1, <1>t DEF CleanupTakeRooms, Goto, TypeOK, RoomsOf
  <2>2. todo[s] = None
    BY ZenonT(60), <1>t, <2>1 DEF Arguments
  <2>3. RoomsOf(s)' = {}
    <3>1. index'["session_to_rooms"][s] = None
      BY ZenonT(60), <1>t, <2>1, NamesOfMaps DEF TypeOK
    <3> QED
      BY <3>1 DEF RoomsOf, In, Members
  <2>4. \A q \in Rooms : SessionsIn(q)' = SessionsIn(q)
    <3>1. \A q \in Rooms :
              index'["room_to_sessions"][q] = index["room_to_sessions"][q]
      BY ZenonT(60), <1>t, <2>1, NamesOfMaps DEF TypeOK
    <3> QED
      BY <3>1 DEF SessionsIn, In
  <2>5. RoomsOf(s) # None
    BY Zenon, NoneAssumption DEF Arguments, Entities
  <2>6. ASSUME NEW q \in Rooms, s \in SessionsIn(q)' PROVE Accounted(s, q)'
    <3>1. q \in RoomsOf(s)
      BY SMTT(60), <2>1, <2>2, <2>4, <2>6 DEF Own, Accounted, Members
    <3> QED
      BY Zenon, <2>1, <2>5, <3>1 DEF Accounted, Members
  <2>7. ~OutOf(s)' /\ pc'[s] # <<"drop", "session_to_rooms">>
    BY SMTT(60), <2>1 DEF OutOf
  <2> QED
    BY ZenonT(60), <2>3, <2>6, <2>7 DEF Own
<1>2. CASE CleanupNextRoom(s) \/ CleanupReturns(s)
  <2>1. NotAdded(s) /\ pc[s] = <<"next_room">>
    BY <1>2, NotAddedElsewhere DEF CleanupNextRoom, CleanupReturns, maps
  <2>2. RoomsTaken(s)
    BY Zenon, <2>1 DEF RoomsTaken
  <2>3. \A q \in Rooms : Accounted(s, q) =>
            q \in RoomsOf(s) \/ q \in Members(todo[s])
    BY SMTT(60), <2>1 DEF Accounted
  <2>4. CASE \E r \in todo[s], T \in SUBSET Rooms :
               /\ T = todo[s] \ {r} /\ r \in Rooms
               /\ GoesTo(s, <<"remove", "room_to_sessions">>, r, T)
    <3> DEFINE l == <<"remove", "room_to_sessions">>
    <3>1. PICK r \in todo[s], T \in SUBSET Rooms :
            T = todo[s] \ {r} /\ GoesTo(s, l, r, T)
      BY Zenon, <2>4
    <3>2. T # None /\ todo[s] # None
      BY Zenon, <1>t, <2>1, NoneAssumption DEF Entities, Arguments
    <3>3. KeepsAccount(s, l, r, T)
      BY Zenon, <2>3, <3>1, <3>2 DEF Members, KeepsAccount
    <3>4. Quiet(l)
      BY DEF Quiet
    <3> HIDE DEF l
    <3>5. NotAdded(s) /\ RoomsTaken(s) /\ GoesTo(s, l, r, T)
      BY ZenonT(60), <2>1, <2>2, <3>1
    <3> QED
      BY Zenon, <3>3, <3>4, <3>5, OwnFlow
  <2>5. CASE todo[s] = {} /\ GoesTo(s, <<"closed">>, room[s], None)
    <3>1. KeepsAccount(s, <<"closed">>, room[s], None)
      BY <2>3, <2>5 DEF Members, KeepsAccount
    <3>2. Quiet(<<"closed">>)
      BY ZenonT(60) DEF Quiet
    <3> QED
      BY ZenonT(60), <2>1, <2>2, <2>5, <3>1, <3>2, OwnFlow
  <2> QED
    BY ZenonT(60), <1>2, <1>t, <2>1, <2>4, <2>5, CleanupGoes, LabelsApart DEF Cleanup
<1> QED
  BY <1>1, <1>2 DEF Cleanup

\* The beginning of a call.
LEMMA OwnBegin ==
    ASSUME TypeOK, Arguments, NEW s \in Sessions, Own(s), NEW c \in Sessions,
           \/ \E r \in Rooms : BeginJoin(c, r)
           \/ BeginLeave(c) \/ BeginCleanup(c) \/ BeginKick(c)
    PROVE  Own(s)'
<1>t. s \in Tasks /\ c \in Tasks /\ Kicker \in Tasks /\ s # Kicker
  BY Zenon, NamesAssumption DEF Tasks
<1>1. NotAdded(s) /\ UNCHANGED todo
  BY Zenon, NotAddedElsewhere DEF BeginJoin, BeginLeave, BeginCleanup, BeginKick, maps
<1>2. CASE pc'[s] = pc[s] /\ room'[s] = room[s]
  <2>1. OutOf(s) => room[s] \in Rooms
    BY OutOfARoom
  <2> QED
    BY Zenon, <1>1, <1>2, <2>1, OwnKept
<1>3. CASE ~(pc'[s] = pc[s] /\ room'[s] = room[s])
  <2>1. /\ c = s /\ pc[s] = <<"idle">>
        /\ pc'[s] \in {<<"room_cap">>, <<"remove", "room_to_sessions">>,
                       <<"take_rooms">>}
    BY ZenonT(60), <1>3, <1>t DEF BeginJoin, BeginLeave, BeginCleanup, BeginKick, MayCall,
       Goto, TypeOK
  <2>2. todo[s] = None
    BY Zenon, <1>t, <2>1 DEF Arguments
  <2>3. ASSUME NEW q \in Rooms, s \in SessionsIn(q)' PROVE Accounted(s, q)'
    <3>1. Accounted(s, q) /\ RoomsOf(s)' = RoomsOf(s)
      BY Zenon, <1>1, <2>3 DEF Own, NotAdded
    <3>2. pc[s] \notin {<<"insert", "session_to_rooms">>,
                        <<"remove", "room_to_sessions">>}
      <4>1. <<"idle">> \notin {<<"insert", "session_to_rooms">>,
                               <<"remove", "room_to_sessions">>}
        BY Zenon
      <4> QED
        BY <2>1, <4>1
    <3>3. q \in RoomsOf(s)
      BY ZenonT(60), <2>2, <3>1, <3>2 DEF Accounted, Members
    <3> QED
      BY Zenon, <3>1, <3>3 DEF Accounted
  <2>4. ~OutOf(s)' /\ ~RoomsTaken(s)' /\ pc'[s] # <<"drop", "session_to_rooms">>
    BY Zenon, <1>1, <2>1, <2>2, StartLabelsApart DEF OutOf, RoomsTaken
  <2> QED
    BY ZenonT(60), <2>3, <2>4 DEF Own
<1> QED
  BY <1>2, <1>3

-----------------------------------------------------------------------------
LEMMA PInvInit == Init => PInv
<1> SUFFICES ASSUME Init PROVE PInv
  OBVIOUS
<1>1. TypeOK /\ Arguments
  BY ZenonT(60), TypeInit, ArgumentsInit
<1>2. ASSUME NEW s \in Sessions PROVE Own(s)
  <2>1. \A r \in Rooms : SessionsIn(r) = {}
    BY NamesOfMaps DEF Init, SessionsIn, In, Members
  <2>2. pc[s] = <<"idle">> /\ todo[s] = None
    BY Zenon DEF Init, Tasks
  <2>3. ~OutOf(s) /\ ~RoomsTaken(s) /\ pc[s] # <<"drop", "session_to_rooms">>
    BY Zenon, <2>2, StartLabelsApart DEF OutOf, RoomsTaken
  <2> QED
    BY Zenon, <2>1, <2>3 DEF Own
<1> QED
  BY <1>1, <1>2 DEF PInv, OwnCalls

LEMMA PInvNext == PInv /\ [Next]_vars => PInv'
<1> SUFFICES ASSUME PInv, [Next]_vars PROVE PInv'
  OBVIOUS
<1>t. TypeOK /\ Arguments
  BY Zenon DEF PInv
<1>1. ASSUME NEW t \in Tasks, CallStep(t) PROVE PInv'
  <2>1. TypeOK'
    BY <1>1, <1>t, JoinType, LeaveType, CleanupType DEF CallStep
  <2>2. Arguments'
    BY ZenonT(60), <1>1, <1>t, ArgumentsCall
  <2>3. evicted' = evicted
    BY Zenon, <1>1, <1>t, JoinGoes, LeaveGoes, CleanupGoes DEF CallStep
  <2>4. ASSUME NEW s \in Sessions \ evicted PROVE Own(s)'
    <3>1. Own(s)
      BY DEF PInv, OwnCalls
    <3>2. CASE t = s
      BY ZenonT(60), <1>1, <1>t, <3>1, <3>2, OwnJoin, OwnLeave, OwnCleanup DEF CallStep
    <3>3. CASE t # s
      <4>1. NotAdded(s)
        BY Zenon, <1>1, <1>t, <3>3, OthersStep
      <4>2. \E l, r, T : GoesTo(t, l, r, T)
        BY ZenonT(60), <1>1, <1>t, JoinGoes, LeaveGoes, CleanupGoes DEF CallStep
      <4>3. pc'[s] = pc[s] /\ room'[s] = room[s] /\ todo'[s] = todo[s]
        BY ZenonT(60), <1>t, <3>3, <4>2 DEF GoesTo, TypeOK, Tasks
      <4>4. OutOf(s) => room[s] \in Rooms
        BY Zenon, <1>t, OutOfARoom
      <4> QED
        BY <3>1, <4>1, <4>3, <4>4, OwnKept
    <3> QED
      BY <3>2, <3>3
  <2> QED
    BY Zenon, <2>1, <2>2, <2>3, <2>4 DEF PInv, OwnCalls
<1>2. ASSUME NEW c \in Sessions,
             \/ \E r \in Rooms : BeginJoin(c, r)
             \/ BeginLeave(c) \/ BeginCleanup(c) \/ BeginKick(c)
      PROVE  PInv'
  <2>1. TypeOK'
    BY <1>2, <1>t, BeginType
  <2>2. Arguments'
    BY Zenon, <1>2, <1>t, ArgumentsBegin
  <2>3. evicted \subseteq evicted'
    BY ZenonT(60), <1>2 DEF BeginJoin, BeginLeave, BeginCleanup, BeginKick
  <2>4. ASSUME NEW s \in Sessions \ evicted PROVE Own(s)'
    BY Zenon, <1>2, <1>t, OwnBegin DEF PInv, OwnCalls
  <2> QED
    BY Zenon, <2>1, <2>2, <2>3, <2>4 DEF PInv, OwnCalls
<1>3. CASE UNCHANGED vars
  <2>1. TypeOK'
    BY <1>3, <1>t DEF vars, maps, TypeOK
  <2>2. Arguments'
    BY ZenonT(60), <1>3, <1>t DEF vars, maps, Arguments, RoomsOf, In
  <2>3. ASSUME NEW s \in Sessions \ evicted PROVE Own(s)'
    <3>1. NotAdded(s)
      BY Zenon, <1>3, <1>t, NotAddedElsewhere DEF vars, maps
    <3>2. OutOf(s) => room[s] \in Rooms
      BY Zenon, <1>t, OutOfARoom
    <3>3. Own(s)
      BY Zenon DEF PInv, OwnCalls
    <3>4. pc'[s] = pc[s] /\ room'[s] = room[s] /\ todo'[s] = todo[s]
      BY <1>3 DEF vars
    <3> QED
      BY Zenon, <3>1, <3>2, <3>3, <3>4, OwnKept
  <2> QED
    BY SMTT(60), <1>3, <2>1, <2>2, <2>3 DEF vars, PInv, OwnCalls
<1> QED
  BY <1>1, <1>2, <1>3 DEF Next

LEMMA Invariance == Spec => []PInv
BY PInvInit, PInvNext, PTL DEF Spec

\* Every variable of presence and of its calls keeps its type, for every number
\* of overlapping calls.
THEOREM TypeCorrect == Spec => []TypeOK
<1>1. PInv => TypeOK
  BY Zenon DEF PInv
<1> QED
  BY <1>1, Invariance, PTL

\* However joins, leaves, clean-ups and evictions of other sessions overlap, a
\* room never keeps a session that has left it.
THEOREM LeftMeansLeft == Spec => []NoStrayMember
<1>1. PInv => NoStrayMember
  BY Zenon DEF PInv, OwnCalls, Own, Accounted, NoStrayMember
<1> QED
  BY <1>1, Invariance, PTL

\* However the calls overlap, nothing of a session is left in the routing
\* indices once its clean-up has returned.
THEOREM CleanupIsComplete == Spec => []ClosedIsGone
<1>1. PInv => ClosedIsGone
  <2> SUFFICES ASSUME PInv, NEW s \in Sessions \ evicted, pc[s] = <<"closed">>
               PROVE  RoomsOf(s) = {} /\ \A r \in Rooms : s \notin SessionsIn(r)
    BY ZenonT(60) DEF ClosedIsGone
  <2>1. Own(s) /\ RoomsOf(s) = {} /\ todo[s] = None
    BY Zenon DEF PInv, OwnCalls, Own, RoomsTaken, Arguments, Tasks
  <2>2. \A r \in Rooms : ~Accounted(s, r)
    BY <2>1 DEF Accounted, Members
  <2> QED
    BY Zenon, <2>1, <2>2 DEF Own
<1> QED
  BY <1>1, Invariance, PTL
=============================================================================
