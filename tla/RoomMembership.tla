--------------------------- MODULE RoomMembership ---------------------------
(***************************************************************************)
(* What presence promises to the sessions of a tenant when its calls come  *)
(* one after the other: which session is in which room.  A room comes to   *)
(* be with the first session that joins it, if the tenant may have one     *)
(* more room, and a session that has gone is in no room and joins none.    *)
(***************************************************************************)
EXTENDS Integers, FiniteSets

CONSTANTS
    Sessions,
    Rooms,
    MaxRooms  \* rooms of the tenant, 0 = unlimited

VARIABLES
    members,  \* pairs of a session and a room it is in
    gone      \* sessions that have been cleaned up

Occupied == {r \in Rooms : \E s \in Sessions : <<s, r>> \in members}

Init == members = {} /\ gone = {}

Join(s, r) ==
    /\ s \notin gone
    /\ r \in Occupied \/ MaxRooms = 0 \/ Cardinality(Occupied) < MaxRooms
    /\ members' = members \cup {<<s, r>>}
    /\ UNCHANGED gone

Leave(s, r) == members' = members \ {<<s, r>>} /\ UNCHANGED gone

Go(s) ==
    /\ \A r \in Rooms : <<s, r>> \notin members
    /\ gone' = gone \cup {s}
    /\ UNCHANGED members

Next == \E s \in Sessions : Go(s) \/ \E r \in Rooms : Join(s, r) \/ Leave(s, r)

Spec == Init /\ [][Next]_<<members, gone>>
=============================================================================
