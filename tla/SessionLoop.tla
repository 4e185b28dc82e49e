---------------------------- MODULE SessionLoop ----------------------------
(***************************************************************************)
(* The connections of one user, from the upgrade request to the end of the *)
(* session loop (transport/ws.rs), with what they send to each other       *)
(* through the realtime core (realtime/core/realtime.rs) and the built-in  *)
(* services, and the start of draining (main.rs).                          *)
(*                                                                         *)
(* Each session has a bounded queue of outgoing messages.  Its own task is *)
(* the only one that takes messages out; the task itself, other sessions,  *)
(* the eviction by a newer session and draining put messages in.  A call   *)
(* of the registry or of presence is one step here (SessionRegistry and    *)
(* Presence have their interleavings); every .await is a place where the   *)
(* task can be left waiting.  All sessions use one room; what policy,      *)
(* limits and services decide about a message is left open.                *)
(***************************************************************************)
EXTENDS Integers, Sequences, Functions

CONSTANTS
    Sessions,     \* connections, each with a session id of its own
    Settings      \* the settings that the gateway may run with

\* The capacity of a queue (1024 in the code), session_policy, whether
\* hot_error_mode is sys_error, and hot_requires_active_room.
ASSUME SettingsAssumption ==
    Settings \subseteq [capacity : Nat \ {0}, max_per_user : Nat \ {0},
                        on_exceed : {"Deny", "KickOldest"},
                        hot_sys_error : BOOLEAN, needs_room : BOOLEAN]

VARIABLES
    pc,           \* where the task of each connection is
    out,          \* the queue of each session
    held,         \* the message being queued ("sending") or written
    ends,         \* "sending": the loop is left once the message is queued
    recips,       \* "publishing": sessions whose send is not done yet
    active_room,  \* sessions whose SessionState has an active room
    quiet,        \* sessions whose last_activity is idle_timeout ago
    in_room,      \* presence: the sessions in the room
    registered,   \* the registry: registered sessions, oldest first
    wire,         \* whether sys.authed and Close have been written
    draining,     \* "no", "yes", "told": best_effort_shutdown_all has run
    settings      \* what the gateway has been started with

task == <<pc, held, ends, recips>>
state == <<active_room, quiet>>
core == <<in_room, registered>>
vars == <<task, state, core, out, wire, draining, settings>>

\* sys.authed; sys.kicked and the Close frame; any other: a ping, what the task
\* answers, what comes from the room.
Msgs == {"authed", "kicked", "close", "other"}

Capacity == settings.capacity
Started(s) == pc[s] \notin {"new", "upgraded", "ended"}
Registered == Range(registered)

Init ==
    /\ pc = [s \in Sessions |-> "new"]
    /\ out = [s \in Sessions |-> <<>>]
    /\ held = [s \in Sessions |-> "none"]
    /\ ends = {} /\ active_room = {} /\ quiet = {} /\ in_room = {}
    /\ recips = [s \in Sessions |-> {}]
    /\ registered = <<>>
    /\ wire = [s \in Sessions |-> {}]
    /\ draining = "no"
    /\ settings \in Settings

Goto(s, l) == pc' = [pc EXCEPT ![s] = l]

\* Mutant: the queue is unbounded.
OfferUnbounded(q, m) == Append(q, m)

\* Sender::try_send
Offer(q, m) == IF Len(q) < Capacity THEN Append(q, m) ELSE q
OfferTo(S, m) == [s \in Sessions |-> IF s \in S THEN Offer(out[s], m) ELSE out[s]]

\* out_tx.send(m).await, then the next round or the end of the loop.
Send(s, m, end) ==
    /\ Goto(s, "sending")
    /\ held' = [held EXCEPT ![s] = m]
    /\ ends' = IF end THEN ends \cup {s} ELSE ends

\* The registered sessions q without s: a session is registered once.
Without(q, s) ==
    IF s \in Range(q)
    THEN LET i == CHOOSE i \in DOMAIN q : q[i] = s
         IN  SubSeq(q, 1, i - 1) \o SubSeq(q, i + 1, Len(q))
    ELSE q

\* The loop is left: what run_session owns is dropped, the socket, the queue with
\* what is in it, and SessionCleanup, which removes the registry and presence
\* entries.
Break(s) ==
    /\ Goto(s, "ended")
    /\ held' = [held EXCEPT ![s] = "none"]
    /\ ends' = ends \ {s}
    /\ active_room' = active_room \ {s} /\ quiet' = quiet \ {s}
    /\ out' = [out EXCEPT ![s] = <<>>]
    /\ wire' = [wire EXCEPT ![s] = {}]
    /\ in_room' = in_room \ {s}
    /\ registered' = Without(registered, s)

-----------------------------------------------------------------------------
(* ws_upgrade, and run_session up to the message sys.authed.               *)

\* Mutant: the upgrade does not look at the draining flag.
UpgradeAlways(s) ==
    /\ pc[s] = "new"
    /\ Goto(s, "ended") \/ Goto(s, "upgraded")
    /\ UNCHANGED <<held, ends, recips, state, core, out, wire, draining, settings>>

\* Other reasons to refuse, left open here: the handshake limit, the tenant's
\* capacity, which other users' sessions count against, and the tenant's name.
Upgrade(s) ==
    /\ pc[s] = "new"
    /\ \/ Goto(s, "ended")
       \/ draining = "no" /\ Goto(s, "upgraded")
    /\ UNCHANGED <<held, ends, recips, state, core, out, wire, draining, settings>>

OverLimit == Len(registered) >= settings.max_per_user

\* The ticket is not resolved, or there are too many sessions and on_exceed is
\* deny: the error that is queued then is dropped with the queue.
Refuse(s) ==
    /\ pc[s] = "upgraded"
    /\ Goto(s, "ended")
    /\ UNCHANGED <<held, ends, recips, state, core, out, wire, draining, settings>>

\* try_insert, which the tenant's capacity may refuse, then send(authed).
Insert(s, others) ==
    \/ /\ registered' = Append(others, s)
       /\ Send(s, "authed", FALSE)
    \/ registered' = others /\ Goto(s, "ended") /\ UNCHANGED <<held, ends>>

Admit(s) ==
    /\ pc[s] = "upgraded" /\ ~OverLimit
    /\ Insert(s, registered)
    /\ UNCHANGED <<recips, state, in_room, out, wire, draining, settings>>

\* evict_oldest, two messages to the victim, clean-up of its presence.
AdmitKicking(s) ==
    LET v == Head(registered) IN
    /\ pc[s] = "upgraded" /\ OverLimit /\ settings.on_exceed = "KickOldest"
    /\ Insert(s, Tail(registered))
    /\ out' = [out EXCEPT ![v] = Offer(Offer(@, "kicked"), "close")]
    /\ in_room' = in_room \ {v}
    /\ UNCHANGED <<recips, state, wire, draining, settings>>

-----------------------------------------------------------------------------
(* The session loop: the arms of select!.                                  *)

\* A send that completes; it waits while the queue is full.
SendCompletes(s) ==
    /\ pc[s] = "sending" /\ Len(out[s]) < Capacity
    /\ \/ s \in ends /\ Break(s)
       \/ /\ s \notin ends
          /\ out' = [out EXCEPT ![s] = Append(@, held[s])]
          /\ held' = [held EXCEPT ![s] = "none"]
          /\ Goto(s, "select")
          /\ UNCHANGED <<ends, state, core, wire>>
    /\ UNCHANGED <<recips, draining, settings>>

RecvOut(s) ==
    /\ pc[s] = "select" /\ out[s] # <<>>
    /\ held' = [held EXCEPT ![s] = Head(out[s])]
    /\ out' = [out EXCEPT ![s] = Tail(@)]
    /\ Goto(s, "writing")
    /\ UNCHANGED <<ends, recips, state, core, wire, draining, settings>>

\* ws_tx.send: it succeeds, or fails (as it does after a Close frame), which is
\* ignored, or takes longer than writer_timeout.
Write(s) ==
    /\ pc[s] = "writing"
    /\ \/ /\ wire' = IF "close" \in wire[s] THEN wire
                     ELSE [wire EXCEPT ![s] = @ \cup ({held[s]} \cap {"authed", "close"})]
          /\ held' = [held EXCEPT ![s] = "none"]
          /\ Goto(s, "select")
          /\ UNCHANGED <<ends, state, core, out>>
       \/ Break(s)
    /\ UNCHANGED <<recips, draining, settings>>

PingTick(s) ==
    /\ pc[s] = "select"
    /\ Send(s, "other", FALSE)
    /\ UNCHANGED <<recips, state, core, out, wire, draining, settings>>

IdleTick(s) ==
    /\ pc[s] = "select" /\ s \in quiet
    /\ Send(s, "other", TRUE)
    /\ UNCHANGED <<recips, state, core, out, wire, draining, settings>>

\* A message of the client has been read.
Receive(s) ==
    /\ pc[s] = "select"
    /\ quiet' = quiet \ {s}
    /\ UNCHANGED <<wire, draining, settings>>

\* A pong, or a message that a limiter or the policy drops.
ReceiveIgnored(s) ==
    Receive(s) /\ UNCHANGED <<task, active_room, core, out>>

\* A ping, or a message that is rejected or that no service handles.
ReceiveAnswered(s) ==
    /\ Receive(s)
    /\ Send(s, "other", FALSE)
    /\ UNCHANGED <<recips, active_room, core, out>>

\* A message that cannot be decoded, or that the policy closes on.
ReceiveFatal(s) ==
    /\ Receive(s)
    /\ Send(s, "other", TRUE)
    /\ UNCHANGED <<recips, active_room, core, out>>

\* A Close frame, the end of the stream, or a hot frame that the policy closes
\* on when hot_error_mode is silent.
ReceiveClose(s) ==
    /\ pc[s] = "select"
    /\ Break(s)
    /\ UNCHANGED <<recips, draining, settings>>

ReceiveJoin(s) ==
    /\ Receive(s)
    /\ \/ /\ in_room' = in_room \cup {s}
          /\ active_room' = active_room \cup {s}
          /\ Send(s, "other", FALSE)
       \/ Send(s, "other", FALSE) /\ UNCHANGED <<in_room, active_room>>
    /\ UNCHANGED <<recips, registered, out>>

\* Mutant: leaving reads the active room and does not take it.
ReceiveLeaveKeeping(s) ==
    /\ Receive(s)
    /\ in_room' = IF s \in active_room THEN in_room \ {s} ELSE in_room
    /\ Send(s, "other", FALSE)
    /\ UNCHANGED <<recips, active_room, registered, out>>

ReceiveLeave(s) ==
    /\ Receive(s)
    /\ in_room' = IF s \in active_room THEN in_room \ {s} ELSE in_room
    /\ active_room' = active_room \ {s}
    /\ Send(s, "other", FALSE)
    /\ UNCHANGED <<recips, registered, out>>

-----------------------------------------------------------------------------
(* Publications.                                                           *)

\* Mutant: every registered session gets what is published.
RecipientsRegistered == Registered

\* Mutant: the connections are kept in presence, not looked up in the registry.
RecipientsInRoom == in_room

\* Whom a publication goes to: sessions_in the room for which get_session finds
\* a connection.
Recipients == in_room \cap Registered

\* chat.send: publish_room_reliable; the sender need not be in the room.
ReceiveChat(s) ==
    /\ Receive(s)
    /\ recips' = [recips EXCEPT ![s] = Recipients]
    /\ Goto(s, "publishing")
    /\ UNCHANGED <<held, ends, active_room, core, out>>

\* The sends wait side by side; each succeeds or fails because the receiver has
\* been dropped,
PublishSend(s, r) ==
    /\ pc[s] = "publishing" /\ r \in recips[s]
    /\ \/ /\ Started(r) /\ Len(out[r]) < Capacity
          /\ out' = [out EXCEPT ![r] = Append(@, "other")]
       \/ ~Started(r) /\ UNCHANGED out
    /\ recips' = [recips EXCEPT ![s] = @ \ {r}]
    /\ UNCHANGED <<pc, held, ends, state, core, wire, draining, settings>>

\* Mutant: a send has no time limit.
PublishWaits(s, r) == FALSE

\* or is given up after the time limit of the chat service.
PublishTimeout(s, r) ==
    /\ pc[s] = "publishing" /\ r \in recips[s]
    /\ recips' = [recips EXCEPT ![s] = @ \ {r}]
    /\ UNCHANGED <<pc, held, ends, state, core, out, wire, draining, settings>>

PublishReturns(s) ==
    /\ pc[s] = "publishing" /\ recips[s] = {}
    /\ Goto(s, "select")
    /\ UNCHANGED <<held, ends, recips, state, core, out, wire, draining, settings>>

Publish(s) ==
    \/ \E r \in Sessions : PublishSend(s, r) \/ PublishTimeout(s, r)
    \/ PublishReturns(s)

HotFails(s) == IF settings.hot_sys_error THEN Send(s, "other", FALSE)
               ELSE UNCHANGED <<pc, held, ends>>

\* A hot frame for the echo service: publish_room_lossy or send_to_session.
ReceiveHot(s) ==
    /\ Receive(s)
    /\ \/ /\ settings.needs_room /\ s \notin active_room
          /\ HotFails(s) /\ UNCHANGED out
       \/ /\ s \in active_room
          /\ out' = OfferTo(Recipients, "other")
          /\ UNCHANGED <<pc, held, ends>>
       \/ /\ ~settings.needs_room /\ s \notin active_room
          /\ out' = OfferTo({s} \cap Registered, "other")
          /\ IF s \in Registered THEN UNCHANGED <<pc, held, ends>> ELSE HotFails(s)
    /\ UNCHANGED <<recips, active_room, core>>

-----------------------------------------------------------------------------
(* The signal handler of main, and the clock.                              *)

EnterDraining ==
    /\ draining = "no"
    /\ draining' = "yes"
    /\ UNCHANGED <<task, state, core, out, wire, settings>>

ShutdownAll ==
    /\ draining = "yes"
    /\ draining' = "told"
    /\ out' = OfferTo(Registered, "close")
    /\ UNCHANGED <<task, state, core, wire, settings>>

\* No message has been read for idle_timeout.
TimePasses(s) ==
    /\ Started(s) /\ s \notin quiet
    /\ quiet' = quiet \cup {s}
    /\ UNCHANGED <<task, active_room, core, out, wire, draining, settings>>

-----------------------------------------------------------------------------
Next ==
    \/ \E s \in Sessions :
        \/ Upgrade(s) \/ Refuse(s) \/ Admit(s) \/ AdmitKicking(s)
        \/ SendCompletes(s) \/ RecvOut(s) \/ Write(s)
        \/ PingTick(s) \/ IdleTick(s) \/ TimePasses(s)
        \/ ReceiveIgnored(s) \/ ReceiveAnswered(s) \/ ReceiveFatal(s)
        \/ ReceiveClose(s) \/ ReceiveJoin(s) \/ ReceiveLeave(s)
        \/ ReceiveChat(s) \/ ReceiveHot(s) \/ Publish(s)
    \/ EnterDraining \/ ShutdownAll

Spec == Init /\ [][Next]_vars

\* The runtime polls every task that can go on; timers fire; select! chooses at
\* random among the arms that are ready, so that an arm that is ready again and
\* again is taken.
FairSpec ==
    /\ Spec
    /\ \A s \in Sessions :
        /\ WF_vars(SendCompletes(s)) /\ WF_vars(Write(s)) /\ WF_vars(Publish(s))
        /\ SF_vars(RecvOut(s)) /\ SF_vars(IdleTick(s))

\* Of this, the part that publications depend on.
PublishSpec == Spec /\ \A s \in Sessions : WF_vars(Publish(s))

-----------------------------------------------------------------------------
(* Properties.                                                             *)

\* Every variable has its type, and no queue is longer than its capacity.
TypeOK ==
    /\ pc \in [Sessions -> {"new", "upgraded", "sending", "select", "writing",
                            "publishing", "ended"}]
    /\ out \in [Sessions -> Seq(Msgs)]
    /\ \A s \in Sessions : Len(out[s]) <= Capacity
    /\ held \in [Sessions -> Msgs \cup {"none"}]
    /\ recips \in [Sessions -> SUBSET Sessions]
    /\ registered \in Seq(Sessions)
    /\ ends \cup active_room \cup quiet \cup in_room \subseteq Sessions
    /\ wire \in [Sessions -> SUBSET {"authed", "close"}]
    /\ draining \in {"no", "yes", "told"}
    /\ settings \in Settings

\* run_session: whatever other tasks queue for a session that is being set up,
\* all that can be written to a client before sys.authed is that it is kicked or
\* closed.
AuthedFirst ==
    \A s \in Sessions :
        pc[s] = "writing" /\ held[s] = "other" => wire[s] # {}

\* evict_oldest and the publications: once a session is evicted and the
\* publications that had already picked it are over, only its own task puts
\* messages in its queue, even if it joins the room again.
EvictedHearsNothing ==
    [][\A s \in Sessions :
         (Started(s) /\ s \notin Registered /\ \A t \in Sessions : s \notin recips[t])
           => /\ \A t \in Sessions : s \notin recips'[t]
              /\ Len(out'[s]) > Len(out[s])
                   => pc[s] = "sending" /\ pc'[s] # "sending"]_vars

\* run_session and cleanup_session: until a session is evicted, the room that its
\* hot lane sends to is one that it is in.
ActiveRoomIsJoined == active_room \cap Registered \subseteq in_room

Accepted == Registered \cup {s \in Sessions : pc[s] = "upgraded"}

\* ws_upgrade and enter_draining: once the gateway is draining, the connections
\* that are registered or on their way to it only become fewer, whatever the
\* requests that were upgraded before still do.
LatecomersRefused == [][draining # "no" => Accepted' \subseteq Accepted]_vars

\* publish_room_reliable: with the time limit that the chat service gives, a
\* publication ends even if it waits for full queues, its own among them, whose
\* sessions are all waiting as well.
PublicationsEnd ==
    \A s \in Sessions : []<>(pc[s] # "publishing")

-----------------------------------------------------------------------------
(* What the documentation says and the code does not keep.                 *)

\* The idle tick: a session whose client has been quiet for idle_timeout is
\* closed, unless a message arrives.
IdleIsClosed == \A s \in Sessions : s \in quiet ~> s \notin quiet

\* evict_oldest: a session that has been kicked publishes nothing any more.
KickedIsMute ==
    [][\A s \in Sessions :
         (s \notin Registered /\ pc[s] = "select") => pc'[s] # "publishing"]_vars

\* cleanup_session on eviction: also the active room of an evicted session is a
\* room that it is in.
EveryActiveRoomIsJoined == active_room \subseteq in_room

\* enter_draining: no session is admitted once the gateway is draining.
NoAdmissionWhileDraining ==
    [][draining # "no" => Range(registered') \subseteq Registered]_vars

\* run_session: the loop is not left with the error message that says why still
\* in the queue.
LastWords ==
    [][\A s \in ends : pc'[s] # "ended"]_vars
=============================================================================
