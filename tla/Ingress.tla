------------------------------ MODULE Ingress ------------------------------
(***************************************************************************)
(* What becomes of a message from the socket to a service: the incoming    *)
(* arm of the loop in run_session (transport/ws.rs), with the decoder of   *)
(* module Codec, the limiters and allowlists of module Policy, and the     *)
(* dispatcher and the built-in services.                                   *)
(*                                                                         *)
(* Whether presence accepts a join and whether the registry still knows a  *)
(* session is left open (see Presence and SessionRegistry): found says     *)
(* what they answer.                                                       *)
(***************************************************************************)
EXTENDS Policy, Codec

CONSTANTS
    Messages,   \* what clients send: [kind: "text", json, len],
                \* [kind: "binary", bytes] or [kind: "ping", "pong" or "close"]
    Modes       \* settings of the tenant: [silent, needs_room], both Boolean

VARIABLE active_room  \* sess.active_room of each connection, None if there is none

ingressVars == <<vars, active_room>>

\* The length of a message as policy sees it.
BytesLen(m) == IF m.kind = "text" THEN m.len ELSE Len(m.bytes)

\* What policy is asked about.
FrameOf(m) ==
    LET value == Decode(m).value
    IN  IF m.kind = "text"
        THEN [lane |-> "text", len |-> BytesLen(m), svc |-> value.svc, type |-> value.type]
        ELSE [lane |-> "hot", len |-> BytesLen(m), svc |-> value.svc_id,
              type |-> value.opcode]

ASSUME FramesAssumption ==
    /\ MaxFrameBytes \in Nat
    /\ \A m \in Messages :
         /\ m.kind \in {"text", "binary", "ping", "pong", "close"}
         /\ m.kind \in {"text", "binary"} => BytesLen(m) \in Nat
         /\ Decode(m).ok => /\ m.kind = "text" => FrameOf(m) \in TextFrames
                            /\ m.kind = "binary" => FrameOf(m) \in HotFrames

\* None is neither a part of an allowlist entry, nor a byte, nor a code.
ASSUME NoneAssumption ==
    /\ \A raw \in ExtAllowlist \cup HotAllowlist : \A i \in DOMAIN raw : raw[i] # None
    /\ \A text \in DOMAIN ParseU8 : ParseU8[text] # None
    /\ ClientCode["BadRequest"] # None

\* register_text and register_hot in AppState::new.
TextServices == {"chat"}
HotServices == {1}

-----------------------------------------------------------------------------
(* Effects: what is counted in a metric, which reply is queued, whether a  *)
(* service or the room code has served the message.                        *)

Effect(counted, reply, served) == [counted |-> counted, reply |-> reply, served |-> served]

\* The arms of the decision of policy that end in continue or break.
Turned(decision, code) ==
    Effect({"policy_decisions"}, IF decision = "drop" THEN None ELSE code, FALSE)

\* ChatService::handle.
ChatAccepts(env) ==
    /\ env.type = "send" /\ {"room", "data"} \subseteq DOMAIN env
    /\ env.data = "msg"

\* EchoBinaryService::handle_binary: without a room the frame goes back to the
\* session, if the registry knows it.
EchoAccepts(c, found) == active_room[c] # None \/ found

\* dispatch_text, dispatch_hot: whether they return Ok.
DispatchText(env) == env.svc \in TextServices /\ ChatAccepts(env)
DispatchHot(c, frame, found) == frame.svc_id \in HotServices /\ EchoAccepts(c, found)

\* room.join and room.leave, which the loop serves itself, and other services.
ServeText(env, found) ==
    IF env.svc = "room" /\ env.type = "join"
    THEN IF found THEN Effect({}, "joined", TRUE)
         ELSE Effect({"service_errors"}, ClientCode["ResourceExhausted"], FALSE)
    ELSE IF env.svc = "room" /\ env.type = "leave"
    THEN Effect({}, "left", TRUE)
    ELSE IF DispatchText(env)
    THEN Effect({"dispatch_duration"}, None, TRUE)
    ELSE Effect({"dispatch_duration", "service_errors"}, ClientCode["BadRequest"], FALSE)

\* The duration is measured for one frame in 1024 only and not counted here.
ServeHot(c, frame, found, mode) ==
    LET Told(code) == IF mode.silent THEN None ELSE code
    IN  IF mode.needs_room /\ active_room[c] = None
        THEN Effect({}, Told(ClientCode["BadRequest"]), FALSE)
        ELSE IF DispatchHot(c, frame, found)
        THEN Effect({}, None, TRUE)
        ELSE Effect({"service_errors"}, Told(ClientCode["BadRequest"]), FALSE)

\* Mutant: a frame that the limiter of the connection refuses is not counted.
ConnDroppedUncounted == Effect({}, None, FALSE)

ConnDropped == Turned("drop", None)

\* The incoming arm.  A malformed message is answered whatever the mode.
Handled(c, m, found, mode) ==
    LET decoded == Decode(m)
        decision == Check(FrameOf(m))
    IN  IF ~decoded.ok THEN Effect({"decode_errors"}, decoded.code, FALSE)
        ELSE IF m.kind = "ping" THEN Effect({}, "pong", FALSE)
        ELSE IF m.kind \in {"pong", "close"} THEN Effect({}, None, FALSE)
        ELSE IF m.kind = "text" /\ ~Admits(conn[c]) THEN ConnDropped
        ELSE IF decision # "pass"
        THEN Turned(IF m.kind = "binary" /\ mode.silent THEN "drop" ELSE decision,
                    ClientCode["BadRequest"])
        ELSE IF m.kind = "text" THEN ServeText(decoded.value, found)
        ELSE ServeHot(c, decoded.value, found, mode)

-----------------------------------------------------------------------------
(* Steps.                                                                  *)

\* The loop is left: the session state is dropped.
Leave(c) ==
    /\ Disconnect(c)
    /\ active_room' = [active_room EXCEPT ![c] = None]

\* A room.join without a room means the room "default".
RoomAfter(c, m, found) ==
    LET env == Decode(m).value
        passes == Admits(conn[c]) /\ Check(FrameOf(m)) = "pass"
    IN  IF ~passes \/ env.svc # "room" THEN active_room[c]
        ELSE IF env.type = "join" /\ found
        THEN IF "room" \in DOMAIN env THEN env.room ELSE "default"
        ELSE IF env.type = "leave" THEN None
        ELSE active_room[c]

\* Mutant: joining and leaving a room is no business of the limiters.
ReceiveTextRoomsFree(c, m, found) ==
    /\ m.kind = "text" /\ Decode(m).ok
    /\ IF Decode(m).value.svc = "room"
       THEN /\ c \in open /\ Decide(c, FrameOf(m)) /\ UNCHANGED conn
            /\ active_room' = [active_room EXCEPT ![c] = RoomAfter(c, m, found)]
       ELSE /\ Text(c, FrameOf(m))
            /\ UNCHANGED active_room

ReceiveText(c, m, found) ==
    /\ m.kind = "text" /\ Decode(m).ok
    /\ Text(c, FrameOf(m))
    /\ active_room' =
         [active_room EXCEPT ![c] = IF c \in open' THEN RoomAfter(c, m, found) ELSE None]

ReceiveHot(c, m) ==
    /\ m.kind = "binary" /\ Decode(m).ok
    /\ Hot(c, FrameOf(m))
    /\ active_room' = [active_room EXCEPT ![c] = IF c \in open' THEN @ ELSE None]

\* A message that cannot be decoded ends the loop, and so does a Close frame.
ReceiveLast(c, m) ==
    /\ ~Decode(m).ok \/ m.kind = "close"
    /\ Leave(c)

ReceiveControl(c, m) ==
    /\ m.kind \in {"ping", "pong"} /\ c \in open
    /\ UNCHANGED ingressVars

IngressInit == Init /\ active_room = [c \in Conns |-> None]

IngressNext ==
    \/ \E c \in Conns : Connect(c) /\ UNCHANGED active_room
    \/ \E c \in Conns : Leave(c)
    \/ \E c \in Conns, m \in Messages :
         \/ \E found \in BOOLEAN : ReceiveText(c, m, found)
         \/ ReceiveHot(c, m) \/ ReceiveLast(c, m) \/ ReceiveControl(c, m)
    \/ \E d \in Pauses : Wait(d) /\ UNCHANGED active_room

IngressSpec == IngressInit /\ [][IngressNext]_ingressVars

-----------------------------------------------------------------------------
(* Properties.                                                             *)

\* Nothing reaches a service past the decoder, the size limit, the allowlists
\* as they were written and the rule about rooms: a message that is served,
\* whatever the state of the limiters, is no longer than max_frame_bytes, and
\* the svc and type of its JSON, or the second and third of its bytes, are
\* named by an entry of the tenant's configuration.
ServedOnlyListed ==
    \A c \in open, m \in Messages, found \in BOOLEAN, mode \in Modes :
        Handled(c, m, found, mode).served =>
            /\ BytesLen(m) <= MaxFrameBytes
            /\ m.kind = "text" =>
                 \E raw \in ExtAllowlist :
                    raw[1] = m.json["svc"] /\ raw[2] \in {m.json["type"], "*"}
            /\ m.kind = "binary" =>
                 /\ m.bytes[1] = 1
                 /\ \E raw \in HotAllowlist :
                      /\ ParseU8[raw[1]] = m.bytes[2]
                      /\ raw[2] = "*" \/ ParseU8[raw[2]] = m.bytes[3]
                 /\ mode.needs_room => active_room[c] # None

\* No frame of a lane vanishes: the incoming arm serves it, answers it or
\* counts it in a metric, in every state of the limiters.  The one exception is
\* a hot frame without an active room where the tenant asks for silence.
FramesAccounted ==
    \A c \in open, m \in Messages, found \in BOOLEAN, mode \in Modes :
        LET effect == Handled(c, m, found, mode)
        IN  m.kind \in {"text", "binary"} =>
              \/ effect.served \/ effect.reply # None \/ effect.counted # {}
              \/ m.kind = "binary" /\ mode.silent /\ mode.needs_room /\ active_room[c] = None

\* The incoming arm only ever moves the limiters and the connections as module
\* Policy says, so that what holds of Policy holds from the socket on.
PolicyKept == Spec
=============================================================================
