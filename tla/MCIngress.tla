----------------------------- MODULE MCIngress -----------------------------
(* An instance of Ingress for model checking, with bytes below 3.          *)
EXTENDS Ingress, SequencesExt

\* "chat:*" and "room:join", "room:leave"; "01:2", whose svc_id is read as 1.
MCExtAllowlist == {<<"chat", "*">>, <<"room", "join">>, <<"room", "leave">>}
MCHotAllowlist == {<<"01", "2">>, <<"2", "*">>}
MCParseU8 == "1" :> 1 @@ "01" :> 1 @@ "2" :> 2

\* Envelopes that are served, refused by policy, too long and malformed.
Json(svc, type) == [v |-> 1, svc |-> svc, type |-> type]
Text1(json) == [kind |-> "text", json |-> json, len |-> 1]
Chat == [v |-> 1, svc |-> "chat", type |-> "send", room |-> "r", data |-> "msg"]
MCMessages ==
    {Text1(Chat), Text1(Json("chat", "send")), Text1(Json("room", "join")),
     Text1(Json("room", "leave")), Text1(Json("room", "list")), Text1(<<>>),
     [kind |-> "text", json |-> Chat, len |-> 9]}
    \cup {[kind |-> "binary", bytes |-> b] :
            b \in {<<1, 1, 2, 0>>, <<1, 2, 0, 1, 0, 0, 0, 0>>, <<1, 1, 1, 0>>,
                   <<2, 1, 2, 0>>, <<1, 1, 2, 0, 0, 0, 0, 0, 0>>, <<1, 1, 2>>,
                   <<1, 1, 2, 1, 0>>}}
    \cup {[kind |-> k] : k \in {"ping", "pong", "close"}}

MCModes == {[silent |-> TRUE, needs_room |-> TRUE], [silent |-> FALSE, needs_room |-> FALSE]}

MCTextFrames == {FrameOf(m) : m \in {x \in Messages : x.kind = "text" /\ Decode(x).ok}}
MCHotFrames == {FrameOf(m) : m \in {x \in Messages : x.kind = "binary" /\ Decode(x).ok}}

\* Buffers of up to 9 bytes, and frames with every seq of four such bytes.
Buffers == BoundedSeq(Byte, 9)
Frames ==
    LET Frame(flags, seq, payload) ==
            [v : {1}, svc_id : Byte, opcode : Byte, flags : flags, seq : seq,
             payload : payload]
        Payloads == BoundedSeq(Byte, 1)
    IN  Frame({f \in Byte : ~SeqPresent(f)}, {<<>>}, Payloads)
          \cup Frame({f \in Byte : SeqPresent(f)}, {<<n>> : n \in 0 .. (Base^4 - 1)}, Payloads)

\* decode_hot_frame is the inverse of the documented layout on all of these, as
\* DecodesExactly in Codec says.  It speaks of no state: it is evaluated before
\* the first connection only.
HotCodecExact == (now = 0 /\ open = {}) => DecodesExactly(Buffers, Frames)

Symmetry == Permutations(Conns)
=============================================================================
