------------------------------- MODULE Codec -------------------------------
(***************************************************************************)
(* The wire format (protocol/hot.rs and protocol/text.rs of wsprism-core,  *)
(* transport/codec.rs) and the codes of errors (error.rs).                 *)
(*                                                                         *)
(* A byte is a number below Base, which is 256 in the code.  The text of   *)
(* an envelope is what its JSON object holds: a function from keys to      *)
(* values, with no key at all if the text is not an object.                *)
(***************************************************************************)
EXTENDS Naturals, Sequences

CONSTANT Base

Byte == 0 .. (Base - 1)

\* WsPrismError::client_code, ClientCode::as_str.
ClientCode ==
    [BadRequest |-> "BAD_REQUEST", AuthFailed |-> "AUTH_FAILED",
     RateLimited |-> "RATE_LIMITED", PayloadTooLarge |-> "PAYLOAD_TOO_LARGE",
     NotAllowed |-> "NOT_ALLOWED", ResourceExhausted |-> "RESOURCE_EXHAUSTED",
     UnsupportedVersion |-> "UNSUPPORTED_VERSION", Internal |-> "INTERNAL"]

Err(error) == [ok |-> FALSE, code |-> ClientCode[error]]
Ok(value) == [ok |-> TRUE, value |-> value]

-----------------------------------------------------------------------------
(* The hot lane.  An optional value is a sequence of at most one element.  *)

\* HOT_FLAG_SEQ_PRESENT, the lowest bit.
SeqPresent(flags) == flags % 2 = 1

\* Mutant: the bytes of a number are read in network order.
GetU32Be(b) == b[4] + Base * (b[3] + Base * (b[2] + Base * b[1]))

\* Buf::get_u32_le.
GetU32Le(b) == b[1] + Base * (b[2] + Base * (b[3] + Base * b[4]))

\* decode_hot_frame.
DecodeHot(buf) ==
    LET flags == buf[4]
        rest == SubSeq(buf, 5, Len(buf))
        Frame(seq, payload) ==
            [v |-> buf[1], svc_id |-> buf[2], opcode |-> buf[3], flags |-> flags,
             seq |-> seq, payload |-> payload]
    IN  IF Len(buf) < 4 THEN Err("BadRequest")
        ELSE IF buf[1] # 1 THEN Err("UnsupportedVersion")
        ELSE IF ~SeqPresent(flags) THEN Ok(Frame(<<>>, rest))
        ELSE IF Len(rest) < 4 THEN Err("BadRequest")
        ELSE Ok(Frame(<<GetU32Le(rest)>>, SubSeq(rest, 5, Len(rest))))

-----------------------------------------------------------------------------
(* The ext lane, and messages of either lane.                              *)

EnvelopeKeys == {"v", "svc", "type", "flags", "seq", "room", "data"}
RequiredKeys == {"v", "svc", "type"}

\* serde_json::from_str::<Envelope>: unknown keys are refused.
DecodeEnvelope(json) ==
    IF RequiredKeys \subseteq DOMAIN json /\ DOMAIN json \subseteq EnvelopeKeys
    THEN Ok(json) ELSE Err("BadRequest")

\* decode.
Decode(m) ==
    CASE m.kind = "text" -> DecodeEnvelope(m.json)
      [] m.kind = "binary" -> DecodeHot(m.bytes)
      [] OTHER -> Ok(m)

-----------------------------------------------------------------------------
(* The layout of a hot frame as docs/PROTOCOL.md draws it.                 *)

U32Le(n) ==
    <<n % Base, (n \div Base) % Base, (n \div Base^2) % Base, (n \div Base^3) % Base>>

EncodeHot(f) ==
    <<f.v, f.svc_id, f.opcode, f.flags>>
      \o (IF f.seq = <<>> THEN <<>> ELSE U32Le(f.seq[1])) \o f.payload

\* decode_hot_frame is the inverse of the documented layout on the given
\* buffers and frames: what it accepts is laid out again as the same bytes,
\* none lost and none invented, it has a seq exactly if its flag says so, and
\* it accepts the layout of every frame and gives this very frame back.
DecodesExactly(buffers, frames) ==
    /\ \A buf \in buffers :
         LET result == DecodeHot(buf)
         IN  result.ok => /\ EncodeHot(result.value) = buf
                          /\ (result.value.seq # <<>>) = SeqPresent(result.value.flags)
    /\ \A f \in frames : DecodeHot(EncodeHot(f)) = Ok(f)
=============================================================================
