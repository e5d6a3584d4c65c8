-------------------------------- MODULE Wire ---------------------------------
(***************************************************************************)
(* The envelopes of crates/mux-proto/src/frame.rs, the handshake of        *)
(* crates/muxd/src/server.rs and its reply (crates/mux-proto/src/peer.rs), *)
(* as functions of their bytes and requests.  A byte has Base values       *)
(* instead of 256.                                                         *)
(***************************************************************************)
EXTENDS Integers, Sequences

CONSTANTS Base, MAX_FRAME_SIZE, MAX_REQUEST_BYTES

\* The lengths of four bytes.
Length == 0..(Base * (Base * (Base * Base)) - 1)

Byte == 0..(Base - 1)

Invalid == [error |-> TRUE]

\* u32::to_le_bytes, and back.
ToLe(n) ==
    LET n1 == n \div Base
        n2 == n1 \div Base
        n3 == n2 \div Base
    IN  <<n % Base, n1 % Base, n2 % Base, n3 % Base>>

FromLe(b) == b[1] + Base * (b[2] + Base * (b[3] + Base * b[4]))

-----------------------------------------------------------------------------
(* Lane frames and messages *)

HEADER_LEN == 5

\* Mutant of encode: the lane byte is not counted.
encodePayloadOnly(lane, payload) ==
    IF Len(payload) <= MAX_FRAME_SIZE
    THEN ToLe(Len(payload)) \o <<lane>> \o payload
    ELSE Invalid

encode(lane, payload) ==
    IF Len(payload) + 1 <= MAX_FRAME_SIZE
    THEN ToLe(Len(payload) + 1) \o <<lane>> \o payload
    ELSE Invalid

\* Mutant of parse_header: the largest frame is refused.
parse_headerBelow(h) ==
    LET len == FromLe(h)
    IN  IF len = 0 \/ len >= MAX_FRAME_SIZE
        THEN Invalid
        ELSE [lane |-> h[5], len |-> len - 1]

parse_header(h) ==
    LET len == FromLe(h)
    IN  IF len = 0 \/ len > MAX_FRAME_SIZE
        THEN Invalid
        ELSE [lane |-> h[5], len |-> len - 1]

encode_message(bytes) ==
    IF Len(bytes) \in 1..MAX_REQUEST_BYTES THEN ToLe(Len(bytes)) \o bytes ELSE Invalid

parse_message_len(b) ==
    IF FromLe(b) \in 1..MAX_REQUEST_BYTES THEN [len |-> FromLe(b)] ELSE Invalid

\* read_lane on what is left of a stream that has ended: None when it ends in
\* the header already, an error when it ends in the payload.
read_lane(r) ==
    IF Len(r) < HEADER_LEN
    THEN [end |-> "none"]
    ELSE LET h == parse_header(SubSeq(r, 1, HEADER_LEN))
         IN  IF h = Invalid \/ Len(r) < HEADER_LEN + h.len
             THEN [end |-> "error"]
             ELSE [lane    |-> h.lane,
                   payload |-> SubSeq(r, HEADER_LEN + 1, HEADER_LEN + h.len),
                   rest    |-> SubSeq(r, HEADER_LEN + h.len + 1, Len(r))]

-----------------------------------------------------------------------------
(* The handshake *)

PROTOCOL_VERSION == 13

Modes == {"Open", "List", "Kill", "Watch", "Attach", "Inspect", "Observe",
          "Input", "Close", "Reopen", "Connect", "Audio", "AudioProvider",
          "AudioAcquire"}

AudioModes == {"Audio", "AudioProvider", "AudioAcquire"}

\* The version that brought the mode.
minimum(mode) ==
    CASE mode \in {"Open", "List", "Kill", "Watch"} -> 7
      [] mode = "Attach" -> 8
      [] mode \in {"Inspect", "Observe", "Input"} -> 9
      [] mode \in {"Close", "Reopen"} -> 10
      [] mode = "Connect" -> 11
      [] mode = "Audio" -> 12
      [] mode \in {"AudioProvider", "AudioAcquire"} -> 13

\* read_request of a daemon of version now.
read_request(now, r) == r.version \in 7..now /\ r.version >= minimum(r.mode)

Policy == {"Local", "Remote", "RemoteConnection"}

\* Mutant of admit: a token is enough.
admitTargets(policy, r) ==
    policy # "Local" => r.token = "admitted"

\* Policy::admit
admit(policy, r) ==
    policy # "Local" => r.token = "admitted" /\ r.target = "none"

\* handle_connection: who serves the request, or which error answers it.
handle_connection(now, policy, r) ==
    IF ~read_request(now, r) THEN "VersionMismatch"
    ELSE IF ~admit(policy, r) THEN "rejected"
    ELSE IF r.target # "none" /\ policy = "Local" THEN "relayed"
    ELSE IF r.mode \in AudioModes /\ policy # "RemoteConnection" THEN "NoAudio"
    ELSE r.mode

\* The request as Broker::open_stream sends it to the host.
open_stream(r, token) ==
    [r EXCEPT !.version = PROTOCOL_VERSION, !.target = "none", !.token = token]

-----------------------------------------------------------------------------
(* Replies *)

\* How a daemon of version now answers, serialized: v5 says no kind of error.
V5_VERSION_MISMATCH == "protocol version mismatch"

Answer(now, policy, r) ==
    LET done == handle_connection(now, policy, r)
    IN  IF now = 5 THEN <<"Err", V5_VERSION_MISMATCH>>
        ELSE IF done = "VersionMismatch" THEN <<"Err", V5_VERSION_MISMATCH, done>>
        ELSE IF done = "rejected"
             THEN <<"Err", "why", IF r.token = "admitted" THEN "Other" ELSE "TokenRejected">>
        ELSE IF done = "NoAudio" THEN <<"Err", "why", "Other">>
        ELSE <<"Ok", done>>

\* Mutant of decode_open_reply: replies of v5 are not decoded.
decode_open_reply6(bytes) ==
    IF bytes[1] = "Ok" THEN "Ok"
    ELSE IF Len(bytes) = 3 THEN bytes[3]
    ELSE "undecodable"

\* decode_open_reply: the kind of error a client sees.
decode_open_reply(bytes) ==
    IF bytes[1] = "Ok" THEN "Ok"
    ELSE IF Len(bytes) = 3 THEN bytes[3]
    ELSE IF bytes[2] = V5_VERSION_MISMATCH THEN "VersionMismatch"
    ELSE "Other"
=============================================================================
