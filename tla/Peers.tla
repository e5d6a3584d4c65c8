-------------------------------- MODULE Peers --------------------------------
(***************************************************************************)
(* Two ends of a connection and what Wire's functions let them agree on: a *)
(* writer of lane frames and the loop that reads them (pump, of            *)
(* crates/mux-attach/src/main.rs), on a connection that is cut anywhere;   *)
(* a reader and any header; a client, and a daemon of another version.     *)
(* Each behaviour is one of these cases.                                   *)
(***************************************************************************)
EXTENDS Wire

CONSTANTS
    Frame,      \* lane frames, and how many of them are written at most
    MaxFrames,
    Version     \* what clients say their version is

Request == [version : Version, mode : Modes,
            target : {"none", "host"}, token : {"none", "admitted", "other"}]

\* The versions of daemons.
Daemon == {5} \cup 7..PROTOCOL_VERSION

PeersParameters ==
    /\ Base \in Nat \ {0, 1}
    /\ MAX_FRAME_SIZE \in Length \ {0}
    /\ MAX_REQUEST_BYTES \in Length \ {0}
    /\ Frame \subseteq [lane : Byte, payload : Seq(Byte)]
    /\ MaxFrames \in Nat
    /\ Version \subseteq Nat

ASSUME PeersAssumption == PeersParameters

VARIABLES
    case,    \* what this behaviour is about
    sent,    \* the frames written, each with the place where its bytes end
    stream,  \* the bytes that get through
    open,    \* the connection is not cut
    at,      \* how many of them were read
    got,     \* the frames they gave
    ended    \* how the reader's loop ended

peersVars == <<case, sent, stream, open, at, got, ended>>
link == <<sent, stream, open, at, got, ended>>

PeersInit ==
    /\ case = [kind |-> "none"]
    /\ sent = <<>>
    /\ stream = <<>>
    /\ open = TRUE
    /\ at = 0
    /\ got = <<>>
    /\ ended = "no"

-----------------------------------------------------------------------------
(* Cases *)

Choose(c) ==
    /\ case.kind = "none"
    /\ case' = c
    /\ UNCHANGED link

Frames == Choose([kind |-> "frames"])

Header == \E h \in [1..HEADER_LEN -> Byte] : Choose([kind |-> "header", bytes |-> h])

Handshake ==
    \E r \in Request, policy \in Policy, now \in Daemon :
        Choose([kind |-> "request", request |-> r, policy |-> policy, now |-> now])

-----------------------------------------------------------------------------
(* A connection that carries frames *)

\* write_lane: what cannot be encoded is not written.
write_lane(f) ==
    /\ case.kind = "frames"
    /\ open
    /\ Len(sent) < MaxFrames
    /\ encode(f.lane, f.payload) # Invalid
    /\ stream' = stream \o encode(f.lane, f.payload)
    /\ sent' = Append(sent, [frame |-> f, end |-> Len(stream')])
    /\ UNCHANGED <<case, open, at, got, ended>>

\* The connection is cut, at any byte that was not yet read.
CutOff(n) ==
    /\ case.kind = "frames"
    /\ open
    /\ n >= at
    /\ open' = FALSE
    /\ stream' = SubSeq(stream, 1, n)
    /\ UNCHANGED <<case, sent, at, got, ended>>

\* read_exact waits for the rest of a header or of a payload.
Waits(r) ==
    IF Len(r) < HEADER_LEN
    THEN TRUE
    ELSE LET h == parse_header(SubSeq(r, 1, HEADER_LEN))
         IN  h # Invalid /\ Len(r) < HEADER_LEN + h.len

\* One turn of the loop: a frame, or its end.
pump ==
    /\ case.kind = "frames"
    /\ ended = "no"
    /\ LET unread == SubSeq(stream, at + 1, Len(stream))
           f      == read_lane(unread)
       IN  /\ open => ~Waits(unread)
           /\ IF "end" \in DOMAIN f
              THEN ended' = f.end /\ UNCHANGED <<at, got>>
              ELSE /\ at' = Len(stream) - Len(f.rest)
                   /\ got' = Append(got, [lane |-> f.lane, payload |-> f.payload])
                   /\ UNCHANGED ended
    /\ UNCHANGED <<case, sent, stream, open>>

PeersNext ==
    \/ Frames \/ Header \/ Handshake
    \/ \E f \in Frame : write_lane(f)
    \/ \E n \in 0..Len(stream) : CutOff(n)
    \/ pump

PeersSpec == PeersInit /\ [][PeersNext]_peersVars

-----------------------------------------------------------------------------
(* A connection cut anywhere gives its reader the frames that were wholly   *)
(* written, unchanged and no others (read_lane); the reader gives up on no  *)
(* connection that is not cut; a cut between two frames is a clean end, one *)
(* in a payload an error.                                                   *)
FramesSurviveCuts ==
    LET read == IF got = <<>> THEN 0 ELSE sent[Len(got)].end
    IN  /\ Len(got) <= Len(sent)
        /\ \A i \in 1..Len(got) : got[i] = sent[i].frame
        /\ ended # "no" =>
              /\ ~open
              /\ \A i \in 1..Len(sent) : i <= Len(got) <=> sent[i].end <= Len(stream)
              /\ Len(stream) = read => ended = "none"
              /\ Len(stream) - read >= HEADER_LEN => ended = "error"

(* A reader allocates for exactly the headers a writer can send, up to the  *)
(* largest frame and message (parse_header, parse_message_len).             *)
ReadersTakeWhatWritersSend ==
    case.kind = "header" =>
        LET Bytes(n) == [i \in 1..n |-> 0]
            Sends(n) == encode(case.bytes[5], Bytes(n))
        IN  /\ parse_header(case.bytes) # Invalid <=>
                  \E n \in 0..(MAX_FRAME_SIZE + 1) :
                      Sends(n) # Invalid /\ SubSeq(Sends(n), 1, 5) = case.bytes
            /\ parse_message_len(case.bytes) # Invalid <=>
                  \E n \in 0..(MAX_REQUEST_BYTES + 1) :
                      /\ encode_message(Bytes(n)) # Invalid
                      /\ SubSeq(encode_message(Bytes(n)), 1, 4) = SubSeq(case.bytes, 1, 4)

(* A pane's request for a host is served there as if it had been made       *)
(* there, whatever the pane's own version: by the handler of its mode if    *)
(* the token is the host's, by nothing otherwise, and never one hop further *)
(* (relay, admit).                                                          *)
RelayIsOneHop ==
    case.kind = "request" =>
        LET r    == case.request
            here == handle_connection(PROTOCOL_VERSION, case.policy, r)
            host == handle_connection(PROTOCOL_VERSION, "RemoteConnection",
                                      open_stream(r, r.token))
        IN  /\ r.target # "none" => here \in {"relayed", "rejected", "VersionMismatch"}
            /\ here = "relayed" =>
                  /\ case.policy = "Local"
                  /\ host = IF r.token = "admitted" THEN r.mode ELSE "rejected"

(* Whatever daemon a client meets, it learns that the versions differ when  *)
(* they do, never that something undecodable was said (decode_open_reply).  *)
SkewIsDiagnosed ==
    case.kind = "request" =>
        LET r    == case.request
            told == decode_open_reply(Answer(case.now, case.policy, r))
        IN  told = "VersionMismatch" <=>
                ~(r.version \in 7..case.now /\ minimum(r.mode) <= r.version)

(* Two ends of a connection that is cut anywhere, of any two versions and   *)
(* with any relay between them, agree on what was said.                     *)
PeersUnderstand ==
    /\ FramesSurviveCuts
    /\ ReadersTakeWhatWritersSend
    /\ RelayIsOneHop
    /\ SkewIsDiagnosed
=============================================================================
