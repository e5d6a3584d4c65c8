------------------------------- MODULE Broker --------------------------------
(***************************************************************************)
(* The broker's links to one host (crates/muxd/src/broker.rs): the cached  *)
(* QUIC connection, which every pane of that host shares, its dialing,     *)
(* pinning, eviction and the streams on it.  The hosts are independent:    *)
(* the cache is keyed by alias and its lock is held across no wait.        *)
(*                                                                         *)
(* A "silent" connection has lost its path and nobody knows yet: it looks  *)
(* live, and streams on it hang until the idle timeout.  A connection that *)
(* nobody holds is gone, and its number is used again.  Panes that fail or *)
(* lose their stream come back, as mux-attach does.                        *)
(***************************************************************************)
EXTENDS Naturals, Sequences, FiniteSets

CONSTANTS
    Pane,        \* targeted requests
    Audio,       \* those that are for audio
    Key,         \* certificates the host may present
    MaxStreams,  \* MAX_STREAMS of the host's listener
    MaxConns,    \* bound on the connections held at once
    MaxFaults,   \* bound on outages, lost paths, errors and edits of files
    None

Conn == 1..MaxConns

ASSUME BrokerAssumption ==
    /\ Audio \subseteq Pane
    /\ MaxStreams \in Nat \ {0}
    /\ MaxConns \in Nat
    /\ MaxFaults \in Nat
    /\ Key # {}
    /\ None \notin Key \cup Conn

VARIABLES
    link,    \* Broker.links: the cached connection
    conn,    \* every connection's state and the key it was made with
    pins,    \* the host's lines in known_hosts; None has no whole key
    inHosts, \* it is in hosts.json
    host,    \* it is reachable
    key,     \* the key it has
    faults,
    pc,      \* where each relay is
    mine,    \* the connection it got, or dialed
    shown,   \* the key a dial was shown
    stream,  \* the connection its stream is on
    media    \* the connection its datagrams are on

hostVars   == <<inHosts, host, key, faults>>
streamVars == <<stream, media>>
vars == <<link, conn, pins, inHosts, host, key, faults, pc, mine, shown,
          stream, media>>

Unused == [state |-> "closed", key |-> None]

TypeOK ==
    /\ link \in Conn \cup {None}
    /\ conn \in [Conn -> [state : {"up", "silent", "closed"},
                          key : Key \cup {None}]]
    /\ pins \in Seq(Key \cup {None})
    /\ inHosts \in BOOLEAN
    /\ host \in BOOLEAN
    /\ key \in Key
    /\ faults \in 0..MaxFaults
    /\ pc \in [Pane -> {"idle", "look", "dial", "pin", "insert", "open",
                        "evict", "bridge", "stream"}]
    /\ mine \in [Pane -> Conn \cup {None}]
    /\ shown \in [Pane -> Key \cup {None}]
    /\ stream \in [Pane -> Conn \cup {None}]
    /\ media \in [Pane -> Conn \cup {None}]
    /\ \A p \in Pane : pc[p] = "stream" =>
          stream[p] # None /\ (media[p] # None <=> p \in Audio)

Init ==
    /\ link = None
    /\ conn = [c \in Conn |-> Unused]
    /\ key \in Key
    /\ pins \in {<<>>, <<key>>}
    /\ inHosts = TRUE
    /\ host \in BOOLEAN
    /\ faults = 0
    /\ pc = [p \in Pane |-> "idle"]
    /\ mine = [p \in Pane |-> None]
    /\ shown = [p \in Pane |-> None]
    /\ stream = [p \in Pane |-> None]
    /\ media = [p \in Pane |-> None]

-----------------------------------------------------------------------------
(* The host and the paths to it *)

Fault == faults < MaxFaults /\ faults' = faults + 1

Lose(C) == [c \in Conn |-> IF c \in C /\ conn[c].state = "up"
                           THEN [conn[c] EXCEPT !.state = "silent"]
                           ELSE conn[c]]

HostDown ==
    /\ host
    /\ Fault
    /\ host' = FALSE
    /\ conn' = Lose(Conn)
    /\ UNCHANGED <<link, pins, inHosts, key, pc, mine, shown, streamVars>>

\* Its key may have been regenerated.
HostUp ==
    /\ ~host
    /\ host' = TRUE
    /\ key' \in Key
    /\ UNCHANGED <<link, conn, pins, inHosts, faults, pc, mine, shown,
                   streamVars>>

PathLost(c) ==
    /\ conn[c].state = "up"
    /\ Fault
    /\ conn' = Lose({c})
    /\ UNCHANGED <<link, pins, inHosts, host, key, pc, mine, shown, streamVars>>

\* The idle timeout, or a host that says goodbye.
Noticed(c) ==
    /\ conn[c].state = "silent"
    /\ conn' = [conn EXCEPT ![c].state = "closed"]
    /\ UNCHANGED <<link, pins, hostVars, pc, mine, shown, streamVars>>

\* The user edits hosts.json.
EditHosts ==
    /\ Fault
    /\ inHosts' = ~inHosts
    /\ UNCHANGED <<link, conn, pins, host, key, pc, mine, shown, streamVars>>

-----------------------------------------------------------------------------
(* open_stream and what it calls *)

Goto(p, to) == pc' = [pc EXCEPT ![p] = to]

\* close_reason() is Some.
Closed(c) == c # None => conn[c].state = "closed"

\* An error reply: nothing has reached the pane before it, and it comes back.
Fail(p) ==
    /\ Goto(p, "idle")
    /\ mine' = [mine EXCEPT ![p] = None]
    /\ shown' = [shown EXCEPT ![p] = None]

\* relay, and the files open_stream reads before anything else.
Relay(p) ==
    /\ pc[p] = "idle"
    /\ IF inHosts
       THEN /\ Goto(p, "look")
            /\ UNCHANGED <<mine, shown>>
       ELSE Fail(p)
    /\ UNCHANGED <<link, conn, pins, hostVars, streamVars>>

\* live: a closed connection leaves the cache.
Live(p) ==
    /\ pc[p] = "look"
    /\ IF Closed(link)
       THEN /\ link' = None
            /\ Goto(p, "dial")
            /\ UNCHANGED mine
       ELSE /\ mine' = [mine EXCEPT ![p] = link]
            /\ Goto(p, "open")
            /\ UNCHANGED link
    /\ UNCHANGED <<conn, pins, hostVars, shown, streamVars>>

\* Nothing resolves, or answers in time.
DialFails(p) ==
    /\ pc[p] = "dial"
    /\ ~host
    /\ Fail(p)
    /\ UNCHANGED <<link, conn, pins, hostVars, streamVars>>

\* Somebody has a handle of it.
Held(c) == c = link \/ \E p \in Pane : c \in {mine[p], stream[p], media[p]}

Established(p, k) ==
    \E c \in Conn :
       /\ ~Held(c)
       /\ \A d \in Conn : d < c => Held(d)
       /\ conn' = [conn EXCEPT ![c] = [state |-> "up", key |-> k]]
       /\ mine' = [mine EXCEPT ![p] = c]
       /\ Goto(p, "insert")

\* Mutant of CheckPin: any key will do once there is a pin.
CheckPinAny(p) ==
    /\ pc[p] = "dial"
    /\ host
    /\ IF pins = <<>>
       THEN /\ shown' = [shown EXCEPT ![p] = key]
            /\ Goto(p, "pin")
            /\ UNCHANGED <<conn, mine>>
       ELSE Established(p, key) /\ UNCHANGED shown
    /\ UNCHANGED <<link, pins, hostVars, streamVars>>

\* check_pin, when the host shows its certificate: the first line of
\* known_hosts decides, or there is none.
CheckPin(p) ==
    /\ pc[p] = "dial"
    /\ host
    /\ IF pins = <<>>
       THEN /\ shown' = [shown EXCEPT ![p] = key]
            /\ Goto(p, "pin")
            /\ UNCHANGED <<conn, mine>>
       ELSE IF Head(pins) = key
       THEN Established(p, key) /\ UNCHANGED shown
       ELSE Fail(p) /\ UNCHANGED conn
    /\ UNCHANGED <<link, pins, hostVars, streamVars>>

\* append_pin; another dial may have appended since, and the handshake fails
\* with a host that is gone or has restarted with another key.
AppendPin(p) ==
    /\ pc[p] = "pin"
    /\ pins' = Append(pins, shown[p])
    /\ IF host /\ key = shown[p]
       THEN /\ Established(p, shown[p])
            /\ shown' = [shown EXCEPT ![p] = None]
       ELSE Fail(p) /\ UNCHANGED conn
    /\ UNCHANGED <<link, hostVars, streamVars>>

\* append_pin cannot make, open or write the file: no line, or one cut short,
\* which matches no key.
AppendFails(p) ==
    /\ pc[p] = "pin"
    /\ Fault
    /\ pins' \in {pins, Append(pins, None)}
    /\ Fail(p)
    /\ UNCHANGED <<link, conn, inHosts, host, key, streamVars>>

\* Mutant of Insert: the later connection takes the cache.
InsertOver(p) ==
    /\ pc[p] = "insert"
    /\ link' = mine[p]
    /\ Goto(p, "open")
    /\ UNCHANGED <<conn, mine, pins, hostVars, shown, streamVars>>

\* The cache may have been filled during the dial: the loser's is closed.
Insert(p) ==
    /\ pc[p] = "insert"
    /\ IF Closed(link)
       THEN link' = mine[p] /\ UNCHANGED <<conn, mine>>
       ELSE /\ conn' = [conn EXCEPT ![mine[p]].state = "closed"]
            /\ mine' = [mine EXCEPT ![p] = link]
            /\ UNCHANGED link
    /\ Goto(p, "open")
    /\ UNCHANGED <<pins, hostVars, shown, streamVars>>

Streams(c) == {p \in Pane : stream[p] = c}

\* open_bi and the handshake can go through.
Carries(c) ==
    /\ conn[c].state = "up"
    /\ Cardinality(Streams(c)) < MaxStreams

Open(p) ==
    /\ pc[p] = "open"
    /\ Carries(mine[p])
    /\ stream' = [stream EXCEPT ![p] = mine[p]]
    /\ mine' = [mine EXCEPT ![p] = None]
    /\ Goto(p, IF p \in Audio THEN "bridge" ELSE "stream")
    /\ UNCHANGED <<link, conn, pins, hostVars, shown, media>>

\* With the token the alias has by now, the request is too large.
RequestTooLarge(p) ==
    /\ pc[p] = "open"
    /\ Fault
    /\ Fail(p)
    /\ UNCHANGED <<link, conn, pins, inHosts, host, key, streamVars>>

\* It is closed, or OPEN_TIMEOUT has passed.
OpenFails(p) ==
    /\ pc[p] = "open"
    /\ ~Carries(mine[p])
    /\ mine' = [mine EXCEPT ![p] = None]
    /\ Goto(p, "evict")
    /\ UNCHANGED <<link, conn, pins, hostVars, shown, streamVars>>

\* evict: whatever connection the alias has by now.
Evict(p) ==
    /\ pc[p] = "evict"
    /\ link' = None
    /\ conn' = IF link = None THEN conn
               ELSE [conn EXCEPT ![link].state = "closed"]
    /\ Fail(p)
    /\ UNCHANGED <<pins, hostVars, streamVars>>

\* Mutant of Bridge: nothing is checked.
BridgeBlind(p) ==
    /\ pc[p] = "bridge"
    /\ media' = [media EXCEPT ![p] = link]
    /\ Goto(p, "stream")
    /\ UNCHANGED <<link, conn, pins, hostVars, mine, shown, stream>>

\* An audio relay looks its connection up again.
Bridge(p) ==
    /\ pc[p] = "bridge"
    /\ IF Closed(link)
       THEN /\ link' = None
            /\ Goto(p, "idle")
            /\ stream' = [stream EXCEPT ![p] = None]
            /\ UNCHANGED media
       ELSE /\ media' = [media EXCEPT ![p] = link]
            /\ Goto(p, "stream")
            /\ UNCHANGED <<link, stream>>
    /\ UNCHANGED <<conn, pins, hostVars, mine, shown>>

Ends(p) ==
    /\ pc[p] = "stream"
    /\ Goto(p, "idle")
    /\ stream' = [stream EXCEPT ![p] = None]
    /\ media' = [media EXCEPT ![p] = None]
    /\ UNCHANGED <<link, conn, pins, hostVars, mine, shown>>

\* Mutant of StreamEnds: a splice does not notice, only an audio bridge.
StreamEndsAudio(p) == Ends(p) /\ Closed(stream[p]) /\ p \in Audio

\* splice: the remote half is gone, and the pane is told.
StreamEnds(p) == Ends(p) /\ Closed(stream[p])

\* Its pane hangs up, or the remote daemon ends the session.
Hangup(p) == Ends(p) /\ ~Closed(stream[p])

PaneStep(p) ==
    \/ Relay(p)
    \/ Live(p)
    \/ DialFails(p)
    \/ CheckPin(p)
    \/ AppendPin(p)
    \/ Insert(p)
    \/ Open(p)
    \/ OpenFails(p)
    \/ Evict(p)
    \/ Bridge(p)
    \/ StreamEnds(p)

Next ==
    \/ HostDown
    \/ HostUp
    \/ EditHosts
    \/ \E c \in Conn : PathLost(c) \/ Noticed(c)
    \/ \E p \in Pane :
          PaneStep(p) \/ Hangup(p) \/ AppendFails(p) \/ RequestTooLarge(p)

\* Tasks run, idle timeouts fire, and panes come back.  Hosts owe nothing.
Fairness ==
    /\ \A p \in Pane : WF_vars(PaneStep(p))
    /\ \A c \in Conn : WF_vars(Noticed(c))

Spec     == Init /\ [][Next]_vars
FairSpec == Spec /\ Fairness

-----------------------------------------------------------------------------
(* One QUIC connection per host (broker.rs:1): whatever dials overlap, and  *)
(* whichever connections are lost, closed or evicted meanwhile, a pane that *)
(* has or is about to open a stream is on the cached connection or on one   *)
(* that is closed, and so are an audio route's datagrams.                   *)
OneLink ==
    \A p \in Pane :
       \A c \in {stream[p], media[p], IF pc[p] = "open" THEN mine[p] ELSE None} :
          Closed(c) \/ c = link

(* check_pin: with one line in known_hosts, every connection there is was   *)
(* made with its key, however often the host's key changes, and none if the *)
(* line has no whole key.                                                   *)
PinHolds ==
    Len(pins) <= 1 =>
       \A c \in Conn : Held(c) => pins = <<conn[c].key>>

(* "A cached connection that cannot open a stream is dead weight: evict it" *)
(* (broker.rs, open_stream): what is about to be evicted is no connection   *)
(* that works for other panes.                                              *)
EvictsOnlyCorpses ==
    \A p \in Pane :
       pc[p] = "evict" => link = None \/ conn[link].state # "up"

(* The pane's automatic retry redials (broker.rs, open_stream): once the    *)
(* host stays up, listed and with its pinned key, no path is lost any more  *)
(* and no late failure evicts a connection that works, every pane has a     *)
(* working stream again and again.                                          *)
Recovers ==
    /\ <>[](host /\ inHosts /\ (pins = <<>> \/ Head(pins) = key))
    /\ <>[]EvictsOnlyCorpses
    => \A p \in Pane :
             []<>(pc[p] = "stream" /\ conn[stream[p]].state = "up")

(* Streams and datagrams stay on the alias's one connection, in every       *)
(* well-typed state.                                                        *)
Consistent == TypeOK /\ OneLink
=============================================================================
